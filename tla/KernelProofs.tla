---------------------------- MODULE KernelProofs ----------------------------
(***************************************************************************)
(* What holds of the reference counts, the pages, the pipes and the disk   *)
(* blocks of the kernel of Kernel.tla (xv6, lab2: kernel/file.c,           *)
(* kernel/pipe.c, kernel/fs.c, kernel/sysfile.c, kernel/proc.c) in every   *)
(* run of every user program, for every size of its tables.                *)
(*                                                                         *)
(* RefsExact says that the count of an entry of the file table is the      *)
(* number of descriptors that name it, and the count of an inode the       *)
(* number of entries and of current directories that hold it.  A call      *)
(* takes references and gives them back in many small steps, on every      *)
(* error path too, so the proof follows what the call under way holds      *)
(* beyond them: Holds(B, s, a, b, c) says that s has the references of B   *)
(* and one to each of a, b and c.  iget() fills a place, iput() empties    *)
(* it, and a system call is Neutral when it ends with none.  RefInv adds   *)
(* to RefsExact that free entries hold no inode and that only a live       *)
(* process has descriptors and a directory, without which exit(), wait()   *)
(* and fork() would not keep it.                                           *)
(*                                                                         *)
(* PagesKept says that each page is free or has one owner.  PipeInv says   *)
(* that an end of a pipe is one entry of the file table, open as long as   *)
(* there is that entry: the reason why pipeclose() is called once for each *)
(* end and the page of a pipe is freed once.  PageInv follows the pages    *)
(* through what a call has taken of the free list when it fails half way.  *)
(* KernelInv, the three together, is inductive.                            *)
(*                                                                         *)
(* BlocksKept says that each block of the disk is clear in the bitmap or   *)
(* one of one inode: Stock, the clear blocks and those of the inodes, is   *)
(* what the disk had at the boot.  A step of bmap() or itrunc() is Steady  *)
(* when it moves blocks between the two only, and Calm when it also gives  *)
(* no inode a type. A write into a directory or a free inode would leave   *)
(* entries that dirlookup() follows to no inode, so BlockInv adds to the   *)
(* stock that an inode is well formed and a directory a list of entries    *)
(* (Sound), that an entry of the file table has an inode (OpensOk), that a *)
(* file open for writing is neither a directory nor free (Writable), and   *)
(* that a live process has a directory (Rooted). KernelInv and BlockInv    *)
(* together are inductive.                                                 *)
(***************************************************************************)
EXTENDS Kernel, FiniteSetTheorems, WellFoundedInduction, TLAPS

---------------------------------------------------------------------------
(* Induction over numbers.                                                 *)

\* A set of numbers has a least one.
LEMMA LeastNumber ==
    ASSUME NEW T \in SUBSET Nat, T # {}
    PROVE  \E x \in T : \A y \in T : x <= y
<1> DEFINE R == OpToRel(<, Nat)
<1>1. IsWellFoundedOn(R, Nat)
  BY NatLessThanWellFounded
<1>2. \A x, y \in Nat : y < x => <<y, x>> \in R
  BY DEF OpToRel
<1> HIDE DEF R
<1>3. T \subseteq Nat
  OBVIOUS
<1>4. PICK x \in T : \A y \in T : ~(<<y, x>> \in R)
  BY <1>1, <1>3, WFMin, Zenon
<1>5. \A y \in T : x <= y
  <2> SUFFICES ASSUME NEW y \in T PROVE x <= y
    OBVIOUS
  <2>1. x \in Nat /\ y \in Nat /\ ~(y < x)
    BY <1>2, <1>3, <1>4
  <2> QED BY <2>1
<1> QED BY <1>5

\* Induction.
LEMMA AllNumbers ==
    ASSUME NEW S \in SUBSET Nat, 0 \in S, \A k \in S : k + 1 \in S
    PROVE  S = Nat
<1> SUFFICES ASSUME ~(Nat \subseteq S) PROVE FALSE
  OBVIOUS
<1>1. Nat \ S # {} /\ Nat \ S \in SUBSET Nat
  OBVIOUS
<1>2. PICK x \in Nat \ S : \A y \in Nat \ S : x <= y
  BY <1>1, LeastNumber, Zenon
<1>3. x # 0 /\ x - 1 \in Nat /\ x - 1 \in S /\ (x - 1) + 1 = x
  BY <1>2
<1> QED BY <1>2, <1>3

---------------------------------------------------------------------------
(* Memory.                                                                 *)

\* Quotient and remainder.
LEMMA DivMod ==
    ASSUME NEW m \in Nat \ {0}, NEW a \in Int
    PROVE  a \div m \in Int /\ a % m \in 0..(m - 1) /\ a = m * (a \div m) + (a % m)
BY SMT

\* A quotient grows with what is divided.
LEMMA DivGrows ==
    ASSUME NEW m \in Nat \ {0}, NEW a \in Int, NEW b \in Int, a <= b
    PROVE  a \div m <= b \div m
<1>1. PICK q, r, s, t : q = a \div m /\ r = a % m /\ s = b \div m /\ t = b % m
  OBVIOUS
<1>2. q \in Int /\ r \in 0..(m - 1) /\ a = m * q + r /\ s \in Int /\ t \in 0..(m - 1) /\ b = m * s + t
  BY <1>1, DivMod
<1>3. CASE s - q <= -1
  <2>1. m * (s - q) <= -m
    BY <1>2, <1>3
  <2>2. m * (s - q) = (b - t) - (a - r)
    BY <1>2
  <2>3. m * (s - q) >= -(m - 1)
    BY <1>2, <2>2
  <2> QED BY <1>2, <2>1, <2>3
<1> QED BY <1>1, <1>2, <1>3

\* What is divided by its factor.
LEMMA DivExact ==
    ASSUME NEW m \in Nat \ {0}, NEW q \in Int
    PROVE  (q * m) \div m = q
<1>1. PICK a, d, r : a = q * m /\ d = a \div m /\ r = a % m
  OBVIOUS
<1>0. a \in Int
  BY <1>1
<1>2. a \in Int /\ d \in Int /\ r \in 0..(m - 1) /\ a = m * d + r
  BY <1>0, <1>1, DivMod
<1>3. m * (q - d) = r
  BY <1>1, <1>2
<1>4. CASE q - d >= 1
  <2>1. m * (q - d) >= m
    BY <1>2, <1>4
  <2> QED BY <1>2, <1>3, <2>1
<1>5. CASE q - d <= -1
  <2>1. m * (q - d) <= -m
    BY <1>2, <1>5
  <2> QED BY <1>2, <1>3, <2>1
<1> QED BY <1>1, <1>2, <1>4, <1>5

\* The pages of a size.
LEMMA PagesIs ==
    ASSUME NEW sz \in Nat
    PROVE  /\ Pages(sz) \in Int /\ Pages(sz) >= 0
           /\ \A new \in Nat : sz <= new => Pages(sz) <= Pages(new)
<1> DEFINE up(n) == (n + PGSIZE - 1) \div PGSIZE
<1>1. PGSIZE \in Nat \ {0}
  BY MemAssumption
<1>2. \A n \in Nat : n + PGSIZE - 1 \in Int /\ 0 <= n + PGSIZE - 1
  BY <1>1
<1>3. ASSUME NEW n \in Nat PROVE up(n) \in Int /\ Pages(n) = up(n)
  <2>1. up(n) \in Int
    BY <1>1, <1>2, DivMod
  <2>2. Pages(n) = (up(n) * PGSIZE) \div PGSIZE
    BY DEF Pages, PGROUNDUP
  <2> HIDE DEF up
  <2> QED BY <1>1, <2>1, <2>2, DivExact
<1>4. up(sz) >= 0
  <2>1. 0 \div PGSIZE <= up(sz)
    BY <1>1, <1>2, DivGrows
  <2>2. (0 * PGSIZE) \div PGSIZE = 0 /\ 0 * PGSIZE = 0
    BY <1>1, DivExact
  <2>3. 0 \div PGSIZE = 0
    BY <2>2
  <2>4. up(sz) \in Int
    BY <1>3
  <2> HIDE DEF up
  <2> QED BY <2>1, <2>3, <2>4
<1>5. ASSUME NEW new \in Nat, sz <= new PROVE up(sz) <= up(new)
  <2>1. sz + PGSIZE - 1 <= new + PGSIZE - 1
    BY <1>1, <1>5
  <2> QED BY <1>1, <1>2, <2>1, DivGrows
<1> HIDE DEF up
<1> QED BY <1>3, <1>4, <1>5

\* The pages of whole pages.
LEMMA PagesExact ==
    ASSUME NEW k \in Nat
    PROVE  Pages(k * PGSIZE) = k
<1>1. PGSIZE \in Nat \ {0}
  BY MemAssumption
<1>2. PICK q : q = (k * PGSIZE + PGSIZE - 1) \div PGSIZE
  OBVIOUS
<1>3. k * PGSIZE \in Int /\ k * PGSIZE + PGSIZE - 1 \in Int
  BY <1>1
<1>4. q \in Int /\ k <= q
  <2>1. k * PGSIZE <= k * PGSIZE + PGSIZE - 1
    BY <1>1, <1>3
  <2>2. (k * PGSIZE) \div PGSIZE <= q
    BY <1>1, <1>2, <1>3, <2>1, DivGrows
  <2>3. (k * PGSIZE) \div PGSIZE = k
    BY <1>1, DivExact
  <2>4. q \in Int
    BY <1>1, <1>2, <1>3, DivMod
  <2> QED BY <2>2, <2>3, <2>4
<1>5. q < k + 1
  <2>1. PICK r : r = (k * PGSIZE + PGSIZE - 1) % PGSIZE
    OBVIOUS
  <2>2. r \in 0..(PGSIZE - 1) /\ k * PGSIZE + PGSIZE - 1 = PGSIZE * q + r
    BY <1>1, <1>2, <1>3, <2>1, DivMod
  <2>3. PGSIZE * (q - k) <= PGSIZE - 1
    BY <1>1, <1>4, <2>2
  <2>4. CASE q - k >= 1
    <3>1. PGSIZE * (q - k) >= PGSIZE
      BY <1>1, <1>4, <2>4
    <3> QED BY <1>1, <1>4, <2>3, <3>1
  <2> QED BY <1>4, <2>4
<1>6. q = k
  BY <1>4, <1>5
<1>7. Pages(k * PGSIZE) = (q * PGSIZE) \div PGSIZE
  BY <1>2 DEF Pages, PGROUNDUP
<1> QED BY <1>1, <1>6, <1>7, DivExact

\* A record of the loop of mappages().
MapFields == {"free", "low", "got", "ok"}
Mapping(m, k, sum) ==
    /\ DOMAIN m = MapFields /\ m.free \in Int /\ m.low \in Int /\ m.got \in Int /\ m.ok \in BOOLEAN
    /\ m.free + m.low + m.got = sum
    /\ m.ok => m.got = k

\* One page: what the free list loses is mapped or a table.
LEMMA MapPageKeeps ==
    ASSUME NEW m, NEW page \in Int, NEW k \in Int, NEW sum, Mapping(m, k, sum)
    PROVE  Mapping(mapPage(m, page), k + 1, sum)
<1>1. PICK t : t = tablesFor(page)
  OBVIOUS
<1>2. PICK short : short = IF t > m.low THEN t - m.low ELSE 0
  OBVIOUS
<1>3. t \in Int
  BY <1>1, MemAssumption, DivMod DEF tablesFor
<1>4. DOMAIN m = MapFields /\ m.free \in Int /\ m.low \in Int /\ m.got \in Int /\ m.ok \in BOOLEAN
  BY DEF Mapping
<1>5. short \in Int
  BY <1>2, <1>3, <1>4
<1>6. m.free + m.low + m.got = sum /\ (m.ok => m.got = k)
  BY DEF Mapping
<1>7. mapPage(m, page) = IF ~m.ok THEN m
                         ELSE IF m.free = 0 THEN [m EXCEPT !.ok = FALSE]
                         ELSE IF m.free - 1 < short
                         THEN [m EXCEPT !.ok = FALSE, !.low = @ + m.free - 1, !.free = 1]
                         ELSE [m EXCEPT !.free = @ - 1 - short, !.low = @ + short, !.got = @ + 1]
  BY <1>1, <1>2 DEF mapPage
<1>8. CASE ~m.ok
  BY <1>4, <1>6, <1>7, <1>8 DEF Mapping
<1>9. CASE m.ok /\ m.free = 0
  <2>1. mapPage(m, page) = [m EXCEPT !.ok = FALSE]
    BY <1>7, <1>9
  <2> QED BY <1>4, <1>6, <2>1 DEF Mapping, MapFields
<1>10. CASE m.ok /\ m.free # 0 /\ m.free - 1 < short
  <2>1. mapPage(m, page) = [m EXCEPT !.ok = FALSE, !.low = @ + m.free - 1, !.free = 1]
    BY <1>7, <1>10
  <2> QED BY <1>4, <1>6, <2>1 DEF Mapping, MapFields
<1>11. CASE m.ok /\ m.free # 0 /\ ~(m.free - 1 < short)
  <2>1. mapPage(m, page) = [m EXCEPT !.free = @ - 1 - short, !.low = @ + short, !.got = @ + 1]
    BY <1>7, <1>11
  <2>2. PICK r : r = mapPage(m, page)
    OBVIOUS
  <2>3. DOMAIN r = MapFields /\ r.free = m.free - 1 - short /\ r.low = m.low + short /\ r.got = m.got + 1 /\ r.ok = m.ok
    BY <1>4, <2>1, <2>2 DEF MapFields
  <2>4. r.free \in Int /\ r.low \in Int /\ r.got \in Int /\ r.ok \in BOOLEAN
    BY <1>4, <1>5, <2>3
  <2>5. r.free + r.low + r.got = sum /\ (r.ok => r.got = k + 1)
    BY <1>4, <1>5, <1>6, <2>3
  <2> QED BY <2>2, <2>3, <2>4, <2>5 DEF Mapping
<1> QED BY <1>4, <1>8, <1>9, <1>10, <1>11

\* The loop of uvmalloc() and uvmcopy().
Maps(u, m0, from, n) == u = [k \in 0..n |-> IF k = 0 THEN m0 ELSE mapPage(u[k - 1], from + k - 1)]

\* It has as many turns as it needs.
LEMMA MapsExist ==
    ASSUME NEW m0, NEW from \in Int
    PROVE  \A n \in Nat : \E u : Maps(u, m0, from, n)
<1> DEFINE S == {n \in Nat : \E u : Maps(u, m0, from, n)}
<1>1. 0 \in S
  <2>1. Maps([k \in 0..0 |-> m0], m0, from, 0) /\ [k \in 0..0 |-> m0][0] = m0
    BY DEF Maps
  <2> QED BY <2>1
<1>2. ASSUME NEW n \in S PROVE n + 1 \in S
  <2>0. n \in Nat /\ n + 1 \in Nat /\ n + 1 # 0 /\ (n + 1) - 1 = n /\ n \in 0..n
    OBVIOUS
  <2>1. PICK u : Maps(u, m0, from, n)
    OBVIOUS
  <2>2. PICK v : v = mapPage(u[n], from + n)
    OBVIOUS
  <2>4. PICK h : h = [k \in 0..(n + 1) |-> IF k = n + 1 THEN v ELSE u[k]]
    OBVIOUS
  <2>5. h[n + 1] = v /\ \A k \in 0..n : h[k] = u[k]
    BY <2>0, <2>4
  <2>6. Maps(h, m0, from, n + 1)
    <3>1. ASSUME NEW k \in 0..(n + 1)
          PROVE  h[k] = IF k = 0 THEN m0 ELSE mapPage(h[k - 1], from + k - 1)
      <4>1. CASE k = n + 1
        <5>1. from + k - 1 = from + n
          BY <2>0, <4>1
        <5> QED BY <2>0, <2>2, <2>5, <4>1, <5>1
      <4>2. CASE k # n + 1
        <5>1. k \in 0..n /\ (k # 0 => k - 1 \in 0..n)
          BY <2>0, <4>2
        <5> QED BY <2>1, <2>5, <5>1 DEF Maps
      <4> QED BY <4>1, <4>2
    <3>2. h = [k \in 0..(n + 1) |-> h[k]]
      BY <2>4
    <3>3. h = [k \in 0..(n + 1) |-> IF k = 0 THEN m0 ELSE mapPage(h[k - 1], from + k - 1)]
      BY <3>1, <3>2
    <3> QED BY <3>3 DEF Maps
  <2> QED BY <2>0, <2>6
<1>3. S = Nat
  <2>1. S \in SUBSET Nat
    OBVIOUS
  <2> HIDE DEF S
  <2> QED BY <1>1, <1>2, <2>1, AllNumbers, Zenon
<1> QED BY <1>3

\* The pages from .. top - 1: all of them, or a failure that has kept none that it does not count.
LEMMA MapPagesKeeps ==
    ASSUME NEW avail \in Int, NEW low \in Int, NEW from \in Int, NEW top \in Int, from <= top
    PROVE  Mapping(mapPages(avail, low, from, top), top - from, avail + low)
<1>1. PICK n, m0 : n = top - from /\ m0 = [free |-> avail, low |-> low, got |-> 0, ok |-> TRUE]
  OBVIOUS
<1>2. n \in Nat
  BY <1>1
<1>3. Mapping(m0, 0, avail + low)
  <2>1. DOMAIN m0 = MapFields
    BY <1>1 DEF MapFields
  <2> QED BY <1>1, <2>1 DEF Mapping
<1>4. PICK u : Maps(u, m0, from, n)
  BY <1>2, MapsExist
<1> DEFINE w == CHOOSE v : v = [k \in 0..n |-> IF k = 0 THEN m0 ELSE mapPage(v[k - 1], from + k - 1)]
<1>5. Maps(w, m0, from, n)
  BY <1>4 DEF Maps
<1>6. mapPages(avail, low, from, top) = w[n]
  BY <1>1 DEF mapPages
<1> HIDE DEF w
<1> DEFINE T == {k \in Nat : k <= n => Mapping(w[k], k, avail + low)}
<1>7. 0 \in T
  <2>1. w[0] = m0
    BY <1>2, <1>5 DEF Maps
  <2> QED BY <1>3, <2>1
<1>8. ASSUME NEW k \in T PROVE k + 1 \in T
  <2> SUFFICES ASSUME k + 1 <= n PROVE Mapping(w[k + 1], k + 1, avail + low)
    OBVIOUS
  <2>1. k \in Nat /\ k + 1 \in 0..n /\ k + 1 # 0 /\ (k + 1) - 1 = k /\ from + k \in Int /\ k \in Int
    BY <1>2
  <2>2. from + (k + 1) - 1 = from + k
    BY <2>1
  <2>3. w[k + 1] = mapPage(w[k], from + k)
    <3>1. w[k + 1] = mapPage(w[(k + 1) - 1], from + (k + 1) - 1)
      BY <1>5, <2>1 DEF Maps
    <3> QED BY <2>1, <2>2, <3>1
  <2>4. Mapping(w[k], k, avail + low)
    BY <1>2
  <2> QED BY <2>1, <2>3, <2>4, MapPageKeeps
<1>9. T = Nat
  <2>1. T \in SUBSET Nat
    OBVIOUS
  <2> HIDE DEF T
  <2> QED BY <1>7, <1>8, <2>1, AllNumbers, Zenon
<1>10. Mapping(w[n], n, avail + low)
  BY <1>2, <1>9
<1> QED BY <1>1, <1>6, <1>10

\* An address space, with the pages that it keeps.
InMemory(sz, low) == sz \in Nat /\ low \in Int

\* A footprint is a number.
LEMMA FootprintInt ==
    ASSUME NEW sz, NEW low, InMemory(sz, low)
    PROVE  Footprint(sz, low) = 4 + low + Pages(sz) /\ Footprint(sz, low) \in Int /\ Pages(sz) \in Nat
<1>1. sz \in Nat /\ low \in Int
  BY DEF InMemory
<1>2. Pages(sz) \in Nat
  BY <1>1, PagesIs
<1> QED BY <1>1, <1>2 DEF Footprint, TRAPFRAMEPAGES, TOPTABLES

\* sbrk() takes from the free list what it gives to the process (kernel/proc.c, growproc()).
LEMMA GrowprocKeeps ==
    ASSUME NEW avail \in Int, NEW low, NEW sz, InMemory(sz, low), NEW n \in Int,
           NEW m, m = growproc(avail, low, sz, n)
    PROVE  /\ m.free \in Int /\ InMemory(m.sz, m.low)
           /\ m.free + Footprint(m.sz, m.low) = avail + Footprint(sz, low)
<1>1. sz \in Nat /\ low \in Int
  BY DEF InMemory
<1>2. PICK a, b : a = Pages(sz) /\ b = Pages(sz + n)
  OBVIOUS
<1>3. CASE n = 0
  BY <1>1, <1>3 DEF growproc
<1>4. CASE n > 0
  <2>1. sz + n \in Nat /\ sz <= sz + n /\ ~(sz + n < sz)
    BY <1>1, <1>4
  <2>2. a \in Int /\ b \in Int /\ a <= b
    BY <1>1, <1>2, <2>1, PagesIs
  <2>3. PICK r : r = mapPages(avail, low, a, b)
    OBVIOUS
  <2>4. Mapping(r, b - a, avail + low)
    BY <1>1, <2>2, <2>3, MapPagesKeeps
  <2>5. r.free \in Int /\ r.low \in Int /\ r.got \in Int /\ r.free + r.low + r.got = avail + low /\ (r.ok => r.got = b - a)
    BY <2>4 DEF Mapping
  <2>6. m = IF r.ok THEN [free |-> r.free, low |-> r.low, ok |-> TRUE, sz |-> sz + n]
            ELSE [free |-> r.free + r.got, low |-> r.low, ok |-> FALSE, sz |-> sz]
    BY <1>2, <1>4, <2>1, <2>3 DEF growproc, uvmalloc
  <2>7. CASE r.ok
    <3>1. m.free = r.free /\ m.low = r.low /\ m.sz = sz + n /\ r.got = b - a
      BY <2>5, <2>6, <2>7
    <3>2. InMemory(m.sz, m.low)
      BY <2>1, <2>5, <3>1 DEF InMemory
    <3>3. Footprint(m.sz, m.low) = 4 + r.low + b /\ Footprint(sz, low) = 4 + low + a
      BY <1>2, <3>1, <3>2, FootprintInt
    <3>4. r.free + (4 + r.low + b) = avail + (4 + low + a)
      BY <1>1, <2>2, <2>5, <3>1
    <3> QED BY <2>5, <3>1, <3>2, <3>3, <3>4
  <2>8. CASE ~r.ok
    <3>1. m.free = r.free + r.got /\ m.low = r.low /\ m.sz = sz
      BY <2>6, <2>8
    <3>2. InMemory(m.sz, m.low)
      BY <1>1, <2>5, <3>1 DEF InMemory
    <3>3. Footprint(m.sz, m.low) = 4 + r.low + a /\ Footprint(sz, low) = 4 + low + a
      BY <1>2, <3>1, <3>2, FootprintInt
    <3>4. r.free + r.got + (4 + r.low + a) = avail + (4 + low + a)
      BY <1>1, <2>2, <2>5, <3>1
    <3> QED BY <2>5, <3>1, <3>2, <3>3, <3>4
  <2> QED BY <2>7, <2>8
<1>5. CASE n < 0
  <2>1. m = IF sz + n < 0 \/ sz + n >= sz THEN [free |-> avail, low |-> low, ok |-> TRUE, sz |-> sz]
            ELSE [free |-> avail + (a - b), low |-> low, ok |-> TRUE, sz |-> sz + n]
    BY <1>1, <1>2, <1>5 DEF growproc, uvmdealloc
  <2>2. CASE sz + n < 0
    <3>1. m.free = avail /\ m.low = low /\ m.sz = sz
      BY <2>1, <2>2
    <3> QED BY <3>1
  <2>3. CASE ~(sz + n < 0)
    <3>1. sz + n \in Nat /\ ~(sz + n >= sz)
      BY <1>1, <1>5, <2>3
    <3>2. m.free = avail + (a - b) /\ m.low = low /\ m.sz = sz + n
      BY <2>1, <2>3, <3>1
    <3>3. InMemory(m.sz, m.low)
      BY <1>1, <3>1, <3>2 DEF InMemory
    <3>4. a \in Int /\ b \in Int
      BY <1>1, <1>2, <3>1, PagesIs
    <3>5. Footprint(m.sz, m.low) = 4 + low + b /\ Footprint(sz, low) = 4 + low + a
      BY <1>2, <3>2, <3>3, FootprintInt
    <3> QED BY <1>1, <3>2, <3>3, <3>4, <3>5
  <2> QED BY <2>2, <2>3
<1> QED BY <1>3, <1>4, <1>5

\* fork() takes the pages of the child from the free list, or nothing (kernel/proc.c, uvmcopy()).
LEMMA ForkMemKeeps ==
    ASSUME NEW avail \in Int, NEW sz \in Nat, NEW m, m = forkMem(avail, sz), m.ok
    PROVE  m.free \in Int /\ InMemory(sz, m.low) /\ m.free + Footprint(sz, m.low) = avail
<1>1. PICK b : b = Pages(sz)
  OBVIOUS
<1>2. b \in Int /\ 0 <= b
  BY <1>1, PagesIs
<1>3. PICK r : r = mapPages(avail - 4, 0, 0, b)
  OBVIOUS
<1>4. Mapping(r, b - 0, (avail - 4) + 0)
  BY <1>2, <1>3, MapPagesKeeps
<1>5. r.free \in Int /\ r.low \in Int /\ r.got \in Int /\ r.free + r.low + r.got = avail - 4 /\ (r.ok => r.got = b)
  BY <1>2, <1>4 DEF Mapping
<1>6. m = IF avail < 4 \/ ~r.ok THEN [free |-> avail, low |-> 0, ok |-> FALSE]
          ELSE [free |-> r.free, low |-> r.low, ok |-> TRUE]
  <2>1. TRAPFRAMEPAGES + TOPTABLES = 4
    BY DEF TRAPFRAMEPAGES, TOPTABLES
  <2> QED BY <1>1, <1>3, <2>1 DEF forkMem
<1>7. m.free = r.free /\ m.low = r.low /\ r.ok
  BY <1>6
<1>8. InMemory(sz, m.low)
  BY <1>5, <1>7 DEF InMemory
<1>9. Footprint(sz, m.low) = 4 + r.low + b
  BY <1>1, <1>7, <1>8, FootprintInt
<1> QED BY <1>2, <1>5, <1>7, <1>8, <1>9

\* exec() gives back the old pages for the new ones, or changes nothing (kernel/exec.c).
LEMMA ExecMemKeeps ==
    ASSUME NEW avail \in Int, NEW sz, NEW low, InMemory(sz, low), NEW args, Len(args) \in Nat, NEW ok,
           NEW m, m = execMem(avail, sz, low, args, ok)
    PROVE  /\ m.free \in Int /\ InMemory(m.sz, m.low)
           /\ m.free + Footprint(m.sz, m.low) = avail + Footprint(sz, low)
<1>1. sz \in Nat /\ low \in Int
  BY DEF InMemory
<1>2. PICK n, left, new : n = Len(args) /\ left = avail - n - TOPTABLES /\ new = (IMAGE + 2) * PGSIZE
  OBVIOUS
<1>3. PICK r, fits : r = mapPages(left, 0, 0, IMAGE + 2) /\ fits = (n < MAXARG /\ n + 1 <= PGSIZE)
  OBVIOUS
<1>4. PICK image : image = IMAGE + 2
  OBVIOUS
<1>5. n \in Nat /\ left = avail - n - 3 /\ left \in Int /\ image \in Nat /\ PGSIZE \in Nat /\ new \in Nat
  BY <1>2, <1>4, MemAssumption DEF TOPTABLES
<1>6. Mapping(r, image - 0, left + 0)
  BY <1>3, <1>4, <1>5, MapPagesKeeps
<1>7. r.free \in Int /\ r.low \in Int /\ r.got \in Int /\ r.free + r.low + r.got = left /\ (r.ok => r.got = image)
  BY <1>5, <1>6 DEF Mapping
<1>8. m = IF ~ok \/ left < 0 \/ ~r.ok \/ ~fits
          THEN [free |-> avail, low |-> low, sz |-> sz, ok |-> FALSE]
          ELSE [free |-> r.free + n + TOPTABLES + low + Pages(sz), low |-> r.low, sz |-> new, ok |-> TRUE]
  BY <1>2, <1>3 DEF execMem
<1>9. CASE ~ok \/ left < 0 \/ ~r.ok \/ ~fits
  <2>1. m.free = avail /\ m.low = low /\ m.sz = sz
    BY <1>8, <1>9
  <2> QED BY <2>1
<1>10. CASE ~(~ok \/ left < 0 \/ ~r.ok \/ ~fits)
  <2>1. m.free = r.free + n + 3 + low + Pages(sz) /\ m.low = r.low /\ m.sz = new /\ r.ok
    BY <1>8, <1>10 DEF TOPTABLES
  <2>2. InMemory(m.sz, m.low)
    BY <1>5, <1>7, <2>1 DEF InMemory
  <2>3. Pages(new) = image
    BY <1>2, <1>4, <1>5, PagesExact
  <2>4. Footprint(m.sz, m.low) = 4 + r.low + image /\ Footprint(sz, low) = 4 + low + Pages(sz) /\ Pages(sz) \in Nat
    BY <2>1, <2>2, <2>3, FootprintInt
  <2>5. PICK pages : pages = Pages(sz)
    OBVIOUS
  <2>6. pages \in Nat
    BY <2>4, <2>5
  <2>7. (r.free + n + 3 + low + pages) + (4 + r.low + image) = avail + (4 + low + pages)
    <3>1. PICK x, y : x = r.free /\ y = r.low
      OBVIOUS
    <3>2. x \in Int /\ y \in Int /\ x + y + image = avail - n - 3
      BY <1>5, <1>7, <2>1, <3>1
    <3>3. (x + n + 3 + low + pages) + (4 + y + image) = avail + (4 + low + pages)
      BY <1>1, <1>5, <2>6, <3>2
    <3> QED BY <3>1, <3>3
  <2>8. r.free + n + 3 + low + pages \in Int
    <3>1. PICK x : x = r.free
      OBVIOUS
    <3>2. x \in Int /\ n \in Int /\ low \in Int
      BY <1>1, <1>5, <1>7, <3>1
    <3>3. x + n + 3 + low + pages \in Int
      BY <2>6, <3>2
    <3> QED BY <3>1, <3>3
  <2> QED BY <2>1, <2>2, <2>4, <2>5, <2>7, <2>8
<1> QED BY <1>9, <1>10

---------------------------------------------------------------------------
(* Sums.                                                                   *)

\* The sum of f, one number after the other.
Sums(u, f, n) == u = [k \in 0..n |-> IF k = 0 THEN 0 ELSE u[k - 1] + f[k]]

\* There is one.
LEMMA SumsExist ==
    ASSUME NEW f
    PROVE  \A n \in Nat : \E u : Sums(u, f, n)
<1> DEFINE S == {n \in Nat : \E u : Sums(u, f, n)}
<1>1. 0 \in S
  <2>1. Sums([k \in 0..0 |-> 0], f, 0)
    BY DEF Sums
  <2> QED BY <2>1
<1>2. ASSUME NEW n \in S PROVE n + 1 \in S
  <2>0. n \in Nat /\ n + 1 \in Nat /\ n + 1 # 0 /\ (n + 1) - 1 = n /\ n \in 0..n
    OBVIOUS
  <2>1. PICK u : Sums(u, f, n)
    OBVIOUS
  <2>2. PICK v : v = u[n] + f[n + 1]
    OBVIOUS
  <2>3. PICK h : h = [k \in 0..(n + 1) |-> IF k = n + 1 THEN v ELSE u[k]]
    OBVIOUS
  <2>4. h[n + 1] = v /\ \A k \in 0..n : h[k] = u[k]
    BY <2>0, <2>3
  <2>5. ASSUME NEW k \in 0..(n + 1)
        PROVE  h[k] = IF k = 0 THEN 0 ELSE h[k - 1] + f[k]
    <3>1. CASE k = n + 1
      BY <2>0, <2>2, <2>4, <3>1
    <3>2. CASE k # n + 1
      <4>1. k \in 0..n /\ (k # 0 => k - 1 \in 0..n)
        BY <2>0, <3>2
      <4> QED BY <2>1, <2>4, <4>1 DEF Sums
    <3> QED BY <3>1, <3>2
  <2>6. h = [k \in 0..(n + 1) |-> h[k]]
    BY <2>3
  <2>7. h = [k \in 0..(n + 1) |-> IF k = 0 THEN 0 ELSE h[k - 1] + f[k]]
    BY <2>5, <2>6
  <2>8. Sums(h, f, n + 1)
    BY <2>7 DEF Sums
  <2> QED BY <2>0, <2>8
<1>3. S = Nat
  <2>1. S \in SUBSET Nat
    OBVIOUS
  <2> HIDE DEF S
  <2> QED BY <1>1, <1>2, <2>1, AllNumbers, Zenon
<1> QED BY <1>3

\* Summed() is its last number.
LEMMA SummedIs ==
    ASSUME NEW f, NEW n \in Nat
    PROVE  \E u : Sums(u, f, n) /\ Summed(f, n) = u[n]
<1>1. PICK u : Sums(u, f, n)
  BY SumsExist
<1> DEFINE w == CHOOSE v : v = [k \in 0..n |-> IF k = 0 THEN 0 ELSE v[k - 1] + f[k]]
<1>2. Sums(w, f, n)
  BY <1>1 DEF Sums
<1>3. Summed(f, n) = w[n]
  BY DEF Summed
<1> HIDE DEF w
<1> QED BY <1>2, <1>3

\* One number more.
LEMMA SumsNext ==
    ASSUME NEW u, NEW f, NEW n \in Nat, Sums(u, f, n), NEW k \in Nat, k + 1 <= n
    PROVE  u[k + 1] = u[k] + f[k + 1]
<1>1. k + 1 \in 0..n /\ k + 1 # 0 /\ (k + 1) - 1 = k
  OBVIOUS
<1> QED BY <1>1 DEF Sums

\* Numbers that are the same but for one.
Differ(f, g, n, x) == \A k \in 1..n : f[k] \in Int /\ g[k] \in Int /\ (k # x => g[k] = f[k])

\* The sum changes as one of its numbers does.
LEMMA SummedChange ==
    ASSUME NEW n \in Nat, NEW f, NEW g, NEW x \in 1..n, Differ(f, g, n, x)
    PROVE  Summed(f, n) \in Int /\ Summed(g, n) = Summed(f, n) - f[x] + g[x]
<1>1. PICK u : Sums(u, f, n) /\ Summed(f, n) = u[n]
  BY SummedIs
<1>2. PICK v : Sums(v, g, n) /\ Summed(g, n) = v[n]
  BY SummedIs
<1>0. \A k \in 1..n : f[k] \in Int /\ g[k] \in Int /\ (k # x => g[k] = f[k])
  BY DEF Differ
<1>3. PICK c : c = g[x] - f[x]
  OBVIOUS
<1>4. c \in Int
  BY <1>0, <1>3
<1> DEFINE S == {k \in Nat : k <= n => u[k] \in Int /\ v[k] = u[k] + (IF x <= k THEN c ELSE 0)}
<1>5. 0 \in S
  <2>1. u[0] = 0 /\ v[0] = 0
    BY <1>1, <1>2 DEF Sums
  <2> QED BY <2>1
<1>6. ASSUME NEW k \in S PROVE k + 1 \in S
  <2> SUFFICES ASSUME k + 1 <= n
               PROVE  u[k + 1] \in Int /\ v[k + 1] = u[k + 1] + (IF x <= k + 1 THEN c ELSE 0)
    OBVIOUS
  <2>1. k \in Nat /\ k + 1 \in 1..n /\ u[k] \in Int /\ v[k] = u[k] + (IF x <= k THEN c ELSE 0)
    OBVIOUS
  <2>2. u[k + 1] = u[k] + f[k + 1] /\ v[k + 1] = v[k] + g[k + 1]
    BY <1>1, <1>2, <2>1, SumsNext
  <2>3. f[k + 1] \in Int /\ g[k + 1] = f[k + 1] + (IF x = k + 1 THEN c ELSE 0)
    BY <1>0, <1>3, <2>1
  <2>4. PICK a, b, y, z : a = u[k] /\ b = v[k] /\ y = f[k + 1] /\ z = g[k + 1]
    OBVIOUS
  <2>5. b + z = (a + y) + (IF x <= k + 1 THEN c ELSE 0) /\ a + y \in Int
    BY <1>4, <2>1, <2>3, <2>4
  <2> QED BY <2>2, <2>4, <2>5
<1>7. S = Nat
  <2>1. S \in SUBSET Nat
    OBVIOUS
  <2> HIDE DEF S
  <2> QED BY <1>5, <1>6, <2>1, AllNumbers, Zenon
<1>8. u[n] \in Int /\ v[n] = u[n] + c
  BY <1>7
<1>9. f[x] \in Int /\ g[x] \in Int
  BY <1>0
<1> QED BY <1>1, <1>2, <1>3, <1>8, <1>9

\* The sum of the same numbers.
LEMMA SummedSame ==
    ASSUME NEW n \in Nat, NEW f, NEW g, \A k \in 1..n : f[k] \in Int /\ g[k] = f[k]
    PROVE  Summed(f, n) \in Int /\ Summed(g, n) = Summed(f, n)
<1>1. CASE n = 0
  <2>1. PICK u : Sums(u, f, n) /\ Summed(f, n) = u[n]
    BY SummedIs
  <2>2. PICK v : Sums(v, g, n) /\ Summed(g, n) = v[n]
    BY SummedIs
  <2>3. u[0] = 0 /\ v[0] = 0
    BY <1>1, <2>1, <2>2 DEF Sums
  <2> QED BY <1>1, <2>1, <2>2, <2>3
<1>2. CASE n # 0
  <2>1. PICK x \in 1..n : x = 1
    BY <1>2
  <2>2. Summed(f, n) \in Int /\ Summed(g, n) = Summed(f, n) - f[x] + g[x]
    BY SummedChange DEF Differ
  <2>3. f[x] \in Int /\ g[x] = f[x]
    BY <2>1
  <2> QED BY <2>2, <2>3
<1> QED BY <1>1, <1>2

\* A sum of zeros.
LEMMA SummedZero ==
    ASSUME NEW n \in Nat, NEW f, \A k \in 1..n : f[k] = 0
    PROVE  Summed(f, n) = 0
<1>1. PICK u : Sums(u, f, n) /\ Summed(f, n) = u[n]
  BY SummedIs
<1> DEFINE S == {k \in Nat : k <= n => u[k] = 0}
<1>2. 0 \in S
  BY <1>1 DEF Sums
<1>3. ASSUME NEW k \in S PROVE k + 1 \in S
  <2> SUFFICES ASSUME k + 1 <= n PROVE u[k + 1] = 0
    OBVIOUS
  <2>1. k \in Nat /\ k + 1 \in 1..n /\ u[k] = 0 /\ f[k + 1] = 0
    OBVIOUS
  <2>2. u[k + 1] = u[k] + f[k + 1]
    BY <1>1, <2>1, SumsNext
  <2> QED BY <2>1, <2>2
<1>4. S = Nat
  <2>1. S \in SUBSET Nat
    OBVIOUS
  <2> HIDE DEF S
  <2> QED BY <1>2, <1>3, <2>1, AllNumbers, Zenon
<1> QED BY <1>1, <1>4

---------------------------------------------------------------------------
(* The references of the file system.                                      *)

\* A file system, and what the references are counted with.
InodeFields == {"type", "nlink", "data", "nb", "ind"}
Shaped(x) == DOMAIN x = Inum /\ \A j \in Inum : DOMAIN x[j] = InodeFields
IsFs(s) == DOMAIN s = {"ino", "free", "panic", "ref"} /\ s.ref \in [Inum -> Int] /\ Shaped(s.ino)

\* One reference to the inode i, none when i is None.
Hold(i, j) == IF i = j THEN 1 ELSE 0

\* An inode that is in use before and after has the same type.
SameTypes(x, y) == \A j \in Inum : y[j].type = x[j].type
Retypes(s, t) ==
    \A j \in Inum : s.ref[j] > 0 /\ t.ref[j] > 0 /\ s.ino[j].type # "free" => t.ino[j].type = s.ino[j].type

\* From s, a call comes to t with a reference to up, and has given back those to
\* down and other; a kernel that has panicked is not asked for more.
Counts(s, t, up, down, other) ==
    \A j \in Inum : t.ref[j] = s.ref[j] + Hold(up, j) - Hold(down, j) - Hold(other, j)
Moves(s, t, up, down, other) ==
    IsFs(t) /\ (t.panic = "" => s.panic = "" /\ Counts(s, t, up, down, other) /\ Retypes(s, t))

\* The references are the same, and the types.
Same(s, t) == IsFs(t) /\ t.panic = s.panic /\ t.ref = s.ref /\ SameTypes(s.ino, t.ino)

\* None stands for no inode.
LEMMA NoneIsNoInode == None \notin Inum
BY DEF None, Inum

\* A change that keeps every count is a move that takes what it gives back.
LEMMA SameMoves ==
    ASSUME NEW s, NEW t, NEW i, IsFs(s), Same(s, t)
    PROVE  Moves(s, t, i, i, None) /\ Moves(s, t, None, None, None) /\ Moves(s, t, i, None, i)
<1>1. \A j \in Inum : s.ref[j] \in Int /\ t.ref[j] = s.ref[j] /\ Hold(None, j) = 0 /\ Hold(i, j) \in Int
  BY NoneIsNoInode DEF IsFs, Same, Hold
<1>2. IsFs(t) /\ t.panic = s.panic
  BY DEF Same
<1>3. Counts(s, t, i, i, None) /\ Counts(s, t, None, None, None) /\ Counts(s, t, i, None, i)
  BY <1>1 DEF Counts
<1>4. Retypes(s, t)
  BY DEF Same, SameTypes, Retypes
<1> QED BY <1>2, <1>3, <1>4 DEF Moves

\* panic() keeps the counts.
LEMMA PanicMoves ==
    ASSUME NEW s, NEW what, what # "", IsFs(s)
    PROVE  IsFs(Panic(s, what)) /\ Panic(s, what).panic # "" /\ Panic(s, what).ref = s.ref
BY DEF IsFs, Panic

\* The count of i becomes n; nothing changes when i is no inode.
Put(s, i, n) == [s EXCEPT !.ref[i] = n]

\* One count is set.
LEMMA RefMoves ==
    ASSUME NEW s, NEW i, NEW n, i \in Inum => n \in Int, IsFs(s)
    PROVE  /\ IsFs(Put(s, i, n)) /\ Put(s, i, n).panic = s.panic /\ Put(s, i, n).ino = s.ino
           /\ \A j \in Inum : Put(s, i, n).ref[j] = IF i = j THEN n ELSE s.ref[j]
<1>1. PICK R : R = [s.ref EXCEPT ![i] = n]
  OBVIOUS
<1>2. R \in [Inum -> Int] /\ \A j \in Inum : R[j] = IF i = j THEN n ELSE s.ref[j]
  <2>0. s.ref \in [Inum -> Int]
    BY DEF IsFs
  <2>1. CASE i \in Inum
    BY <1>1, <2>0, <2>1
  <2>2. CASE i \notin Inum
    <3>1. R = s.ref
      BY <1>1, <2>0, <2>2
    <3> QED BY <2>0, <2>2, <3>1
  <2> QED BY <2>1, <2>2
<1>3. Put(s, i, n) = [s EXCEPT !.ref = R]
  BY <1>1 DEF Put
<1> QED BY <1>2, <1>3 DEF IsFs

\* iget() takes a reference to i (kernel/fs.c).
LEMMA IgetMoves ==
    ASSUME NEW s, NEW i, IsFs(s)
    PROVE  Moves(s, iget(s, i), i, None, None)
<1>1. CASE s.ref[i] = 0 /\ Cardinality({j \in Inum : s.ref[j] > 0}) = NINODE
  <2>1. iget(s, i) = Panic(s, "iget: no inodes")
    BY <1>1 DEF iget
  <2> QED BY <2>1, PanicMoves DEF Moves
<1>2. CASE ~(s.ref[i] = 0 /\ Cardinality({j \in Inum : s.ref[j] > 0}) = NINODE)
  <2>1. iget(s, i) = Put(s, i, s.ref[i] + 1)
    BY <1>2 DEF iget, Put
  <2>2. \A j \in Inum : Hold(None, j) = 0 /\ Hold(i, j) \in Int /\ s.ref[j] \in Int
    BY NoneIsNoInode DEF IsFs, Hold
  <2>3. /\ IsFs(iget(s, i)) /\ iget(s, i).panic = s.panic /\ iget(s, i).ino = s.ino
        /\ \A j \in Inum : iget(s, i).ref[j] = IF i = j THEN s.ref[i] + 1 ELSE s.ref[j]
    <3>1. i \in Inum => s.ref[i] + 1 \in Int
      BY DEF IsFs
    <3> QED BY <2>1, <3>1, RefMoves
  <2>4. Counts(s, iget(s, i), i, None, None)
    <3> SUFFICES ASSUME NEW j \in Inum
                 PROVE  iget(s, i).ref[j] = s.ref[j] + Hold(i, j) - Hold(None, j) - Hold(None, j)
      BY DEF Counts
    <3>1. iget(s, i).ref[j] = s.ref[j] + Hold(i, j)
      BY <2>2, <2>3 DEF Hold
    <3> QED BY <2>2, <3>1
  <2> QED BY <2>3, <2>4 DEF Moves, Retypes
<1> QED BY <1>1, <1>2

\* ilock() takes no reference, and changes nothing when it does not panic.
LEMMA IlockMoves ==
    ASSUME NEW s, NEW i, IsFs(s)
    PROVE  /\ Moves(s, ilock(s, i), None, None, None)
           /\ ilock(s, i).panic = "" => ilock(s, i) = s
<1>1. CASE s.ino[i].type = "free"
  <2>1. ilock(s, i) = Panic(s, "ilock: no type")
    BY <1>1 DEF ilock
  <2> QED BY <2>1, PanicMoves DEF Moves
<1>2. CASE s.ino[i].type # "free"
  <2>1. ilock(s, i) = s
    BY <1>2 DEF ilock
  <2> QED BY <2>1, SameMoves DEF Same, SameTypes
<1> QED BY <1>1, <1>2

\* iput() of an inode that nothing else holds and no name stands for.
Freed(s, i) == [itrunc(s, i) EXCEPT !.ino[i] = NoInode]
LEMMA FreedIs ==
    ASSUME NEW s, NEW i, NEW t, IsFs(s), t = Freed(s, i)
    PROVE  /\ IsFs(t) /\ t.panic = s.panic /\ t.ref = s.ref
           /\ \A j \in Inum : j # i => t.ino[j] = s.ino[j]
<1>1. PICK u : u = itrunc(s, i)
  OBVIOUS
<1>2. PICK x : x = [s.ino EXCEPT ![i].data = <<>>, ![i].nb = 0, ![i].ind = 0]
  OBVIOUS
<1>3. DOMAIN u = DOMAIN s /\ u.panic = s.panic /\ u.ref = s.ref /\ u.ino = x
  BY <1>1, <1>2 DEF itrunc, IsFs
<1>4. Shaped(x) /\ \A j \in Inum : j # i => x[j] = s.ino[j]
  BY <1>2 DEF IsFs, Shaped, InodeFields
<1>5. PICK y : y = [x EXCEPT ![i] = NoInode]
  OBVIOUS
<1>6. Shaped(y) /\ \A j \in Inum : j # i => y[j] = s.ino[j]
  BY <1>4, <1>5 DEF Shaped, NoInode, InodeFields
<1>7. DOMAIN t = DOMAIN s /\ t.panic = s.panic /\ t.ref = s.ref /\ t.ino = y
  BY <1>1, <1>3, <1>5 DEF IsFs, Freed
<1> QED BY <1>6, <1>7 DEF IsFs

\* iput() gives one back.
LEMMA IputMoves ==
    ASSUME NEW s, NEW i, IsFs(s)
    PROVE  Moves(s, iput(s, i), None, i, None)
<1>1. PICK t : /\ iput(s, i) = Put(t, i, t.ref[i] - 1)
               /\ IsFs(t) /\ t.panic = s.panic /\ t.ref = s.ref
               /\ \A j \in Inum : t.ino[j] = s.ino[j] \/ (j = i /\ s.ref[i] = 1)
  <2>1. CASE s.ref[i] = 1 /\ s.ino[i].nlink = 0
    <3>1. PICK t : t = Freed(s, i)
      OBVIOUS
    <3>2. iput(s, i) = [t EXCEPT !.ref[i] = @ - 1]
      BY <2>1, <3>1 DEF iput, Freed
    <3>3. Put(t, i, t.ref[i] - 1) = [t EXCEPT !.ref[i] = @ - 1]
      BY DEF Put
    <3>4. IsFs(t) /\ t.panic = s.panic /\ t.ref = s.ref /\ \A j \in Inum : j # i => t.ino[j] = s.ino[j]
      BY <3>1, FreedIs
    <3> QED BY <2>1, <3>2, <3>3, <3>4
  <2>2. CASE ~(s.ref[i] = 1 /\ s.ino[i].nlink = 0)
    <3>1. iput(s, i) = [s EXCEPT !.ref[i] = @ - 1]
      BY <2>2 DEF iput
    <3>2. Put(s, i, s.ref[i] - 1) = [s EXCEPT !.ref[i] = @ - 1]
      BY DEF Put
    <3> QED BY <3>1, <3>2
  <2> QED BY <2>1, <2>2
<1>2. \A j \in Inum : Hold(None, j) = 0 /\ Hold(i, j) \in Int /\ s.ref[j] \in Int
  BY NoneIsNoInode DEF IsFs, Hold
<1>4. /\ IsFs(iput(s, i)) /\ iput(s, i).panic = s.panic /\ iput(s, i).ino = t.ino
      /\ \A j \in Inum : iput(s, i).ref[j] = IF i = j THEN s.ref[i] - 1 ELSE s.ref[j]
  <2>1. IsFs(t) /\ t.panic = s.panic /\ t.ref = s.ref /\ (i \in Inum => t.ref[i] - 1 \in Int)
    BY <1>1 DEF IsFs
  <2> QED BY <1>1, <2>1, RefMoves
<1>5. Counts(s, iput(s, i), None, i, None)
  <2> SUFFICES ASSUME NEW j \in Inum
               PROVE  iput(s, i).ref[j] = s.ref[j] + Hold(None, j) - Hold(i, j) - Hold(None, j)
    BY DEF Counts
  <2>1. iput(s, i).ref[j] = s.ref[j] - Hold(i, j)
    BY <1>2, <1>4 DEF Hold
  <2> QED BY <1>2, <2>1
<1>6. Retypes(s, iput(s, i))
  <2> SUFFICES ASSUME NEW j \in Inum, iput(s, i).ref[j] > 0
               PROVE  iput(s, i).ino[j].type = s.ino[j].type
    BY DEF Retypes
  <2>1. CASE j = i /\ s.ref[i] = 1
    <3>1. iput(s, i).ref[j] = 0
      BY <1>4, <2>1
    <3> QED BY <3>1
  <2>2. CASE ~(j = i /\ s.ref[i] = 1)
    BY <1>1, <1>4, <2>2
  <2> QED BY <2>1, <2>2
<1> QED BY <1>4, <1>5, <1>6 DEF Moves

---------------------------------------------------------------------------
(* Contents and names.                                                     *)

\* Nothing changed.
LEMMA SameSelf ==
    ASSUME NEW s, IsFs(s)
    PROVE  Same(s, s)
BY DEF Same, SameTypes

\* What changes the inodes or the free blocks alone.
WithIno(s, x) == [s EXCEPT !.ino = x]
WithFree(s, x) == [s EXCEPT !.free = x]

\* The inodes and the free blocks are not the references.
LEMMA InoSame ==
    ASSUME NEW s, NEW t, NEW x, Same(s, t), Shaped(x), SameTypes(t.ino, x)
    PROVE  Same(s, WithIno(t, x))
BY DEF Same, IsFs, WithIno, SameTypes

LEMMA FreeSame ==
    ASSUME NEW s, NEW t, NEW x, Same(s, t)
    PROVE  Same(s, WithFree(t, x))
BY DEF Same, IsFs, WithFree

\* balloc() keeps the counts.
LEMMA BallocSame ==
    ASSUME NEW s, NEW t, Same(s, t)
    PROVE  Same(s, balloc(t).fs)
<1>1. CASE t.free = 0
  BY <1>1 DEF balloc
<1>2. CASE t.free # 0
  <2>1. PICK x : x = t.free - 1
    OBVIOUS
  <2>2. balloc(t).fs = WithFree(t, x)
    BY <1>2, <2>1 DEF balloc, WithFree
  <2> QED BY <2>2, FreeSame
<1> QED BY <1>1, <1>2

\* bmap() keeps the counts.
LEMMA BmapSame ==
    ASSUME NEW s, NEW t, NEW i, NEW bn, Same(s, t)
    PROVE  Same(s, bmap(t, i, bn).fs)
<1>1. CASE bn < t.ino[i].nb
  BY <1>1 DEF bmap
<1>2. CASE ~(bn < t.ino[i].nb)
  <2>1. PICK need : need = (bn >= NDIRECT /\ t.ino[i].ind = 0)
    OBVIOUS
  <2>2. PICK t1 : t1 = IF need THEN [balloc(t).fs EXCEPT !.ino[i].ind = 1] ELSE t
    OBVIOUS
  <2>3. bmap(t, i, bn) = IF need /\ ~balloc(t).ok THEN balloc(t)
                         ELSE IF balloc(t1).ok THEN [balloc(t1) EXCEPT !.fs.ino[i].nb = @ + 1] ELSE balloc(t1)
    BY <1>2, <2>1, <2>2 DEF bmap
  <2>4. Same(s, balloc(t).fs)
    BY BallocSame
  <2>5. Same(s, t1)
    <3>1. PICK u : u = balloc(t).fs
      OBVIOUS
    <3>2. PICK x : x = [u.ino EXCEPT ![i].ind = 1]
      OBVIOUS
    <3>3. t1 = IF need THEN WithIno(u, x) ELSE t
      BY <2>2, <3>1, <3>2 DEF WithIno
    <3>4. Shaped(x) /\ SameTypes(u.ino, x)
      BY <2>4, <3>1, <3>2 DEF Same, IsFs, Shaped, SameTypes, InodeFields
    <3>5. Same(s, WithIno(u, x))
      BY <2>4, <3>1, <3>4, InoSame
    <3> QED BY <3>3, <3>5
  <2>6. Same(s, balloc(t1).fs)
    BY <2>5, BallocSame
  <2>7. Same(s, [balloc(t1) EXCEPT !.fs.ino[i].nb = @ + 1].fs)
    <3>1. PICK u, ok : balloc(t1) = [fs |-> u, ok |-> ok]
      BY DEF balloc
    <3>2. PICK x : x = [u.ino EXCEPT ![i].nb = @ + 1]
      OBVIOUS
    <3>3. [balloc(t1) EXCEPT !.fs.ino[i].nb = @ + 1].fs = WithIno(u, x)
      BY <3>1, <3>2 DEF WithIno
    <3>4. Shaped(x) /\ SameTypes(u.ino, x)
      <4>1. Same(s, u)
        BY <2>6, <3>1
      <4> QED BY <3>2, <4>1 DEF Same, IsFs, Shaped, SameTypes, InodeFields
    <3>5. Same(s, WithIno(u, x))
      BY <2>6, <3>1, <3>4, InoSame
    <3> QED BY <3>3, <3>5
  <2> QED BY <2>3, <2>4, <2>6, <2>7
<1> QED BY <1>1, <1>2

\* A record of the loop of writei().
Writing(s, w) == Same(s, w.fs) /\ DOMAIN w = {"fs", "n", "end"}

\* One turn of the loop of writei() keeps them.
LEMMA WriteBlockSame ==
    ASSUME NEW s, NEW w, NEW i, NEW off, NEW src, NEW ok, IsFs(s), Writing(s, w)
    PROVE  Writing(s, writeBlock(w, i, off, src, ok))
<1>1. PICK b : b = bmap(w.fs, i, (off + w.n) \div BSIZE)
  OBVIOUS
<1>2. PICK m : m = Lesser(Len(src) - w.n, BSIZE - ((off + w.n) % BSIZE))
  OBVIOUS
<1>3. Same(s, b.fs)
  BY <1>1, BmapSame DEF Writing
<1>4. PICK x : x = [b.fs.ino EXCEPT ![i].data = Overwrite(@, off + w.n, SubSeq(src, w.n + 1, w.n + m))]
  OBVIOUS
<1>5. PICK u : u = WithIno(b.fs, x)
  OBVIOUS
<1>6. Same(s, u)
  <2>1. Shaped(x) /\ SameTypes(b.fs.ino, x)
    BY <1>3, <1>4 DEF Same, IsFs, Shaped, SameTypes, InodeFields
  <2> QED BY <1>3, <1>5, <2>1, InoSame
<1>7. writeBlock(w, i, off, src, ok) =
        IF w.end \/ w.n = Len(src) THEN w
        ELSE IF ~b.ok \/ ~ok THEN [w EXCEPT !.fs = b.fs, !.end = TRUE]
        ELSE [w EXCEPT !.fs = u, !.n = @ + m]
  BY <1>1, <1>2, <1>4, <1>5 DEF writeBlock, WithIno
<1>8. Writing(s, [w EXCEPT !.fs = b.fs, !.end = TRUE]) /\ Writing(s, [w EXCEPT !.fs = u, !.n = @ + m])
  BY <1>3, <1>6 DEF Writing
<1> QED BY <1>7, <1>8

\* The turns of the loop of writei().
LEMMA WriteBlocksTurns ==
    ASSUME NEW s, NEW i, NEW off, NEW src, NEW ok, Len(src) \in Nat
    PROVE  \E g : /\ g[0] = [fs |-> s, n |-> 0, end |-> FALSE]
                  /\ \A k \in Nat : k < Len(src) => g[k + 1] = writeBlock(g[k], i, off, src, ok)
                  /\ writeBlocks(s, i, off, src, ok) = g[Len(src)]
<1> DEFINE w0 == [fs |-> s, n |-> 0, end |-> FALSE]
           Turns(g, m) == g = [k \in 0..m |-> IF k = 0 THEN w0 ELSE writeBlock(g[k - 1], i, off, src, ok)]
           S == {m \in Nat : \E g : Turns(g, m)}
<1>1. 0 \in S
  <2>1. Turns([k \in 0..0 |-> w0], 0)
    OBVIOUS
  <2> HIDE DEF Turns
  <2> QED BY <2>1
<1>2. ASSUME NEW m \in S PROVE m + 1 \in S
  <2>0. m \in Nat /\ m + 1 \in Nat /\ m # m + 1
    OBVIOUS
  <2>1. PICK g : Turns(g, m)
    OBVIOUS
  <2>2. PICK v : v = writeBlock(g[m], i, off, src, ok)
    OBVIOUS
  <2>4. PICK h : h = [k \in 0..(m + 1) |-> IF k = m + 1 THEN v ELSE g[k]]
    OBVIOUS
  <2>5. h[m + 1] = v /\ \A k \in 0..m : h[k] = g[k]
    BY <2>0, <2>4
  <2>6. Turns(h, m + 1)
    <3> SUFFICES ASSUME NEW k \in 0..(m + 1)
                 PROVE  h[k] = IF k = 0 THEN w0 ELSE writeBlock(h[k - 1], i, off, src, ok)
      BY <2>4
    <3>1. CASE k = m + 1
      BY <2>0, <2>2, <2>5, <3>1
    <3>2. CASE k # m + 1
      <4>1. k \in 0..m /\ (k # 0 => k - 1 \in 0..m)
        BY <2>0, <3>2
      <4> HIDE DEF w0
      <4> QED BY <2>1, <2>5, <4>1
    <3> QED BY <3>1, <3>2
  <2> HIDE DEF Turns
  <2> QED BY <2>0, <2>6
<1>3. S = Nat
  <2>1. S \in SUBSET Nat
    OBVIOUS
  <2> HIDE DEF S
  <2> QED BY <1>1, <1>2, <2>1, AllNumbers, Zenon
<1>4. PICK m \in Nat : m = Len(src)
  OBVIOUS
<1>5. \E g : Turns(g, m)
  <2> HIDE DEF Turns
  <2> QED BY <1>3, <1>4
<1> DEFINE v == CHOOSE u : Turns(u, m)
<1>6. Turns(v, m)
  <2> HIDE DEF Turns
  <2> QED BY <1>5
<1>7. writeBlocks(s, i, off, src, ok) = v[m]
  BY <1>4 DEF writeBlocks
<1> HIDE DEF v
<1>8. v[0] = w0
  BY <1>4, <1>6
<1>9. ASSUME NEW k \in Nat, k < m PROVE v[k + 1] = writeBlock(v[k], i, off, src, ok)
  <2>1. k + 1 \in 0..m /\ k + 1 # 0 /\ (k + 1) - 1 = k
    BY <1>4, <1>9
  <2> HIDE DEF w0
  <2> QED BY <1>6, <2>1
<1> QED BY <1>4, <1>7, <1>8, <1>9

\* So does the whole loop, a turn after the other.
LEMMA WriteBlocksSame ==
    ASSUME NEW s, NEW i, NEW off, NEW src, NEW ok, IsFs(s), Len(src) \in Nat
    PROVE  Same(s, writeBlocks(s, i, off, src, ok).fs)
<1>1. PICK g : /\ g[0] = [fs |-> s, n |-> 0, end |-> FALSE]
               /\ \A k \in Nat : k < Len(src) => g[k + 1] = writeBlock(g[k], i, off, src, ok)
               /\ writeBlocks(s, i, off, src, ok) = g[Len(src)]
  BY WriteBlocksTurns
<1> DEFINE S == {k \in Nat : k <= Len(src) => Writing(s, g[k])}
<1>2. 0 \in S
  BY <1>1, SameSelf DEF Writing
<1>3. ASSUME NEW k \in S PROVE k + 1 \in S
  <2> SUFFICES ASSUME k + 1 <= Len(src) PROVE Writing(s, g[k + 1])
    OBVIOUS
  <2>1. k \in Nat /\ k < Len(src) /\ Writing(s, g[k])
    OBVIOUS
  <2>2. g[k + 1] = writeBlock(g[k], i, off, src, ok)
    BY <1>1, <2>1
  <2>3. Writing(s, writeBlock(g[k], i, off, src, ok))
    BY <2>1, WriteBlockSame
  <2> QED BY <2>2, <2>3
<1>4. S = Nat
  <2>1. S \in SUBSET Nat
    OBVIOUS
  <2> HIDE DEF S
  <2> QED BY <1>2, <1>3, <2>1, AllNumbers, Zenon
<1> QED BY <1>1, <1>4 DEF Writing

\* writei() keeps them.
LEMMA WriteiSame ==
    ASSUME NEW s, NEW i, NEW off, NEW src, NEW ok, IsFs(s), Len(src) \in Nat
    PROVE  Same(s, writei(s, i, off, src, ok).fs)
<1>1. PICK x : x = writeBlocks(s, i, off, src, ok)
  OBVIOUS
<1>2. Same(s, x.fs) /\ Same(s, s)
  BY <1>1, WriteBlocksSame, SameSelf
<1>3. writei(s, i, off, src, ok) = x \/ writei(s, i, off, src, ok) = [fs |-> s, n |-> -1]
  BY <1>1 DEF writei
<1> QED BY <1>2, <1>3

---------------------------------------------------------------------------
(* A call under way: what it holds beyond the references there were in B.  *)

Holds(B, s, a, b, c) ==
    IsFs(s) /\ (s.panic = "" =>
        /\ B.panic = "" /\ Retypes(B, s)
        /\ \A j \in Inum : s.ref[j] = B.ref[j] + Hold(a, j) + Hold(b, j) + Hold(c, j))

\* The weight of one reference.
LEMMA HoldIs ==
    /\ \A i, j : Hold(i, j) \in Int
    /\ \A j \in Inum : Hold(None, j) = 0
BY NoneIsNoInode DEF Hold

\* A call that has just begun holds nothing.
LEMMA HoldsNothing ==
    ASSUME NEW B, IsFs(B)
    PROVE  Holds(B, B, None, None, None)
<1>1. \A j \in Inum : B.ref[j] \in Int
  BY DEF IsFs
<1>2. \A j \in Inum : B.ref[j] = B.ref[j] + Hold(None, j) + Hold(None, j) + Hold(None, j)
  BY <1>1, HoldIs
<1> QED BY <1>2 DEF Holds, Retypes

\* A step that keeps the counts keeps what is held.
LEMMA HoldsSame ==
    ASSUME NEW B, NEW s, NEW t, NEW a, NEW b, NEW c, Holds(B, s, a, b, c), Same(s, t)
    PROVE  Holds(B, t, a, b, c)
BY DEF Holds, Same, SameTypes, Retypes

\* The order in which they are held says nothing.
LEMMA HoldsSwap ==
    ASSUME NEW B, NEW s, NEW a, NEW b, NEW c, IsFs(B), Holds(B, s, a, b, c)
    PROVE  Holds(B, s, b, a, c) /\ Holds(B, s, a, c, b) /\ Holds(B, s, c, b, a)
<1>1. \A j \in Inum : B.ref[j] \in Int
  BY DEF IsFs
<1>2. ASSUME NEW j \in Inum
      PROVE  /\ B.ref[j] + Hold(a, j) + Hold(b, j) + Hold(c, j) = B.ref[j] + Hold(b, j) + Hold(a, j) + Hold(c, j)
             /\ B.ref[j] + Hold(a, j) + Hold(b, j) + Hold(c, j) = B.ref[j] + Hold(a, j) + Hold(c, j) + Hold(b, j)
             /\ B.ref[j] + Hold(a, j) + Hold(b, j) + Hold(c, j) = B.ref[j] + Hold(c, j) + Hold(b, j) + Hold(a, j)
  BY <1>1, HoldIs
<1> QED BY <1>2 DEF Holds

\* A step of the call.
LEMMA HoldsMoves ==
    ASSUME NEW B, NEW s, NEW t, NEW a, NEW b, NEW c, NEW up, NEW down, IsFs(B), Holds(B, s, a, b, down),
           Moves(s, t, up, down, None)
    PROVE  Holds(B, t, a, b, up)
<1>1. IsFs(t) /\ \A j \in Inum : B.ref[j] \in Int
  BY DEF IsFs, Moves
<1>2. ASSUME t.panic = ""
      PROVE  B.panic = "" /\ Retypes(B, t) /\ \A j \in Inum : t.ref[j] = B.ref[j] + Hold(a, j) + Hold(b, j) + Hold(up, j)
  <2>1. s.panic = "" /\ B.panic = ""
    BY <1>2 DEF Moves, Holds
  <2>2. ASSUME NEW j \in Inum PROVE t.ref[j] = B.ref[j] + Hold(a, j) + Hold(b, j) + Hold(up, j)
    <3>1. t.ref[j] = s.ref[j] + Hold(up, j) - Hold(down, j) - Hold(None, j)
      BY <1>2 DEF Moves, Counts
    <3>2. s.ref[j] = B.ref[j] + Hold(a, j) + Hold(b, j) + Hold(down, j)
      BY <2>1 DEF Holds
    <3> QED BY <1>1, <3>1, <3>2, HoldIs
  <2>3. ASSUME NEW j \in Inum, B.ref[j] > 0, t.ref[j] > 0, B.ino[j].type # "free" PROVE t.ino[j].type = B.ino[j].type
    <3>1. s.ref[j] = B.ref[j] + Hold(a, j) + Hold(b, j) + Hold(down, j) /\ Retypes(B, s) /\ Retypes(s, t)
      BY <1>2, <2>1 DEF Holds, Moves
    <3>2. s.ref[j] > 0
      BY <1>1, <2>3, <3>1 DEF Hold
    <3> QED BY <2>3, <3>1, <3>2 DEF Retypes
  <2> QED BY <2>1, <2>2, <2>3 DEF Retypes
<1> QED BY <1>1, <1>2 DEF Holds

\* iget() adds a third reference to two.
LEMMA IgetHolds ==
    ASSUME NEW B, NEW s, NEW a, NEW b, NEW i, IsFs(B), Holds(B, s, a, b, None)
    PROVE  Holds(B, iget(s, i), a, b, i)
<1>1. Moves(s, iget(s, i), i, None, None)
  BY IgetMoves DEF Holds
<1> QED BY <1>1, HoldsMoves

\* iput() gives the third back.
LEMMA IputHolds ==
    ASSUME NEW B, NEW s, NEW a, NEW b, NEW i, IsFs(B), Holds(B, s, a, b, i)
    PROVE  Holds(B, iput(s, i), a, b, None)
<1>1. Moves(s, iput(s, i), None, i, None)
  BY IputMoves DEF Holds
<1> QED BY <1>1, HoldsMoves

\* ilock() holds what was held.
LEMMA IlockHolds ==
    ASSUME NEW B, NEW s, NEW a, NEW b, NEW c, NEW i, Holds(B, s, a, b, c)
    PROVE  Holds(B, ilock(s, i), a, b, c)
<1>1. IsFs(ilock(s, i)) /\ (ilock(s, i).panic = "" => ilock(s, i) = s)
  BY IlockMoves DEF Holds, Moves
<1> QED BY <1>1 DEF Holds

\* ialloc() holds the inode that it returns.
LEMMA IallocHolds ==
    ASSUME NEW B, NEW s, NEW a, NEW type, IsFs(B), Holds(B, s, a, None, None)
    PROVE  Holds(B, ialloc(s, type).fs, a, ialloc(s, type).ip, None)
<1> DEFINE unused == {i \in Inum : s.ino[i].type = "free"}
<1>1. CASE unused = {}
  BY <1>1 DEF ialloc
<1>2. CASE unused # {}
  <2>1. PICK i : i = CHOOSE k \in unused : \A j \in unused : k <= j
    OBVIOUS
  <2>2. PICK x : x = [s.ino EXCEPT ![i].type = type]
    OBVIOUS
  <2>3. ialloc(s, type) = [fs |-> iget(WithIno(s, x), i), ip |-> i]
    BY <1>2, <2>1, <2>2 DEF ialloc, WithIno
  <2>4. Holds(B, WithIno(s, x), a, None, None)
    <3>1. IsFs(s)
      BY DEF Holds
    <3>2. i \in Inum => s.ino[i].type = "free"
      <4>1. unused \in SUBSET Nat
        BY DEF Inum
      <4>2. \E k \in unused : \A j \in unused : k <= j
        <5> HIDE DEF unused
        <5> QED BY <1>2, <4>1, LeastNumber, Zenon
      <4> QED BY <2>1, <4>2
    <3>3. PICK u : u = WithIno(s, x)
      OBVIOUS
    <3>4. u.ino = x /\ u.ref = s.ref /\ u.panic = s.panic /\ DOMAIN u = DOMAIN s
      BY <3>1, <3>3 DEF WithIno, IsFs
    <3>5. Shaped(x) /\ \A j \in Inum : j # i => x[j] = s.ino[j]
      BY <2>2, <3>1 DEF IsFs, Shaped, InodeFields
    <3>6. IsFs(u) /\ Retypes(s, u)
      BY <3>1, <3>2, <3>4, <3>5 DEF IsFs, Retypes
    <3>7. Counts(s, u, None, None, None)
      <4>1. \A j \in Inum : s.ref[j] \in Int /\ Hold(None, j) = 0
        BY <3>1, HoldIs DEF IsFs
      <4> QED BY <3>4, <4>1 DEF Counts
    <3>8. Moves(s, u, None, None, None)
      BY <3>4, <3>6, <3>7 DEF Moves
    <3> QED BY <3>3, <3>8, HoldsMoves
  <2>5. Holds(B, iget(WithIno(s, x), i), a, None, i)
    BY <2>4, IgetHolds
  <2> QED BY <2>3, <2>5, HoldsSwap
<1> QED BY <1>1, <1>2

\* dirlookup() holds the inode that it finds, and None when it finds nothing.
LEMMA DirlookupHolds ==
    ASSUME NEW B, NEW s, NEW a, NEW b, NEW dp, NEW name, IsFs(B), Holds(B, s, a, b, None)
    PROVE  Holds(B, dirlookup(s, dp, name).fs, a, b, dirlookup(s, dp, name).ip)
<1>1. PICK sl : sl = dirSlot(s, dp, name)
  OBVIOUS
<1>2. PICK inum : inum = s.ino[dp].data[sl].inum
  OBVIOUS
<1>3. dirlookup(s, dp, name) = IF sl = None THEN [fs |-> s, ip |-> None] ELSE [fs |-> iget(s, inum), ip |-> inum]
  BY <1>1, <1>2 DEF dirlookup
<1>4. Holds(B, iget(s, inum), a, b, inum)
  BY IgetHolds
<1> QED BY <1>3, <1>4

\* dirlink() gives back the inode that it found under the name.
LEMMA DirlinkHolds ==
    ASSUME NEW B, NEW s, NEW a, NEW b, NEW dp, NEW name, NEW inum, IsFs(B), Holds(B, s, a, b, None)
    PROVE  Holds(B, dirlink(s, dp, name, inum).fs, a, b, None)
<1>1. CASE dirSlot(s, dp, name) # None
  <2>1. PICK d : d = dirlookup(s, dp, name)
    OBVIOUS
  <2>2. Holds(B, d.fs, a, b, d.ip)
    BY <2>1, DirlookupHolds
  <2>3. dirlink(s, dp, name, inum).fs = iput(d.fs, d.ip)
    BY <1>1, <2>1 DEF dirlink, Exists
  <2> QED BY <2>2, <2>3, IputHolds
<1>2. CASE dirSlot(s, dp, name) = None
  <2>1. PICK src : src = <<Entry(name, inum)>>
    OBVIOUS
  <2>2. Len(src) \in Nat
    BY <2>1
  <2>3. PICK off : off = firstFree(s.ino[dp].data)
    OBVIOUS
  <2>4. dirlink(s, dp, name, inum).fs = writei(s, dp, off, src, TRUE).fs
    BY <1>2, <2>1, <2>3 DEF dirlink, Written
  <2>5. IsFs(s)
    BY DEF Holds
  <2>6. Same(s, dirlink(s, dp, name, inum).fs)
    BY <2>2, <2>4, <2>5, WriteiSame
  <2> QED BY <2>6, HoldsSame
<1> QED BY <1>1, <1>2

\* One element of a path: the directory is given back, its entry is held.
LEMMA WalkElemHolds ==
    ASSUME NEW B, NEW w, NEW a, NEW elem, NEW stop, IsFs(B), Holds(B, w.fs, a, w.ip, None)
    PROVE  Holds(B, walkElem(w, elem, stop).fs, a, walkElem(w, elem, stop).ip, None)
<1>1. PICK t : t = ilock(w.fs, w.ip)
  OBVIOUS
<1>2. PICK d : d = dirlookup(t, w.ip, skipelem(elem))
  OBVIOUS
<1>3. Holds(B, t, a, w.ip, None)
  BY <1>1, IlockHolds
<1>4. Holds(B, d.fs, a, w.ip, d.ip)
  BY <1>2, <1>3, DirlookupHolds
<1>5. t.panic # "" => Holds(B, t, a, None, None)
  BY <1>3 DEF Holds
<1>6. Holds(B, iput(t, w.ip), a, None, None)
  BY <1>3, HoldsSwap, IputHolds
<1>7. Holds(B, iput(d.fs, w.ip), a, d.ip, None)
  BY <1>4, HoldsSwap, IputHolds
<1>8. walkElem(w, elem, stop) =
        IF w.ip = None THEN w
        ELSE IF t.panic # "" THEN [fs |-> t, ip |-> None]
        ELSE IF t.ino[w.ip].type # "dir" THEN [fs |-> iput(t, w.ip), ip |-> None]
        ELSE IF stop THEN [fs |-> t, ip |-> w.ip]
        ELSE IF d.ip = None THEN [fs |-> iput(t, w.ip), ip |-> None]
        ELSE [fs |-> iput(d.fs, w.ip), ip |-> d.ip]
  BY <1>1, <1>2 DEF walkElem
<1>9. PICK v : v = walkElem(w, elem, stop)
  OBVIOUS
<1>10. \/ v = w
       \/ t.panic # "" /\ v = [fs |-> t, ip |-> None]
       \/ v = [fs |-> iput(t, w.ip), ip |-> None]
       \/ v = [fs |-> t, ip |-> w.ip]
       \/ v = [fs |-> iput(d.fs, w.ip), ip |-> d.ip]
  BY <1>8, <1>9, Zenon
<1>11. Holds(B, v.fs, a, v.ip, None)
  <2>1. CASE v = w
    BY <2>1
  <2>2. CASE t.panic # "" /\ v = [fs |-> t, ip |-> None]
    BY <1>5, <2>2
  <2>3. CASE v = [fs |-> iput(t, w.ip), ip |-> None]
    BY <1>6, <2>3
  <2>4. CASE v = [fs |-> t, ip |-> w.ip]
    BY <1>3, <2>4
  <2>5. CASE v = [fs |-> iput(d.fs, w.ip), ip |-> d.ip]
    BY <1>7, <2>5
  <2> QED BY <1>10, <2>1, <2>2, <2>3, <2>4, <2>5
<1> QED BY <1>9, <1>11

\* The elements of a path, one after the other.
LEMMA WalkPathTurns ==
    ASSUME NEW s, NEW ip, NEW elems, NEW parent, Len(elems) \in Nat
    PROVE  \E g : /\ g[0] = [fs |-> s, ip |-> ip]
                  /\ \A k \in Nat : k < Len(elems) =>
                       g[k + 1] = walkElem(g[k], elems[k + 1], parent /\ k + 1 = Len(elems))
                  /\ walkPath(s, ip, elems, parent) = g[Len(elems)]
<1> DEFINE w0 == [fs |-> s, ip |-> ip]
           Stop(k) == parent /\ k = Len(elems)
           Turns(g, m) == g = [k \in 0..m |-> IF k = 0 THEN w0 ELSE walkElem(g[k - 1], elems[k], Stop(k))]
           S == {m \in Nat : \E g : Turns(g, m)}
<1>1. 0 \in S
  <2>1. Turns([k \in 0..0 |-> w0], 0)
    OBVIOUS
  <2> HIDE DEF Turns
  <2> QED BY <2>1
<1>2. ASSUME NEW m \in S PROVE m + 1 \in S
  <2>0. m \in Nat /\ m + 1 \in Nat /\ m # m + 1
    OBVIOUS
  <2>1. PICK g : Turns(g, m)
    OBVIOUS
  <2>2. PICK v : v = walkElem(g[m], elems[m + 1], Stop(m + 1))
    OBVIOUS
  <2>4. PICK h : h = [k \in 0..(m + 1) |-> IF k = m + 1 THEN v ELSE g[k]]
    OBVIOUS
  <2>5. h[m + 1] = v /\ \A k \in 0..m : h[k] = g[k]
    BY <2>0, <2>4
  <2>6. Turns(h, m + 1)
    <3> SUFFICES ASSUME NEW k \in 0..(m + 1)
                 PROVE  h[k] = IF k = 0 THEN w0 ELSE walkElem(h[k - 1], elems[k], Stop(k))
      BY <2>4
    <3> HIDE DEF w0, Stop
    <3>1. CASE k = m + 1
      BY <2>0, <2>2, <2>5, <3>1
    <3>2. CASE k # m + 1
      <4>1. k \in 0..m /\ (k # 0 => k - 1 \in 0..m)
        BY <2>0, <3>2
      <4> QED BY <2>1, <2>5, <4>1
    <3> QED BY <3>1, <3>2
  <2> HIDE DEF Turns
  <2> QED BY <2>0, <2>6
<1>3. S = Nat
  <2>1. S \in SUBSET Nat
    OBVIOUS
  <2> HIDE DEF S
  <2> QED BY <1>1, <1>2, <2>1, AllNumbers, Zenon
<1>4. PICK m \in Nat : m = Len(elems)
  OBVIOUS
<1>5. \E g : Turns(g, m)
  <2> HIDE DEF Turns
  <2> QED BY <1>3, <1>4
<1> DEFINE v == CHOOSE u : Turns(u, m)
<1>6. Turns(v, m)
  <2> HIDE DEF Turns
  <2> QED BY <1>5
<1>7. walkPath(s, ip, elems, parent) = v[m]
  BY <1>4 DEF walkPath
<1> HIDE DEF v
<1>8. v[0] = w0
  BY <1>4, <1>6
<1>9. ASSUME NEW k \in Nat, k < m PROVE v[k + 1] = walkElem(v[k], elems[k + 1], Stop(k + 1))
  <2>1. k + 1 \in 0..m /\ k + 1 # 0 /\ (k + 1) - 1 = k
    BY <1>4, <1>9
  <2> HIDE DEF w0, Stop
  <2> QED BY <1>6, <2>1
<1> QED BY <1>4, <1>7, <1>8, <1>9

\* A whole path: after every number of elements one inode is held, or None.
LEMMA WalkPathHolds ==
    ASSUME NEW B, NEW s, NEW a, NEW ip, NEW elems, NEW parent, IsFs(B), Holds(B, s, a, ip, None),
           Len(elems) \in Nat
    PROVE  Holds(B, walkPath(s, ip, elems, parent).fs, a, walkPath(s, ip, elems, parent).ip, None)
<1> DEFINE Stop(k) == parent /\ k = Len(elems)
           Fine(w) == Holds(B, w.fs, a, w.ip, None)
<1>1. PICK g : /\ g[0] = [fs |-> s, ip |-> ip]
               /\ \A k \in Nat : k < Len(elems) => g[k + 1] = walkElem(g[k], elems[k + 1], Stop(k + 1))
               /\ walkPath(s, ip, elems, parent) = g[Len(elems)]
  BY WalkPathTurns
<1> DEFINE S == {k \in Nat : k <= Len(elems) => Fine(g[k])}
<1>2. 0 \in S
  BY <1>1
<1>3. ASSUME NEW k \in S PROVE k + 1 \in S
  <2> SUFFICES ASSUME k + 1 <= Len(elems) PROVE Fine(g[k + 1])
    OBVIOUS
  <2>1. k \in Nat /\ k < Len(elems) /\ Fine(g[k])
    OBVIOUS
  <2>2. PICK stop : stop = Stop(k + 1)
    OBVIOUS
  <2>3. g[k + 1] = walkElem(g[k], elems[k + 1], stop)
    BY <1>1, <2>1, <2>2
  <2>4. Fine(walkElem(g[k], elems[k + 1], stop))
    BY <2>1, WalkElemHolds
  <2> HIDE DEF Fine
  <2> QED BY <2>3, <2>4
<1>4. S = Nat
  <2>1. S \in SUBSET Nat
    OBVIOUS
  <2> HIDE DEF S
  <2> QED BY <1>2, <1>3, <2>1, AllNumbers, Zenon
<1> QED BY <1>1, <1>4

\* A path that a program can give to a system call.
LEMMA NamexHolds ==
    ASSUME NEW B, NEW s, NEW a, NEW cwd, NEW path, NEW parent, IsFs(B), Holds(B, s, a, None, None), IsPath(path)
    PROVE  Holds(B, namex(s, cwd, path, parent).fs, a, namex(s, cwd, path, parent).ip, None)
<1>1. PICK start : start = IF path.abs THEN ROOTINO ELSE cwd
  OBVIOUS
<1>2. PICK t : t = iget(s, start)
  OBVIOUS
<1>3. Holds(B, t, a, None, start) /\ Holds(B, t, a, start, None)
  BY <1>2, IgetHolds, HoldsSwap
<1>4. Holds(B, iput(t, start), a, None, None)
  BY <1>3, IputHolds
<1>5. CASE parent /\ path.elems = <<>>
  <2>1. namex(s, cwd, path, parent) = [fs |-> iput(t, start), ip |-> None]
    BY <1>1, <1>2, <1>5 DEF namex
  <2> QED BY <1>4, <2>1
<1>6. CASE ~(parent /\ path.elems = <<>>)
  <2>1. namex(s, cwd, path, parent) = walkPath(t, start, path.elems, parent)
    BY <1>1, <1>2, <1>6 DEF namex
  <2> QED BY <1>3, <2>1, WalkPathHolds DEF IsPath
<1> QED BY <1>5, <1>6

---------------------------------------------------------------------------
(* The system calls on names.                                              *)

\* create() fails: both inodes are given back.
LEMMA CreateFailHolds ==
    ASSUME NEW B, NEW s, NEW ip, NEW dp, IsFs(B), Holds(B, s, dp, ip, None)
    PROVE  Holds(B, createFail(s, ip, dp).fs, None, createFail(s, ip, dp).ip, None)
<1>1. PICK x : x = [s.ino EXCEPT ![ip].nlink = 0]
  OBVIOUS
<1>2. createFail(s, ip, dp) = [fs |-> iput(iput(WithIno(s, x), ip), dp), ip |-> None]
  BY <1>1 DEF createFail, WithIno
<1>3. IsFs(s)
  BY DEF Holds
<1>4. Holds(B, WithIno(s, x), dp, ip, None)
  <2>1. Shaped(x) /\ SameTypes(s.ino, x)
    BY <1>1, <1>3 DEF IsFs, Shaped, SameTypes, InodeFields
  <2> QED BY <1>3, <2>1, InoSame, SameSelf, HoldsSame
<1>5. Holds(B, iput(WithIno(s, x), ip), dp, None, None)
  BY <1>4, HoldsSwap, IputHolds
<1>6. Holds(B, iput(iput(WithIno(s, x), ip), dp), None, None, None)
  BY <1>5, HoldsSwap, IputHolds
<1> QED BY <1>2, <1>6

\* create() succeeds: the directory is given back, the inode is returned.
LEMMA CreateDoneHolds ==
    ASSUME NEW B, NEW link, NEW ip, NEW dp, NEW type, IsFs(B), Holds(B, link.fs, dp, ip, None)
    PROVE  Holds(B, createDone(link, ip, dp, type).fs, None, createDone(link, ip, dp, type).ip, None)
<1>1. PICK s : s = link.fs
  OBVIOUS
<1>2. PICK x : x = [s.ino EXCEPT ![dp].nlink = IF type = "dir" THEN @ + 1 ELSE @]
  OBVIOUS
<1>3. createDone(link, ip, dp, type) = IF ~link.ok THEN createFail(s, ip, dp)
                                       ELSE [fs |-> iput(WithIno(s, x), dp), ip |-> ip]
  BY <1>1, <1>2 DEF createDone, WithIno
<1>4. IsFs(s)
  BY <1>1 DEF Holds
<1>5. Holds(B, WithIno(s, x), dp, ip, None)
  <2>1. Shaped(x) /\ SameTypes(s.ino, x)
    BY <1>2, <1>4 DEF IsFs, Shaped, SameTypes, InodeFields
  <2> QED BY <1>1, <1>4, <2>1, InoSame, SameSelf, HoldsSame
<1>6. Holds(B, iput(WithIno(s, x), dp), None, ip, None)
  BY <1>5, HoldsSwap, IputHolds
<1>7. Holds(B, createFail(s, ip, dp).fs, None, createFail(s, ip, dp).ip, None)
  BY <1>1, CreateFailHolds
<1> QED BY <1>3, <1>6, <1>7

\* The name in the parent directory.
LEMMA CreateLinkHolds ==
    ASSUME NEW B, NEW dots, NEW ip, NEW dp, NEW name, NEW type, IsFs(B), Holds(B, dots.fs, dp, ip, None)
    PROVE  Holds(B, createLink(dots, ip, dp, name, type).fs, None, createLink(dots, ip, dp, name, type).ip, None)
<1>1. PICK l : l = dirlink(dots.fs, dp, name, ip)
  OBVIOUS
<1>2. Holds(B, l.fs, dp, ip, None)
  BY <1>1, DirlinkHolds
<1>3. createLink(dots, ip, dp, name, type) = IF ~dots.ok THEN createFail(dots.fs, ip, dp) ELSE createDone(l, ip, dp, type)
  BY <1>1 DEF createLink
<1>4. Holds(B, createFail(dots.fs, ip, dp).fs, None, createFail(dots.fs, ip, dp).ip, None)
  BY CreateFailHolds
<1>5. Holds(B, createDone(l, ip, dp, type).fs, None, createDone(l, ip, dp, type).ip, None)
  BY <1>2, CreateDoneHolds
<1> QED BY <1>3, <1>4, <1>5

\* The names . and .. of a new directory.
LEMMA CreateDotsHolds ==
    ASSUME NEW B, NEW s, NEW ip, NEW dp, NEW type, IsFs(B), Holds(B, s, dp, ip, None)
    PROVE  Holds(B, createDots(s, ip, dp, type).fs, dp, ip, None)
<1>1. PICK d : d = dirlink(s, ip, ".", ip)
  OBVIOUS
<1>2. PICK e : e = dirlink(d.fs, ip, "..", dp)
  OBVIOUS
<1>3. Holds(B, d.fs, dp, ip, None)
  BY <1>1, DirlinkHolds
<1>4. Holds(B, e.fs, dp, ip, None)
  BY <1>2, <1>3, DirlinkHolds
<1>5. createDots(s, ip, dp, type) = IF type = "dir" THEN (IF ~d.ok THEN d ELSE e) ELSE [fs |-> s, ok |-> TRUE]
  BY <1>1, <1>2 DEF createDots, dotdot
<1> QED BY <1>3, <1>4, <1>5

\* A new inode.
LEMMA CreateNewHolds ==
    ASSUME NEW B, NEW new, NEW dp, NEW name, NEW type, IsFs(B), Holds(B, new.fs, dp, new.ip, None)
    PROVE  Holds(B, createNew(new, dp, name, type).fs, None, createNew(new, dp, name, type).ip, None)
<1>1. CASE new.ip = None
  <2>1. createNew(new, dp, name, type) = [fs |-> iput(new.fs, dp), ip |-> None]
    BY <1>1 DEF createNew
  <2>2. Holds(B, iput(new.fs, dp), None, None, None)
    BY <1>1, HoldsSwap, IputHolds
  <2> QED BY <2>1, <2>2
<1>2. CASE new.ip # None
  <2>1. PICK ip : ip = new.ip
    OBVIOUS
  <2>2. PICK s : s = new.fs
    OBVIOUS
  <2>3. PICK x : x = [s.ino EXCEPT ![ip].nlink = 1]
    OBVIOUS
  <2>4. PICK d : d = createDots(WithIno(s, x), ip, dp, type)
    OBVIOUS
  <2>5. createNew(new, dp, name, type) = createLink(d, ip, dp, name, type)
    BY <1>2, <2>1, <2>2, <2>3, <2>4 DEF createNew, WithIno
  <2>6. IsFs(s)
    BY <2>2 DEF Holds
  <2>7. Holds(B, WithIno(s, x), dp, ip, None)
    <3>1. Shaped(x) /\ SameTypes(s.ino, x)
      BY <2>3, <2>6 DEF IsFs, Shaped, SameTypes, InodeFields
    <3> QED BY <2>1, <2>2, <2>6, <3>1, InoSame, SameSelf, HoldsSame
  <2>8. Holds(B, d.fs, dp, ip, None)
    BY <2>4, <2>7, CreateDotsHolds
  <2> QED BY <2>5, <2>8, CreateLinkHolds
<1> QED BY <1>1, <1>2

\* The name was there: the inode found is returned, or given back.
LEMMA CreateOldHolds ==
    ASSUME NEW B, NEW s, NEW ip, NEW type, IsFs(B), Holds(B, s, None, ip, None)
    PROVE  Holds(B, createOld(s, ip, type).fs, None, createOld(s, ip, type).ip, None)
<1>1. Holds(B, iput(s, ip), None, None, None)
  BY HoldsSwap, IputHolds
<1>2. CASE type = "file" /\ s.ino[ip].type \in {"file", "dev"}
  <2>1. createOld(s, ip, type) = [fs |-> s, ip |-> ip]
    <3>1. createOld(s, ip, type) = IF type = "file" /\ s.ino[ip].type \in {"file", "dev"}
                                   THEN [fs |-> s, ip |-> ip] ELSE [fs |-> iput(s, ip), ip |-> None]
      BY Zenon DEF createOld
    <3> QED BY <1>2, <3>1, Zenon
  <2> QED BY <2>1
<1>3. CASE ~(type = "file" /\ s.ino[ip].type \in {"file", "dev"})
  <2>1. createOld(s, ip, type) = [fs |-> iput(s, ip), ip |-> None]
    BY <1>3 DEF createOld
  <2> QED BY <1>1, <2>1
<1> QED BY <1>2, <1>3

\* create() past the parent directory.
LEMMA CreateNameHolds ==
    ASSUME NEW B, NEW old, NEW dp, NEW name, NEW type, IsFs(B), Holds(B, old.fs, dp, old.ip, None)
    PROVE  Holds(B, createName(old, dp, name, type).fs, None, createName(old, dp, name, type).ip, None)
<1>1. CASE old.ip = None
  <2>1. PICK new : new = ialloc(old.fs, type)
    OBVIOUS
  <2>2. Holds(B, new.fs, dp, new.ip, None)
    BY <1>1, <2>1, IallocHolds
  <2>3. createName(old, dp, name, type) = createNew(new, dp, name, type)
    BY <1>1, <2>1 DEF createName
  <2> QED BY <2>2, <2>3, CreateNewHolds
<1>2. CASE old.ip # None
  <2>1. PICK t : t = ilock(iput(old.fs, dp), old.ip)
    OBVIOUS
  <2>2. Holds(B, iput(old.fs, dp), None, old.ip, None)
    BY HoldsSwap, IputHolds
  <2>3. Holds(B, t, None, old.ip, None)
    BY <2>1, <2>2, IlockHolds
  <2>4. createName(old, dp, name, type) = createOld(t, old.ip, type)
    BY <1>2, <2>1 DEF createName
  <2>5. PICK r : r = createOld(t, old.ip, type)
    OBVIOUS
  <2>6. Holds(B, r.fs, None, r.ip, None)
    BY <2>3, <2>5, CreateOldHolds, Zenon
  <2> QED BY <2>4, <2>5, <2>6
<1> QED BY <1>1, <1>2

\* Any call of a program begins with nothing in hand.
LEMMA CreateHolds ==
    ASSUME NEW s, NEW cwd, NEW path, NEW type, IsFs(s), IsPath(path)
    PROVE  Holds(s, create(s, cwd, path, type).fs, None, create(s, cwd, path, type).ip, None)
<1>1. PICK dir : dir = nameiparent(s, cwd, path)
  OBVIOUS
<1>2. Holds(s, dir.fs, None, dir.ip, None)
  BY <1>1, HoldsNothing, NamexHolds DEF nameiparent
<1>3. PICK name : name = BaseName(path)
  OBVIOUS
<1>4. create(s, cwd, path, type) = createIn(dir, name, type)
  BY <1>1, <1>3 DEF create
<1>5. CASE dir.ip = None
  BY <1>2, <1>4, <1>5 DEF createIn
<1>6. CASE dir.ip # None
  <2>1. PICK old : old = dirlookup(ilock(dir.fs, dir.ip), dir.ip, name)
    OBVIOUS
  <2>2. Holds(s, ilock(dir.fs, dir.ip), dir.ip, None, None)
    BY <1>2, HoldsSwap, IlockHolds
  <2>3. Holds(s, old.fs, dir.ip, None, old.ip)
    BY <2>1, <2>2, DirlookupHolds
  <2>4. Holds(s, old.fs, dir.ip, old.ip, None)
    BY <2>3, HoldsSwap
  <2>5. create(s, cwd, path, type) = createName(old, dir.ip, name, type)
    BY <1>4, <1>6, <2>1 DEF createIn
  <2> QED BY <2>4, <2>5, CreateNameHolds
<1> QED BY <1>5, <1>6

\* namei() holds the inode that it returns.
LEMMA NameiHolds ==
    ASSUME NEW s, NEW cwd, NEW path, IsFs(s), IsPath(path)
    PROVE  Holds(s, namei(s, cwd, path).fs, None, namei(s, cwd, path).ip, None)
BY HoldsNothing, NamexHolds DEF namei

\* A call that leaves the references as it found them.
Neutral(s, t) == Holds(s, t, None, None, None)

\* mkdir() and mknod() give back what create() returns.
LEMMA MadeNeutral ==
    ASSUME NEW s, NEW cwd, NEW path, NEW type, IsFs(s), IsPath(path)
    PROVE  Neutral(s, Made(create(s, cwd, path, type)).fs)
<1>1. PICK c : c = create(s, cwd, path, type)
  OBVIOUS
<1>2. Holds(s, c.fs, None, c.ip, None)
  BY <1>1, CreateHolds
<1>3. Holds(s, iput(c.fs, c.ip), None, None, None)
  BY <1>2, HoldsSwap, IputHolds
<1>4. c.ip = None => Holds(s, c.fs, None, None, None)
  BY <1>2
<1>5. Made(c).fs = IF c.ip = None THEN c.fs ELSE iput(c.fs, c.ip)
  BY DEF Made, Ret
<1> QED BY <1>1, <1>3, <1>4, <1>5 DEF Neutral

\* sys_mkdir() and sys_mknod().
LEMMA MkdirNeutral ==
    ASSUME NEW s, NEW cwd, NEW path, IsFs(s), IsPath(path)
    PROVE  Neutral(s, sys_mkdir(s, cwd, path).fs) /\ Neutral(s, sys_mknod(s, cwd, path).fs)
<1>1. Neutral(s, s)
  BY HoldsNothing DEF Neutral
<1>2. \A type : Neutral(s, Made(create(s, cwd, path, type)).fs)
  BY MadeNeutral
<1>3. sys_mkdir(s, cwd, path).fs = IF path.ok THEN Made(create(s, cwd, path, "dir")).fs ELSE s
  BY DEF sys_mkdir, Ret
<1>4. sys_mknod(s, cwd, path).fs = IF path.ok THEN Made(create(s, cwd, path, "dev")).fs ELSE s
  BY DEF sys_mknod, Ret
<1> QED BY <1>1, <1>2, <1>3, <1>4

\* The bad: path of sys_link() gives the inode back.
LEMMA LinkBadHolds ==
    ASSUME NEW B, NEW s, NEW ip, IsFs(B), Holds(B, s, ip, None, None)
    PROVE  Neutral(B, linkBad(s, ip).fs)
<1>1. PICK x : x = [s.ino EXCEPT ![ip].nlink = @ - 1]
  OBVIOUS
<1>2. linkBad(s, ip).fs = iput(WithIno(s, x), ip)
  BY <1>1 DEF linkBad, Ret, WithIno
<1>3. IsFs(s)
  BY DEF Holds
<1>4. Holds(B, WithIno(s, x), ip, None, None)
  <2>1. Shaped(x) /\ SameTypes(s.ino, x)
    BY <1>1, <1>3 DEF IsFs, Shaped, SameTypes, InodeFields
  <2> QED BY <1>3, <2>1, InoSame, SameSelf, HoldsSame
<1>5. Holds(B, iput(WithIno(s, x), ip), None, None, None)
  BY <1>4, HoldsSwap, IputHolds
<1> QED BY <1>2, <1>5 DEF Neutral

\* sys_link() at the new name.
LEMMA LinkNameNeutral ==
    ASSUME NEW B, NEW dir, NEW ip, NEW name, IsFs(B), Holds(B, dir.fs, ip, dir.ip, None)
    PROVE  Neutral(B, linkName(dir, ip, name).fs)
<1>1. CASE dir.ip = None
  <2>1. linkName(dir, ip, name) = linkBad(dir.fs, ip)
    BY <1>1 DEF linkName
  <2> QED BY <1>1, <2>1, LinkBadHolds
<1>2. CASE dir.ip # None
  <2>1. PICK t : t = ilock(dir.fs, dir.ip)
    OBVIOUS
  <2>2. PICK l : l = dirlink(t, dir.ip, name, ip)
    OBVIOUS
  <2>3. PICK u : u = iput(l.fs, dir.ip)
    OBVIOUS
  <2>4. Holds(B, t, ip, dir.ip, None)
    BY <2>1, IlockHolds
  <2>5. Holds(B, l.fs, ip, dir.ip, None)
    BY <2>2, <2>4, DirlinkHolds
  <2>6. Holds(B, u, ip, None, None)
    BY <2>3, <2>5, HoldsSwap, IputHolds
  <2>7. Holds(B, iput(u, ip), None, None, None)
    BY <2>6, HoldsSwap, IputHolds
  <2>8. Neutral(B, linkBad(u, ip).fs)
    BY <2>6, LinkBadHolds
  <2>9. linkName(dir, ip, name) = IF l.ok THEN Ret(iput(u, ip), 0) ELSE linkBad(u, ip)
    BY <1>2, <2>1, <2>2, <2>3 DEF linkName, linkDone
  <2>10. Ret(iput(u, ip), 0).fs = iput(u, ip)
    BY DEF Ret
  <2> QED BY <2>7, <2>8, <2>9, <2>10 DEF Neutral
<1> QED BY <1>1, <1>2

\* sys_link().
LEMMA LinkNeutral ==
    ASSUME NEW s, NEW cwd, NEW old, NEW new, IsFs(s), IsPath(old), IsPath(new)
    PROVE  Neutral(s, sys_link(s, cwd, old, new).fs)
<1>1. PICK o : o = namei(s, cwd, old)
  OBVIOUS
<1>2. Holds(s, o.fs, None, o.ip, None) /\ Holds(s, s, None, None, None)
  BY <1>1, NameiHolds, HoldsNothing
<1>3. PICK t : t = ilock(o.fs, o.ip)
  OBVIOUS
<1>4. Holds(s, t, o.ip, None, None) /\ IsFs(t)
  <2>1. Holds(s, t, o.ip, None, None)
    BY <1>2, <1>3, HoldsSwap, IlockHolds
  <2> QED BY <2>1 DEF Holds
<1>5. PICK x : x = [t.ino EXCEPT ![o.ip].nlink = @ + 1]
  OBVIOUS
<1>6. PICK dir : dir = nameiparent(WithIno(t, x), cwd, new)
  OBVIOUS
<1>7. Holds(s, WithIno(t, x), o.ip, None, None)
  <2>1. Shaped(x) /\ SameTypes(t.ino, x)
    BY <1>4, <1>5 DEF IsFs, Shaped, SameTypes, InodeFields
  <2> QED BY <1>4, <2>1, InoSame, SameSelf, HoldsSame
<1>8. Holds(s, dir.fs, o.ip, dir.ip, None)
  BY <1>6, <1>7, NamexHolds DEF nameiparent
<1>9. PICK name : name = BaseName(new)
  OBVIOUS
<1>10. Neutral(s, linkName(dir, o.ip, name).fs)
  BY <1>8, LinkNameNeutral
<1>11. Holds(s, iput(t, o.ip), None, None, None)
  BY <1>4, HoldsSwap, IputHolds
<1>12. sys_link(s, cwd, old, new) =
         IF old.ok /\ new.ok
         THEN IF o.ip = None THEN Ret(o.fs, -1)
              ELSE IF t.ino[o.ip].type = "dir" THEN Ret(iput(t, o.ip), -1) ELSE linkName(dir, o.ip, name)
         ELSE Ret(s, -1)
  BY <1>1, <1>3, <1>5, <1>6, <1>9 DEF sys_link, linkOld, linkInode, WithIno
<1>13. \A u, n : Ret(u, n).fs = u
  BY DEF Ret
<1> QED BY <1>2, <1>10, <1>11, <1>12, <1>13 DEF Neutral

\* sys_unlink() past the checks of the entry.
LEMMA UnlinkInodeNeutral ==
    ASSUME NEW B, NEW s, NEW ip, NEW dp, NEW name, IsFs(B), Holds(B, s, dp, ip, None)
    PROVE  Neutral(B, unlinkInode(s, ip, dp, name).fs)
<1>1. CASE s.ino[ip].nlink < 1
  <2>1. PICK u : u = Panic(s, "unlink: nlink < 1")
    OBVIOUS
  <2>2. unlinkInode(s, ip, dp, name).fs = u
    BY <1>1, <2>1 DEF unlinkInode, Ret
  <2>3. IsFs(u) /\ u.panic # ""
    BY <2>1, PanicMoves DEF Holds
  <2> QED BY <2>2, <2>3 DEF Neutral, Holds
<1>2. CASE ~(s.ino[ip].nlink < 1)
  <2>1. PICK t : t = iput(s, ip)
    OBVIOUS
  <2>2. Holds(B, t, dp, None, None)
    BY <2>1, IputHolds, HoldsSwap
  <2>3. Holds(B, iput(t, dp), None, None, None)
    BY <2>2, IputHolds, HoldsSwap
  <2>4. PICK x : x = [s.ino EXCEPT ![dp].data[dirSlot(s, dp, name)] = Entry("", None),
                                   ![dp].nlink = IF s.ino[ip].type = "dir" THEN @ - 1 ELSE @]
    OBVIOUS
  <2>5. PICK u : u = iput(WithIno(s, x), dp)
    OBVIOUS
  <2>6. PICK y : y = [u.ino EXCEPT ![ip].nlink = @ - 1]
    OBVIOUS
  <2>7. unlinkInode(s, ip, dp, name).fs = iput(t, dp)
        \/ unlinkInode(s, ip, dp, name).fs = iput(WithIno(u, y), ip)
    <3>1. CASE s.ino[ip].type = "dir" /\ ~isdirempty(s, ip)
      BY <1>2, <2>1, <3>1 DEF unlinkInode, Ret
    <3>2. CASE ~(s.ino[ip].type = "dir" /\ ~isdirempty(s, ip))
      <4>1. unlinkInode(s, ip, dp, name) =
              unlinkPut(iput([s EXCEPT !.ino[dp].data[dirSlot(s, dp, name)] = Entry("", None),
                                       !.ino[dp].nlink = IF s.ino[ip].type = "dir" THEN @ - 1 ELSE @], dp), ip)
        BY <1>2, <3>2 DEF unlinkInode
      <4>2. WithIno(s, x) = [s EXCEPT !.ino[dp].data[dirSlot(s, dp, name)] = Entry("", None),
                                       !.ino[dp].nlink = IF s.ino[ip].type = "dir" THEN @ - 1 ELSE @]
        BY <2>4 DEF WithIno
      <4>3. unlinkInode(s, ip, dp, name) = unlinkPut(u, ip)
        BY <2>5, <4>1, <4>2
      <4> QED BY <2>6, <4>3 DEF unlinkPut, Ret, WithIno
    <3> QED BY <3>1, <3>2
  <2>8. IsFs(s)
    BY DEF Holds
  <2>9. Holds(B, WithIno(s, x), dp, ip, None)
    <3>1. Shaped(x) /\ SameTypes(s.ino, x)
      BY <2>4, <2>8 DEF IsFs, Shaped, SameTypes, InodeFields
    <3> QED BY <2>8, <3>1, InoSame, SameSelf, HoldsSame
  <2>10. Holds(B, u, None, ip, None) /\ IsFs(u)
    <3>1. Holds(B, u, None, ip, None)
      BY <2>5, <2>9, IputHolds, HoldsSwap
    <3> QED BY <3>1 DEF Holds
  <2>11. Holds(B, WithIno(u, y), None, ip, None)
    <3>1. Shaped(y) /\ SameTypes(u.ino, y)
      BY <2>6, <2>10 DEF IsFs, Shaped, SameTypes, InodeFields
    <3> QED BY <2>10, <3>1, InoSame, SameSelf, HoldsSame
  <2>12. Holds(B, iput(WithIno(u, y), ip), None, None, None)
    BY <2>11, IputHolds, HoldsSwap
  <2> QED BY <2>3, <2>7, <2>12 DEF Neutral
<1> QED BY <1>1, <1>2

\* sys_unlink().
LEMMA UnlinkNeutral ==
    ASSUME NEW s, NEW cwd, NEW path, IsFs(s), IsPath(path)
    PROVE  Neutral(s, sys_unlink(s, cwd, path).fs)
<1>1. PICK dir : dir = nameiparent(s, cwd, path)
  OBVIOUS
<1>2. Holds(s, dir.fs, None, dir.ip, None) /\ Holds(s, s, None, None, None)
  BY <1>1, HoldsNothing, NamexHolds DEF nameiparent
<1>3. PICK name : name = BaseName(path)
  OBVIOUS
<1>4. PICK t : t = ilock(dir.fs, dir.ip)
  OBVIOUS
<1>5. PICK hit : hit = dirlookup(t, dir.ip, name)
  OBVIOUS
<1>6. PICK u : u = ilock(hit.fs, hit.ip)
  OBVIOUS
<1>7. Holds(s, t, dir.ip, None, None)
  BY <1>2, <1>4, HoldsSwap, IlockHolds
<1>8. Holds(s, iput(t, dir.ip), None, None, None)
  BY <1>7, HoldsSwap, IputHolds
<1>9. Holds(s, hit.fs, dir.ip, None, hit.ip)
  BY <1>5, <1>7, DirlookupHolds
<1>10. Holds(s, hit.fs, dir.ip, hit.ip, None)
  BY <1>9, HoldsSwap
<1>11. hit.ip = None => Holds(s, iput(hit.fs, dir.ip), None, None, None)
  BY <1>10, HoldsSwap, IputHolds
<1>12. Holds(s, u, dir.ip, hit.ip, None)
  BY <1>6, <1>10, IlockHolds
<1>13. Neutral(s, unlinkInode(u, hit.ip, dir.ip, name).fs)
  BY <1>12, UnlinkInodeNeutral
<1>14. sys_unlink(s, cwd, path) =
         IF ~path.ok THEN Ret(s, -1)
         ELSE IF dir.ip = None THEN Ret(dir.fs, -1)
         ELSE IF name \in {".", ".."} THEN Ret(iput(t, dir.ip), -1)
         ELSE IF hit.ip = None THEN Ret(iput(hit.fs, dir.ip), -1)
         ELSE unlinkInode(u, hit.ip, dir.ip, name)
  BY <1>1, <1>3, <1>4, <1>5, <1>6 DEF sys_unlink, unlinkIn, unlinkName
<1>15. \A v, n : Ret(v, n).fs = v
  BY DEF Ret
<1> QED BY <1>2, <1>8, <1>11, <1>13, <1>14, <1>15 DEF Neutral

\* chdir() gives back the directory it leaves for the one it enters.
LEMMA ChdirMoves ==
    ASSUME NEW s, NEW cwd, NEW path, IsFs(s), IsPath(path)
    PROVE  Moves(s, sys_chdir(s, cwd, path).fs, sys_chdir(s, cwd, path).cwd, cwd, None)
<1>1. PICK n : n = namei(s, cwd, path)
  OBVIOUS
<1>2. Holds(s, n.fs, None, n.ip, None) /\ Holds(s, s, None, None, None)
  BY <1>1, NameiHolds, HoldsNothing
<1>3. PICK t : t = ilock(n.fs, n.ip)
  OBVIOUS
<1>4. Holds(s, t, None, n.ip, None)
  BY <1>2, <1>3, IlockHolds
<1>5. PICK c : c = sys_chdir(s, cwd, path)
  OBVIOUS
<1>6. c = IF ~path.ok THEN Moved(s, -1, cwd)
          ELSE IF n.ip = None THEN Moved(n.fs, -1, cwd)
          ELSE IF t.ino[n.ip].type # "dir" THEN Moved(iput(t, n.ip), -1, cwd)
          ELSE Moved(iput(t, cwd), 0, n.ip)
  BY <1>1, <1>3, <1>5 DEF sys_chdir, chdirFound, chdirTo
<1>7. \A v, k, w : Moved(v, k, w).fs = v /\ Moved(v, k, w).cwd = w
  BY DEF Moved
<1>8. Holds(s, iput(t, n.ip), None, None, None)
  BY <1>4, HoldsSwap, IputHolds
<1>9. (Holds(s, c.fs, None, None, None) /\ c.cwd = cwd) \/ (c.fs = iput(t, cwd) /\ c.cwd = n.ip)
  BY <1>2, <1>6, <1>7, <1>8
<1>10. CASE Holds(s, c.fs, None, None, None) /\ c.cwd = cwd
  <2>1. \A j \in Inum : s.ref[j] \in Int
    BY DEF IsFs
  <2>2. ASSUME c.fs.panic = "", NEW j \in Inum PROVE c.fs.ref[j] = s.ref[j] + Hold(cwd, j) - Hold(cwd, j) - Hold(None, j)
    <3>1. c.fs.ref[j] = s.ref[j] + Hold(None, j) + Hold(None, j) + Hold(None, j)
      BY <1>10, <2>2 DEF Holds
    <3> QED BY <2>1, <3>1, HoldIs
  <2>3. IsFs(c.fs) /\ (c.fs.panic = "" => s.panic = "" /\ Retypes(s, c.fs))
    BY <1>10 DEF Holds
  <2> QED BY <1>5, <1>10, <2>2, <2>3 DEF Moves, Counts
<1>11. CASE c.fs = iput(t, cwd) /\ c.cwd = n.ip
  <2>1. \A j \in Inum : s.ref[j] \in Int
    BY DEF IsFs
  <2>2. Moves(t, c.fs, None, cwd, None)
    BY <1>4, <1>11, IputMoves DEF Holds
  <2>3. ASSUME c.fs.panic = "" PROVE t.panic = "" /\ s.panic = ""
    BY <1>4, <2>2, <2>3 DEF Holds, Moves
  <2>4. ASSUME c.fs.panic = "", NEW j \in Inum PROVE c.fs.ref[j] = s.ref[j] + Hold(n.ip, j) - Hold(cwd, j) - Hold(None, j)
    <3>1. c.fs.ref[j] = t.ref[j] + Hold(None, j) - Hold(cwd, j) - Hold(None, j)
      BY <2>2, <2>4 DEF Moves, Counts
    <3>2. t.ref[j] = s.ref[j] + Hold(None, j) + Hold(n.ip, j) + Hold(None, j)
      BY <1>4, <2>3, <2>4 DEF Holds
    <3> QED BY <2>1, <3>1, <3>2, HoldIs
  <2>5. IsFs(c.fs)
    BY <2>2 DEF Moves
  <2>6. ASSUME c.fs.panic = "" PROVE Retypes(s, c.fs)
    <3> SUFFICES ASSUME NEW j \in Inum, s.ref[j] > 0, c.fs.ref[j] > 0, s.ino[j].type # "free"
                 PROVE  c.fs.ino[j].type = s.ino[j].type
      BY DEF Retypes
    <3>1. Retypes(s, t) /\ t.ref[j] = s.ref[j] + Hold(None, j) + Hold(n.ip, j) + Hold(None, j)
      BY <1>4, <2>3, <2>6 DEF Holds
    <3>2. Retypes(t, c.fs)
      BY <2>2, <2>6 DEF Moves
    <3>3. t.ref[j] > 0
      BY <2>1, <3>1 DEF Hold
    <3> QED BY <3>1, <3>2, <3>3 DEF Retypes
  <2> QED BY <1>5, <1>11, <2>3, <2>4, <2>5, <2>6 DEF Moves, Counts
<1> QED BY <1>9, <1>10, <1>11

---------------------------------------------------------------------------
(* Counting.                                                               *)

\* Where in S the function g has the value v.
At_(g, S, v) == {y \in S : g[y] = v}

\* The tables are finite.
LEMMA Slots ==
    /\ IsFiniteSet(Proc) /\ IsFiniteSet(File) /\ IsFiniteSet(Proc \X Fd)
<1>1. NPROC \in Nat /\ NFILE \in Nat /\ NOFILE - 1 \in Int /\ 0 \in Int /\ 1 \in Int
  BY KernelAssumption
<1>2. IsFiniteSet(Proc) /\ IsFiniteSet(File) /\ IsFiniteSet(Fd)
  BY <1>1, FS_Interval DEF Proc, File, Fd
<1> QED BY <1>2, FS_Product

\* How often a value occurs is a number.
LEMMA CountIsNat ==
    ASSUME NEW S, NEW g, NEW v, IsFiniteSet(S)
    PROVE  IsFiniteSet(At_(g, S, v)) /\ Cardinality(At_(g, S, v)) \in Nat
<1>1. At_(g, S, v) \subseteq S
  BY DEF At_
<1> QED BY <1>1, FS_Subset, FS_CardinalityType

\* One value changes.
LEMMA CountChange ==
    ASSUME NEW S, NEW g, NEW h, NEW x \in S, NEW v, IsFiniteSet(S), \A y \in S : y # x => h[y] = g[y]
    PROVE  Cardinality(At_(h, S, v)) = Cardinality(At_(g, S, v)) - Hold(g[x], v) + Hold(h[x], v)
<1>1. IsFiniteSet(At_(g, S, v)) /\ Cardinality(At_(g, S, v)) \in Nat
  BY CountIsNat
<1>2. CASE g[x] = v /\ h[x] = v
  <2>1. At_(h, S, v) = At_(g, S, v)
    BY <1>2 DEF At_
  <2> QED BY <1>1, <1>2, <2>1 DEF Hold
<1>3. CASE g[x] # v /\ h[x] # v
  <2>1. At_(h, S, v) = At_(g, S, v)
    BY <1>3 DEF At_
  <2> QED BY <1>1, <1>3, <2>1 DEF Hold
<1>4. CASE g[x] = v /\ h[x] # v
  <2>1. At_(h, S, v) = At_(g, S, v) \ {x} /\ x \in At_(g, S, v)
    BY <1>4 DEF At_
  <2>2. Cardinality(At_(h, S, v)) = Cardinality(At_(g, S, v)) - 1
    BY <1>1, <2>1, FS_RemoveElement
  <2> QED BY <1>1, <1>4, <2>2 DEF Hold
<1>5. CASE g[x] # v /\ h[x] = v
  <2>1. At_(h, S, v) = At_(g, S, v) \cup {x} /\ x \notin At_(g, S, v)
    BY <1>5 DEF At_
  <2>2. Cardinality(At_(h, S, v)) = Cardinality(At_(g, S, v)) + 1
    BY <1>1, <2>1, FS_AddElement
  <2> QED BY <1>1, <1>5, <2>2 DEF Hold
<1> QED BY <1>2, <1>3, <1>4, <1>5

---------------------------------------------------------------------------
(* The tables of the kernel.                                               *)

FileFields == {"ref", "type", "r", "w", "ip", "off", "pipe"}
ProcFields == {"st", "parent", "ofile", "cwd", "sz", "low", "killed", "xst"}

\* An entry of the file table holds an inode only when it is one, and in use; so is the end of a pipe.
IsFile(r) == /\ DOMAIN r = FileFields
             /\ r.ip # None => r.type \in {"inode", "device"} /\ r.ref # 0
             /\ r.type = "pipe" => r.pipe \in Pipe /\ r.ref # 0
FilesOk(fl) == DOMAIN fl = File /\ \A f \in File : IsFile(fl[f])

\* Only a live process has descriptors and a directory.
IsProc(r) == /\ DOMAIN r = ProcFields
             /\ r.ofile \in [Fd -> 0..NFILE]
             /\ r.st # "live" => r.cwd = None /\ \A fd \in Fd : r.ofile[fd] = None
ProcsOk(tab) == DOMAIN tab = Proc /\ \A p \in Proc : IsProc(tab[p])

\* The descriptors, the directories, and what the files count and hold.
Table(tab) == [x \in Proc \X Fd |-> tab[x[1]].ofile[x[2]]]
Cwds(tab) == [p \in Proc |-> tab[p].cwd]
Refs(fl) == [f \in File |-> fl[f].ref]
Ips(fl) == [f \in File |-> fl[f].ip]

\* The counts are exact for the descriptors D and the directories C.
FilesExact(R, D) == \A f \in File : R[f] = Cardinality(At_(D, Proc \X Fd, f))
InosExact(s, J, C) ==
    s.panic = "" => \A i \in Inum : s.ref[i] = Cardinality(At_(J, File, i)) + Cardinality(At_(C, Proc, i))

\* The ends of pipes that the files are.
Readers(fl) == [f \in File |-> IF fl[f].type = "pipe" /\ ~fl[f].w THEN fl[f].pipe ELSE None]
Writers(fl) == [f \in File |-> IF fl[f].type = "pipe" /\ fl[f].w THEN fl[f].pipe ELSE None]

\* An end is one file, and open as long as there is this file; a pipe is there as long as an end is open.
PipeFields == {"open", "data", "readopen", "writeopen"}
Alone(E) == \A f, g \in File : E[f] = E[g] /\ E[f] # None => f = g
PipesOk(R, W, pp) ==
    /\ DOMAIN pp = Pipe /\ R \in [File -> 0..NPIPE] /\ W \in [File -> 0..NPIPE]
    /\ Alone(R) /\ Alone(W)
    /\ \A q \in Pipe : /\ DOMAIN pp[q] = PipeFields
                       /\ pp[q].open <=> pp[q].readopen \/ pp[q].writeopen
                       /\ pp[q].readopen <=> \E f \in File : R[f] = q
                       /\ pp[q].writeopen <=> \E f \in File : W[f] = q

\* The pages that are free or in a pipe.
OpenPipes(pp) == {q \in Pipe : pp[q].open}
Pool(n, pp) == n + Cardinality(OpenPipes(pp))

PipeInv == PipesOk(Readers(file), Writers(file), pipe) /\ free \in Int

RefInv == /\ FilesOk(file) /\ ProcsOk(pr) /\ IsFs(fs)
          /\ FilesExact(Refs(file), Table(pr))
          /\ InosExact(fs, Ips(file), Cwds(pr))

\* The invariant is what RefsExact states.
LEMMA RefInvExact ==
    ASSUME RefInv
    PROVE  RefsExact
<1>1. ASSUME NEW f \in File
      PROVE  file[f].ref = Cardinality({x \in Proc \X Fd : pr[x[1]].ofile[x[2]] = f})
  <2>1. At_(Table(pr), Proc \X Fd, f) = {x \in Proc \X Fd : pr[x[1]].ofile[x[2]] = f}
    BY DEF At_, Table
  <2>2. Refs(file)[f] = file[f].ref
    BY DEF Refs
  <2> QED BY <2>1, <2>2 DEF RefInv, FilesExact
<1>2. ASSUME fs.panic = "", NEW i \in Inum
      PROVE  fs.ref[i] = Cardinality({f \in File : file[f].ip = i}) + Cardinality({p \in Proc : pr[p].cwd = i})
  <2>1. At_(Ips(file), File, i) = {f \in File : file[f].ip = i}
    BY DEF At_, Ips
  <2>2. At_(Cwds(pr), Proc, i) = {p \in Proc : pr[p].cwd = i}
    BY DEF At_, Cwds
  <2> QED BY <1>2, <2>1, <2>2 DEF RefInv, InosExact
<1> QED BY <1>1, <1>2 DEF RefsExact

\* A step that leaves the tables as they were, as far as references go.
LEMMA QuietStep ==
    ASSUME RefInv, FilesOk(file'), ProcsOk(pr'), Neutral(fs, fs'),
           Refs(file') = Refs(file), Ips(file') = Ips(file), Table(pr') = Table(pr), Cwds(pr') = Cwds(pr)
    PROVE  RefInv'
<1>1. IsFs(fs') /\ (fs'.panic = "" => fs.panic = "" /\ \A i \in Inum : fs'.ref[i] = fs.ref[i])
  <2>1. \A j \in Inum : fs.ref[j] \in Int
    BY DEF RefInv, IsFs
  <2>2. \A j \in Inum : fs.ref[j] + Hold(None, j) + Hold(None, j) + Hold(None, j) = fs.ref[j]
    BY <2>1, HoldIs
  <2> QED BY <2>2 DEF Neutral, Holds
<1>2. FilesExact(Refs(file'), Table(pr'))
  BY DEF RefInv
<1>3. InosExact(fs', Ips(file'), Cwds(pr'))
  BY <1>1 DEF RefInv, InosExact
<1> QED BY <1>1, <1>2, <1>3 DEF RefInv

---------------------------------------------------------------------------
(* fileclose().                                                            *)

\* The pipes, with V pages that are theirs or free.
Piped(st, V) == PipesOk(Readers(st.file), Writers(st.file), st.pipe) /\ st.free \in Int /\ Pool(st.free, st.pipe) = V

\* What fileclose() is given: exact counts for the descriptors D and the directories C, and the pipes.
Ready(st, D, C, V) ==
    /\ DOMAIN st = {"file", "pipe", "fs", "free"} /\ FilesOk(st.file) /\ IsFs(st.fs)
    /\ D \in [Proc \X Fd -> 0..NFILE]
    /\ FilesExact(Refs(st.file), D) /\ InosExact(st.fs, Ips(st.file), C)
    /\ Piped(st, V)

\* None stands for no file.
LEMMA NoneIsNoFile == None \notin File /\ File \subseteq 0..NFILE
BY KernelAssumption DEF None, File

\* The entry f of a table becomes r.
With(tab, f, r) == [tab EXCEPT ![f] = r]

\* One entry of the file table is replaced.
LEMMA EntryOk ==
    ASSUME NEW fl, NEW f \in File, NEW r, FilesOk(fl), IsFile(r)
    PROVE  /\ FilesOk(With(fl, f, r))
           /\ Refs(With(fl, f, r)) = With(Refs(fl), f, r.ref)
           /\ Ips(With(fl, f, r)) = With(Ips(fl), f, r.ip)
BY DEF FilesOk, Refs, Ips, With

\* A free entry.
LEMMA NoFileOk == IsFile(NoFile) /\ NoFile.ref = 0 /\ NoFile.ip = None
BY DEF IsFile, NoFile, FileFields

\* fileclose(): the count of the entry falls, and the last one gives the inode back (kernel/file.c).
LEMMA FilecloseIs ==
    ASSUME NEW st, NEW f \in File, DOMAIN st = {"file", "pipe", "fs", "free"}, FilesOk(st.file), IsFs(st.fs),
           st.file[f].ref \in Nat \ {0}
    PROVE  /\ DOMAIN fileclose(st, f) = {"file", "pipe", "fs", "free"}
           /\ \E r : /\ fileclose(st, f).file = [st.file EXCEPT ![f] = r] /\ IsFile(r)
                     /\ r.ref = st.file[f].ref - 1
                     /\ \/ r.ip = st.file[f].ip /\ fileclose(st, f).fs = st.fs
                        \/ r.ip = None /\ fileclose(st, f).fs = iput(st.fs, st.file[f].ip)
<1>1. PICK ff : ff = st.file[f]
  OBVIOUS
<1>2. PICK s1 : s1 = [st EXCEPT !.file[f] = NoFile]
  OBVIOUS
<1>3. IsFile(ff)
  BY <1>1 DEF FilesOk
<1>4. DOMAIN s1 = DOMAIN st /\ s1.file = [st.file EXCEPT ![f] = NoFile] /\ s1.fs = st.fs
  BY <1>2
<1>5. CASE ff.ref > 1
  <2>1. PICK r : r = [ff EXCEPT !.ref = @ - 1]
    OBVIOUS
  <2>2. fileclose(st, f) = [st EXCEPT !.file = [st.file EXCEPT ![f] = r]]
    <3>1. fileclose(st, f) = [st EXCEPT !.file[f].ref = @ - 1]
      BY <1>1, <1>5 DEF fileclose
    <3> QED BY <1>1, <2>1, <3>1
  <2>3. r.ref = ff.ref - 1 /\ r.ip = ff.ip /\ IsFile(r)
    BY <1>1, <1>3, <1>5, <2>1 DEF IsFile, FileFields
  <2> QED BY <1>1, <2>2, <2>3
<1>6. CASE ~(ff.ref > 1)
  <2>1. ff.ref = 1
    BY <1>1, <1>6
  <2>2. CASE ff.type = "pipe"
    <3>1. fileclose(st, f) = pipeclose(s1, ff.pipe, ff.w)
      BY <1>1, <1>2, <1>6, <2>2 DEF fileclose
    <3>2. DOMAIN pipeclose(s1, ff.pipe, ff.w) = DOMAIN s1 /\ pipeclose(s1, ff.pipe, ff.w).file = s1.file
          /\ pipeclose(s1, ff.pipe, ff.w).fs = s1.fs
      <4>1. PICK s2 : s2 = IF ff.w THEN [s1 EXCEPT !.pipe[ff.pipe].writeopen = FALSE]
                           ELSE [s1 EXCEPT !.pipe[ff.pipe].readopen = FALSE]
        OBVIOUS
      <4>2. DOMAIN s2 = DOMAIN s1 /\ s2.file = s1.file /\ s2.fs = s1.fs
        BY <1>4, <4>1
      <4>3. pipeclose(s1, ff.pipe, ff.w) = s2
            \/ pipeclose(s1, ff.pipe, ff.w) = [s2 EXCEPT !.pipe[ff.pipe] = NoPipe, !.free = @ + 1]
        BY <4>1 DEF pipeclose
      <4> QED BY <1>4, <4>2, <4>3
    <3>3. ff.ip = None
      BY <1>3, <2>2 DEF IsFile
    <3> QED BY <1>1, <1>4, <2>1, <3>1, <3>2, <3>3, NoFileOk
  <2>3. CASE ff.type \in {"inode", "device"}
    <3>1. fileclose(st, f) = [s1 EXCEPT !.fs = iput(@, ff.ip)]
      BY <1>1, <1>2, <1>6, <2>3 DEF fileclose
    <3>2. fileclose(st, f) = [s1 EXCEPT !.fs = iput(st.fs, ff.ip)]
      BY <1>4, <3>1
    <3> QED BY <1>1, <1>4, <2>1, <3>2, NoFileOk
  <2>4. CASE ff.type \notin {"inode", "device", "pipe"}
    <3>1. fileclose(st, f) = s1
      BY <1>1, <1>2, <1>6, <2>4 DEF fileclose
    <3>2. ff.ip = None
      BY <1>3, <2>4 DEF IsFile
    <3> QED BY <1>1, <1>4, <2>1, <3>1, <3>2, NoFileOk
  <2> QED BY <2>2, <2>3, <2>4
<1> QED BY <1>5, <1>6

\* An end of a pipe is closed.
Unwritten(pp, q) == [pp EXCEPT ![q].writeopen = FALSE]
Unread(pp, q) == [pp EXCEPT ![q].readopen = FALSE]

\* The pipes t without one end of q; without the other too, q is a free pipe.
LastEnd(t, q) == ~t[q].readopen /\ ~t[q].writeopen
Shut(R, W, pp, t, q) ==
    /\ ~LastEnd(t, q) => PipesOk(R, W, t) /\ OpenPipes(t) = OpenPipes(pp)
    /\ LastEnd(t, q) => /\ PipesOk(R, W, With(t, q, NoPipe)) /\ q \in OpenPipes(pp)
                        /\ OpenPipes(With(t, q, NoPipe)) = OpenPipes(pp) \ {q}

\* The write end of a pipe is closed; with the other end closed too, its page is free.
LEMMA WriterClosed ==
    ASSUME NEW R, NEW W, NEW pp, NEW f \in File, NEW q \in Pipe, PipesOk(R, W, pp), W[f] = q,
           NEW t, t = Unwritten(pp, q)
    PROVE  Shut(R, With(W, f, None), pp, t, q)
<1>1. PICK E : E = With(W, f, None)
  OBVIOUS
<1>2. q # None /\ q \in 0..NPIPE /\ None \in 0..NPIPE
  BY KernelAssumption DEF Pipe, None
<1>3. DOMAIN pp = Pipe /\ DOMAIN pp[q] = PipeFields /\ W \in [File -> 0..NPIPE] /\ Alone(W)
  BY DEF PipesOk
<1>4. E \in [File -> 0..NPIPE] /\ E[f] = None /\ \A g \in File : g # f => E[g] = W[g] /\ W[g] # q
  BY <1>1, <1>2, <1>3 DEF With, Alone
<1>5. Alone(E)
  BY <1>3, <1>4 DEF Alone
<1>6. \A x \in Pipe : (\E g \in File : E[g] = x) <=> (x # q /\ \E g \in File : W[g] = x)
  <2> SUFFICES ASSUME NEW x \in Pipe PROVE (\E g \in File : E[g] = x) <=> (x # q /\ \E g \in File : W[g] = x)
    OBVIOUS
  <2>1. x # None
    BY KernelAssumption DEF Pipe, None
  <2>2. CASE x = q
    BY <1>4, <2>1, <2>2
  <2>3. CASE x # q
    BY <1>4, <2>1, <2>3
  <2> QED BY <2>2, <2>3
<1>7. /\ DOMAIN t = Pipe /\ \A x \in Pipe : x # q => t[x] = pp[x]
      /\ DOMAIN t[q] = PipeFields /\ t[q].open = pp[q].open /\ t[q].readopen = pp[q].readopen /\ t[q].writeopen = FALSE
  BY <1>3 DEF PipeFields, Unwritten
<1>8. pp[q].open <=> pp[q].readopen \/ pp[q].writeopen
  BY DEF PipesOk
<1>9. pp[q].writeopen
  BY DEF PipesOk
<1>10. ASSUME t[q].readopen PROVE PipesOk(R, E, t) /\ OpenPipes(t) = OpenPipes(pp)
  <2>1. OpenPipes(t) = OpenPipes(pp)
    BY <1>7 DEF OpenPipes
  <2>2. ASSUME NEW x \in Pipe
        PROVE  /\ DOMAIN t[x] = PipeFields
               /\ t[x].open <=> t[x].readopen \/ t[x].writeopen
               /\ t[x].readopen <=> \E g \in File : R[g] = x
               /\ t[x].writeopen <=> \E g \in File : E[g] = x
    BY <1>6, <1>7, <1>8, <1>9, <1>10 DEF PipesOk
  <2> QED BY <1>4, <1>5, <1>7, <2>1, <2>2 DEF PipesOk
<1>11. ASSUME ~t[q].readopen
       PROVE  /\ PipesOk(R, E, With(t, q, NoPipe)) /\ q \in OpenPipes(pp)
              /\ OpenPipes(With(t, q, NoPipe)) = OpenPipes(pp) \ {q}
  <2>1. PICK u : u = With(t, q, NoPipe)
    OBVIOUS
  <2>2. /\ DOMAIN u = Pipe /\ \A x \in Pipe : x # q => u[x] = pp[x]
        /\ DOMAIN u[q] = PipeFields /\ ~u[q].open /\ ~u[q].readopen /\ ~u[q].writeopen
    BY <1>7, <2>1 DEF With, NoPipe, PipeFields
  <2>3. OpenPipes(u) = OpenPipes(pp) \ {q} /\ q \in OpenPipes(pp)
    BY <1>8, <1>9, <2>2 DEF OpenPipes
  <2>4. ASSUME NEW x \in Pipe
        PROVE  /\ DOMAIN u[x] = PipeFields
               /\ u[x].open <=> u[x].readopen \/ u[x].writeopen
               /\ u[x].readopen <=> \E g \in File : R[g] = x
               /\ u[x].writeopen <=> \E g \in File : E[g] = x
    BY <1>6, <1>7, <1>11, <2>2 DEF PipesOk
  <2>5. PipesOk(R, E, u)
    BY <1>4, <1>5, <2>2, <2>4 DEF PipesOk
  <2> QED BY <2>1, <2>3, <2>5
<1>12. LastEnd(t, q) <=> ~t[q].readopen
  BY <1>7 DEF LastEnd
<1> QED BY <1>1, <1>10, <1>11, <1>12 DEF Shut

\* The read end of a pipe is closed; with the other end closed too, its page is free.
LEMMA ReaderClosed ==
    ASSUME NEW R, NEW W, NEW pp, NEW f \in File, NEW q \in Pipe, PipesOk(R, W, pp), R[f] = q,
           NEW t, t = Unread(pp, q)
    PROVE  Shut(With(R, f, None), W, pp, t, q)
<1>1. PICK E : E = With(R, f, None)
  OBVIOUS
<1>2. q # None /\ q \in 0..NPIPE /\ None \in 0..NPIPE
  BY KernelAssumption DEF Pipe, None
<1>3. DOMAIN pp = Pipe /\ DOMAIN pp[q] = PipeFields /\ R \in [File -> 0..NPIPE] /\ Alone(R)
  BY DEF PipesOk
<1>4. E \in [File -> 0..NPIPE] /\ E[f] = None /\ \A g \in File : g # f => E[g] = R[g] /\ R[g] # q
  BY <1>1, <1>2, <1>3 DEF With, Alone
<1>5. Alone(E)
  BY <1>3, <1>4 DEF Alone
<1>6. \A x \in Pipe : (\E g \in File : E[g] = x) <=> (x # q /\ \E g \in File : R[g] = x)
  <2> SUFFICES ASSUME NEW x \in Pipe PROVE (\E g \in File : E[g] = x) <=> (x # q /\ \E g \in File : R[g] = x)
    OBVIOUS
  <2>1. x # None
    BY KernelAssumption DEF Pipe, None
  <2>2. CASE x = q
    BY <1>4, <2>1, <2>2
  <2>3. CASE x # q
    BY <1>4, <2>1, <2>3
  <2> QED BY <2>2, <2>3
<1>7. /\ DOMAIN t = Pipe /\ \A x \in Pipe : x # q => t[x] = pp[x]
      /\ DOMAIN t[q] = PipeFields /\ t[q].open = pp[q].open /\ t[q].writeopen = pp[q].writeopen /\ t[q].readopen = FALSE
  BY <1>3 DEF PipeFields, Unread
<1>8. pp[q].open <=> pp[q].readopen \/ pp[q].writeopen
  BY DEF PipesOk
<1>9. pp[q].readopen
  BY DEF PipesOk
<1>10. ASSUME t[q].writeopen PROVE PipesOk(E, W, t) /\ OpenPipes(t) = OpenPipes(pp)
  <2>1. OpenPipes(t) = OpenPipes(pp)
    BY <1>7 DEF OpenPipes
  <2>2. ASSUME NEW x \in Pipe
        PROVE  /\ DOMAIN t[x] = PipeFields
               /\ t[x].open <=> t[x].readopen \/ t[x].writeopen
               /\ t[x].writeopen <=> \E g \in File : W[g] = x
               /\ t[x].readopen <=> \E g \in File : E[g] = x
    BY <1>6, <1>7, <1>8, <1>9, <1>10 DEF PipesOk
  <2> QED BY <1>4, <1>5, <1>7, <2>1, <2>2 DEF PipesOk
<1>11. ASSUME ~t[q].writeopen
       PROVE  /\ PipesOk(E, W, With(t, q, NoPipe)) /\ q \in OpenPipes(pp)
              /\ OpenPipes(With(t, q, NoPipe)) = OpenPipes(pp) \ {q}
  <2>1. PICK u : u = With(t, q, NoPipe)
    OBVIOUS
  <2>2. /\ DOMAIN u = Pipe /\ \A x \in Pipe : x # q => u[x] = pp[x]
        /\ DOMAIN u[q] = PipeFields /\ ~u[q].open /\ ~u[q].readopen /\ ~u[q].writeopen
    BY <1>7, <2>1 DEF With, NoPipe, PipeFields
  <2>3. OpenPipes(u) = OpenPipes(pp) \ {q} /\ q \in OpenPipes(pp)
    BY <1>8, <1>9, <2>2 DEF OpenPipes
  <2>4. ASSUME NEW x \in Pipe
        PROVE  /\ DOMAIN u[x] = PipeFields
               /\ u[x].open <=> u[x].readopen \/ u[x].writeopen
               /\ u[x].writeopen <=> \E g \in File : W[g] = x
               /\ u[x].readopen <=> \E g \in File : E[g] = x
    BY <1>6, <1>7, <1>11, <2>2 DEF PipesOk
  <2>5. PipesOk(E, W, u)
    BY <1>4, <1>5, <2>2, <2>4 DEF PipesOk
  <2> QED BY <2>1, <2>3, <2>5
<1>12. LastEnd(t, q) <=> ~t[q].writeopen
  BY <1>7 DEF LastEnd
<1> QED BY <1>1, <1>10, <1>11, <1>12 DEF Shut

\* The file that an entry becomes.
LEMMA EntryEnds ==
    ASSUME NEW fl, NEW f \in File, NEW r, FilesOk(fl)
    PROVE  /\ Readers(With(fl, f, r)) = With(Readers(fl), f, IF r.type = "pipe" /\ ~r.w THEN r.pipe ELSE None)
           /\ Writers(With(fl, f, r)) = With(Writers(fl), f, IF r.type = "pipe" /\ r.w THEN r.pipe ELSE None)
BY DEF FilesOk, Readers, Writers, With

\* An entry that is the same end as before.
LEMMA EntrySameEnds ==
    ASSUME NEW fl, NEW f \in File, NEW r, FilesOk(fl),
           (r.type = "pipe" \/ fl[f].type = "pipe") => r.type = fl[f].type /\ r.w = fl[f].w /\ r.pipe = fl[f].pipe
    PROVE  Readers(With(fl, f, r)) = Readers(fl) /\ Writers(With(fl, f, r)) = Writers(fl)
<1>1. DOMAIN fl = File
  BY DEF FilesOk
<1>2. ASSUME NEW g \in File
      PROVE  Readers(With(fl, f, r))[g] = Readers(fl)[g] /\ Writers(With(fl, f, r))[g] = Writers(fl)[g]
  <2>1. With(fl, f, r)[g] = IF g = f THEN r ELSE fl[g]
    BY <1>1 DEF With
  <2> QED BY <2>1 DEF Readers, Writers
<1> QED BY <1>2 DEF Readers, Writers

\* The free list and the pipes lose nothing when one is closed.
LEMMA PoolClosed ==
    ASSUME NEW n \in Int, NEW pp, NEW qq, NEW q \in Pipe, OpenPipes(qq) = OpenPipes(pp) \ {q}, q \in OpenPipes(pp)
    PROVE  Pool(n + 1, qq) = Pool(n, pp)
<1>1. IsFiniteSet(OpenPipes(pp)) /\ Cardinality(OpenPipes(pp)) \in Nat
  <2>1. 1 \in Int /\ NPIPE \in Int
    BY KernelAssumption
  <2>2. IsFiniteSet(Pipe) /\ OpenPipes(pp) \subseteq Pipe
    BY <2>1, FS_Interval DEF Pipe, OpenPipes
  <2> QED BY <2>2, FS_Subset, FS_CardinalityType
<1>2. Cardinality(OpenPipes(qq)) = Cardinality(OpenPipes(pp)) - 1
  BY <1>1, FS_RemoveElement
<1> QED BY <1>1, <1>2 DEF Pool

\* pipeclose(): an end that is closed takes its page along when it is the last (kernel/pipe.c).
LEMMA PipecloseKeeps ==
    ASSUME NEW st, NEW f \in File, NEW V, DOMAIN st = {"file", "pipe", "fs", "free"}, FilesOk(st.file), Piped(st, V),
           st.file[f].type = "pipe",
           NEW s1, s1 = [st EXCEPT !.file[f] = NoFile]
    PROVE  Piped(pipeclose(s1, st.file[f].pipe, st.file[f].w), V)
<1>1. PICK ff, q : ff = st.file[f] /\ q = ff.pipe
  OBVIOUS
<1>2. PICK R, W, pp : R = Readers(st.file) /\ W = Writers(st.file) /\ pp = st.pipe
  OBVIOUS
<1>3. PipesOk(R, W, pp) /\ st.free \in Int /\ Pool(st.free, pp) = V
  BY <1>2 DEF Piped
<1>4. s1.file = With(st.file, f, NoFile) /\ s1.pipe = pp /\ s1.free = st.free /\ DOMAIN s1 = DOMAIN st
  BY <1>2 DEF With
<1>5. Readers(s1.file) = With(R, f, None) /\ Writers(s1.file) = With(W, f, None)
  <2>1. NoFile.type # "pipe"
    BY DEF NoFile
  <2> QED BY <1>2, <1>4, <2>1, EntryEnds
<1>6. R[f] = (IF ~ff.w THEN q ELSE None) /\ W[f] = (IF ff.w THEN q ELSE None)
  BY <1>1, <1>2 DEF Readers, Writers
<1>7. q \in Pipe
  BY <1>1 DEF FilesOk, IsFile
<1>8. CASE ff.w
  <2>0. ff.w
    BY <1>8
  <2>1. PICK t : t = Unwritten(pp, q)
    OBVIOUS
  <2>2. PICK s2 : s2 = [s1 EXCEPT !.pipe = t]
    OBVIOUS
  <2>3. DOMAIN s2 = DOMAIN st /\ s2.file = s1.file /\ s2.pipe = t /\ s2.free = st.free
    BY <1>4, <2>2
  <2>4. pipeclose(s1, q, ff.w) = IF ~LastEnd(t, q) THEN s2
                                 ELSE [s2 EXCEPT !.pipe = With(t, q, NoPipe), !.free = st.free + 1]
    <3>1. [s1 EXCEPT !.pipe[q].writeopen = FALSE] = s2
      BY <1>4, <2>1, <2>2 DEF Unwritten
    <3>2. pipeclose(s1, q, ff.w) = IF s2.pipe[q].readopen \/ s2.pipe[q].writeopen THEN s2
                                   ELSE [s2 EXCEPT !.pipe[q] = NoPipe, !.free = @ + 1]
      BY <2>0, <3>1 DEF pipeclose
    <3>3. [s2 EXCEPT !.pipe[q] = NoPipe, !.free = @ + 1] = [s2 EXCEPT !.pipe = With(t, q, NoPipe), !.free = st.free + 1]
      BY <2>3 DEF With
    <3> QED BY <2>3, <3>2, <3>3 DEF LastEnd
  <2>5. W[f] = q /\ R[f] = None
    BY <1>6, <2>0
  <2>6. Readers(s1.file) = R /\ Writers(s1.file) = With(W, f, None)
    <3>1. R \in [File -> 0..NPIPE]
      BY <1>3 DEF PipesOk
    <3>2. With(R, f, None) = R
      BY <2>5, <3>1 DEF With
    <3> QED BY <1>5, <3>2
  <2>7. Shut(Readers(s1.file), Writers(s1.file), pp, t, q)
    <3>1. PipesOk(R, W, pp)
      BY <1>3
    <3>2. Shut(R, With(W, f, None), pp, t, q)
      BY <1>7, <2>1, <2>5, <3>1, WriterClosed
    <3> QED BY <2>6, <3>2
  <2>8. PICK v : v = pipeclose(s1, q, ff.w)
    OBVIOUS
  <2>9. CASE ~LastEnd(t, q)
    <3>1. v = s2
      BY <2>4, <2>8, <2>9
    <3>2. Pool(st.free, t) = V
      BY <1>3, <2>7, <2>9 DEF Pool, Shut
    <3>3. Piped(v, V)
      BY <1>3, <2>3, <2>7, <2>9, <3>1, <3>2 DEF Piped, Shut
    <3> QED BY <1>1, <2>8, <3>3
  <2>10. CASE LastEnd(t, q)
    <3>1. v.file = s1.file /\ v.pipe = With(t, q, NoPipe) /\ v.free = st.free + 1
      BY <2>3, <2>4, <2>8, <2>10
    <3>2. Pool(st.free + 1, With(t, q, NoPipe)) = V
      BY <1>3, <1>7, <2>7, <2>10, PoolClosed DEF Shut
    <3>3. Piped(v, V)
      BY <1>3, <2>7, <2>10, <3>1, <3>2 DEF Piped, Shut
    <3> QED BY <1>1, <2>8, <3>3
  <2> QED BY <2>9, <2>10
<1>9. CASE ~ff.w
  <2>0. ~ff.w
    BY <1>9
  <2>1. PICK t : t = Unread(pp, q)
    OBVIOUS
  <2>2. PICK s2 : s2 = [s1 EXCEPT !.pipe = t]
    OBVIOUS
  <2>3. DOMAIN s2 = DOMAIN st /\ s2.file = s1.file /\ s2.pipe = t /\ s2.free = st.free
    BY <1>4, <2>2
  <2>4. pipeclose(s1, q, ff.w) = IF ~LastEnd(t, q) THEN s2
                                 ELSE [s2 EXCEPT !.pipe = With(t, q, NoPipe), !.free = st.free + 1]
    <3>1. [s1 EXCEPT !.pipe[q].readopen = FALSE] = s2
      BY <1>4, <2>1, <2>2 DEF Unread
    <3>2. pipeclose(s1, q, ff.w) = IF s2.pipe[q].readopen \/ s2.pipe[q].writeopen THEN s2
                                   ELSE [s2 EXCEPT !.pipe[q] = NoPipe, !.free = @ + 1]
      BY <2>0, <3>1 DEF pipeclose
    <3>3. [s2 EXCEPT !.pipe[q] = NoPipe, !.free = @ + 1] = [s2 EXCEPT !.pipe = With(t, q, NoPipe), !.free = st.free + 1]
      BY <2>3 DEF With
    <3> QED BY <2>3, <3>2, <3>3 DEF LastEnd
  <2>5. R[f] = q /\ W[f] = None
    BY <1>6, <2>0
  <2>6. Readers(s1.file) = With(R, f, None) /\ Writers(s1.file) = W
    <3>1. W \in [File -> 0..NPIPE]
      BY <1>3 DEF PipesOk
    <3>2. With(W, f, None) = W
      BY <2>5, <3>1 DEF With
    <3> QED BY <1>5, <3>2
  <2>7. Shut(Readers(s1.file), Writers(s1.file), pp, t, q)
    <3>1. PipesOk(R, W, pp)
      BY <1>3
    <3>2. Shut(With(R, f, None), W, pp, t, q)
      BY <1>7, <2>1, <2>5, <3>1, ReaderClosed
    <3> QED BY <2>6, <3>2
  <2>8. PICK v : v = pipeclose(s1, q, ff.w)
    OBVIOUS
  <2>9. CASE ~LastEnd(t, q)
    <3>1. v = s2
      BY <2>4, <2>8, <2>9
    <3>2. Pool(st.free, t) = V
      BY <1>3, <2>7, <2>9 DEF Pool, Shut
    <3>3. Piped(v, V)
      BY <1>3, <2>3, <2>7, <2>9, <3>1, <3>2 DEF Piped, Shut
    <3> QED BY <1>1, <2>8, <3>3
  <2>10. CASE LastEnd(t, q)
    <3>1. v.file = s1.file /\ v.pipe = With(t, q, NoPipe) /\ v.free = st.free + 1
      BY <2>3, <2>4, <2>8, <2>10
    <3>2. Pool(st.free + 1, With(t, q, NoPipe)) = V
      BY <1>3, <1>7, <2>7, <2>10, PoolClosed DEF Shut
    <3>3. Piped(v, V)
      BY <1>3, <2>7, <2>10, <3>1, <3>2 DEF Piped, Shut
    <3> QED BY <1>1, <2>8, <3>3
  <2> QED BY <2>9, <2>10
<1> QED BY <1>8, <1>9

\* fileclose() keeps the pipes, and the pages in them or free.
LEMMA FilecloseEnds ==
    ASSUME NEW st, NEW f \in File, NEW V, DOMAIN st = {"file", "pipe", "fs", "free"}, FilesOk(st.file), Piped(st, V)
    PROVE  Piped(fileclose(st, f), V)
<1>1. PICK ff : ff = st.file[f]
  OBVIOUS
<1>2. PICK s1 : s1 = [st EXCEPT !.file[f] = NoFile]
  OBVIOUS
<1>3. s1.file = With(st.file, f, NoFile) /\ s1.pipe = st.pipe /\ s1.free = st.free /\ DOMAIN s1 = DOMAIN st
  BY <1>2 DEF With
<1>4. IsFile(ff)
  BY <1>1 DEF FilesOk
<1>5. CASE ff.ref > 1
  <2>1. PICK r : r = [ff EXCEPT !.ref = @ - 1]
    OBVIOUS
  <2>2. fileclose(st, f) = [st EXCEPT !.file = With(st.file, f, r)]
    <3>1. fileclose(st, f) = [st EXCEPT !.file[f].ref = @ - 1]
      BY <1>1, <1>5 DEF fileclose
    <3> QED BY <1>1, <2>1, <3>1 DEF With
  <2>3. r.type = ff.type /\ r.w = ff.w /\ r.pipe = ff.pipe
    BY <1>4, <2>1 DEF IsFile, FileFields
  <2>4. Readers(With(st.file, f, r)) = Readers(st.file) /\ Writers(With(st.file, f, r)) = Writers(st.file)
    BY <1>1, <2>3, EntrySameEnds
  <2>5. PICK v : v = fileclose(st, f)
    OBVIOUS
  <2>6. v.file = With(st.file, f, r) /\ v.pipe = st.pipe /\ v.free = st.free
    BY <2>2, <2>5
  <2>7. Piped(v, V)
    BY <2>4, <2>6 DEF Piped
  <2> QED BY <2>5, <2>7
<1>6. CASE ~(ff.ref > 1) /\ ff.type = "pipe"
  <2>1. fileclose(st, f) = pipeclose(s1, ff.pipe, ff.w)
    BY <1>1, <1>2, <1>6 DEF fileclose
  <2>2. Piped(pipeclose(s1, st.file[f].pipe, st.file[f].w), V)
    BY <1>1, <1>2, <1>6, PipecloseKeeps
  <2> QED BY <1>1, <2>1, <2>2
<1>7. CASE ~(ff.ref > 1) /\ ff.type # "pipe"
  <2>1. PICK v : v = fileclose(st, f)
    OBVIOUS
  <2>2. v = s1 \/ v = [s1 EXCEPT !.fs = iput(@, ff.ip)]
    BY <1>1, <1>2, <1>7, <2>1 DEF fileclose
  <2>3. v.file = s1.file /\ v.pipe = s1.pipe /\ v.free = s1.free
    BY <1>3, <2>2
  <2>4. NoFile.type # "pipe"
    BY DEF NoFile
  <2>5. Readers(s1.file) = Readers(st.file) /\ Writers(s1.file) = Writers(st.file)
    BY <1>1, <1>3, <1>7, <2>4, EntrySameEnds
  <2>6. Piped(v, V)
    BY <1>3, <2>3, <2>5 DEF Piped
  <2> QED BY <2>1, <2>6
<1> QED BY <1>5, <1>6, <1>7

\* The counts Q of the files after the slot x went from D to E.
Recount(Q, R, D, E, x) == \A f \in File : Q[f] = R[f] - Hold(D[x], f) + Hold(E[x], f)

\* A descriptor x goes from one file to another.
LEMMA FilesMoveIn ==
    ASSUME NEW S, IsFiniteSet(S), NEW R, NEW Q, NEW D, NEW E, NEW x \in S, \A f \in File : R[f] = Cardinality(At_(D, S, f)),
           \A y \in S : y # x => E[y] = D[y], Recount(Q, R, D, E, x)
    PROVE  \A f \in File : Q[f] = Cardinality(At_(E, S, f))
<1>1. \A f : Cardinality(At_(E, S, f)) = Cardinality(At_(D, S, f)) - Hold(D[x], f) + Hold(E[x], f)
  BY CountChange
<1> QED BY <1>1 DEF Recount

\* One descriptor changes, and the counts of the files with it.
LEMMA FilesMove ==
    ASSUME NEW R, NEW Q, NEW D, NEW E, NEW x \in Proc \X Fd, FilesExact(R, D),
           \A y \in Proc \X Fd : y # x => E[y] = D[y], Recount(Q, R, D, E, x)
    PROVE  FilesExact(Q, E)
<1>1. PICK S : S = Proc \X Fd
  OBVIOUS
<1>2. IsFiniteSet(S) /\ x \in S /\ (\A f \in File : R[f] = Cardinality(At_(D, S, f))) /\ \A y \in S : y # x => E[y] = D[y]
  BY <1>1, Slots DEF FilesExact
<1>3. \A f \in File : Q[f] = Cardinality(At_(E, S, f))
  BY <1>2, FilesMoveIn
<1> QED BY <1>1, <1>3 DEF FilesExact

\* fileclose() of a descriptor that is then cleared keeps the counts exact.
LEMMA FilecloseReady ==
    ASSUME NEW st, NEW D, NEW C, NEW V, NEW x \in Proc \X Fd, Ready(st, D, C, V), D[x] \in File
    PROVE  Ready(fileclose(st, D[x]), [D EXCEPT ![x] = None], C, V)
<1>1. PICK f \in File : f = D[x]
  OBVIOUS
<1>2. PICK E : E = [D EXCEPT ![x] = None]
  OBVIOUS
<1>3. PICK t : t = fileclose(st, f)
  OBVIOUS
<1>4. D \in [Proc \X Fd -> 0..NFILE] /\ E \in [Proc \X Fd -> 0..NFILE] /\ E[x] = None /\ \A y \in Proc \X Fd : y # x => E[y] = D[y]
  BY <1>2, KernelAssumption DEF Ready, None
<1>5. Refs(st.file)[f] \in Nat \ {0} /\ st.file[f].ref = Refs(st.file)[f]
  <2>1. Refs(st.file)[f] = Cardinality(At_(D, Proc \X Fd, f))
    BY DEF Ready, FilesExact
  <2>2. x \in At_(D, Proc \X Fd, f)
    BY <1>1 DEF At_
  <2>4. IsFiniteSet(At_(D, Proc \X Fd, f))
    BY Slots, CountIsNat
  <2>3. Cardinality(At_(D, Proc \X Fd, f)) \in Nat /\ Cardinality(At_(D, Proc \X Fd, f)) # 0
    BY <2>2, <2>4, FS_CardinalityType, FS_EmptySet
  <2> QED BY <2>1, <2>3 DEF Refs
<1>6. PICK r : /\ DOMAIN t = {"file", "pipe", "fs", "free"}
               /\ t.file = [st.file EXCEPT ![f] = r] /\ IsFile(r)
               /\ r.ref = st.file[f].ref - 1
               /\ \/ r.ip = st.file[f].ip /\ t.fs = st.fs
                  \/ r.ip = None /\ t.fs = iput(st.fs, st.file[f].ip)
  <2>1. DOMAIN st = {"file", "pipe", "fs", "free"} /\ FilesOk(st.file) /\ IsFs(st.fs)
    BY DEF Ready
  <2>2. st.file[f].ref \in Nat \ {0}
    BY <1>5
  <2>3. f \in File
    OBVIOUS
  <2>4. /\ DOMAIN fileclose(st, f) = {"file", "pipe", "fs", "free"}
        /\ \E r : /\ fileclose(st, f).file = [st.file EXCEPT ![f] = r] /\ IsFile(r)
                  /\ r.ref = st.file[f].ref - 1
                  /\ \/ r.ip = st.file[f].ip /\ fileclose(st, f).fs = st.fs
                     \/ r.ip = None /\ fileclose(st, f).fs = iput(st.fs, st.file[f].ip)
    BY <2>1, <2>2, <2>3, FilecloseIs, ZenonT(40)
  <2> QED BY <1>3, <2>4, Zenon
<1>7. PICK J : J = Ips(st.file)
  OBVIOUS
<1>8. PICK K : K = Ips(t.file)
  OBVIOUS
<1>9. FilesOk(t.file) /\ Refs(t.file) = [Refs(st.file) EXCEPT ![f] = r.ref] /\ K = [J EXCEPT ![f] = r.ip]
  <2>1. t.file = With(st.file, f, r) /\ FilesOk(st.file)
    BY <1>6 DEF With, Ready
  <2>2. FilesOk(t.file) /\ Refs(t.file) = With(Refs(st.file), f, r.ref) /\ K = With(J, f, r.ip)
    BY <1>6, <1>7, <1>8, <2>1, EntryOk
  <2> QED BY <2>2 DEF With
<1>10. J[f] = st.file[f].ip /\ K[f] = r.ip /\ \A g \in File : g # f => K[g] = J[g]
  BY <1>7, <1>9 DEF Ips
<1>11. FilesExact(Refs(t.file), E)
  <2>1. D[x] = f /\ E[x] = None /\ \A y \in Proc \X Fd : y # x => E[y] = D[y]
    BY <1>1, <1>4
  <2>2. FilesExact(Refs(st.file), D)
    BY DEF Ready
  <2>3. ASSUME NEW g \in File PROVE Refs(t.file)[g] = Refs(st.file)[g] - Hold(f, g) + Hold(None, g)
    <3>1. Refs(t.file)[g] = IF g = f THEN st.file[f].ref - 1 ELSE Refs(st.file)[g]
      BY <1>6, <1>9 DEF Refs
    <3>2. Hold(None, g) = 0 /\ Hold(f, g) = IF f = g THEN 1 ELSE 0
      BY NoneIsNoFile DEF Hold
    <3>3. Refs(st.file)[g] \in Nat
      BY <2>2, Slots, CountIsNat DEF FilesExact
    <3> QED BY <1>5, <3>1, <3>2, <3>3
  <2>4. Recount(Refs(t.file), Refs(st.file), D, E, x)
    BY <2>1, <2>3 DEF Recount
  <2> QED BY <2>1, <2>2, <2>4, FilesMove
<1>12. IsFs(t.fs) /\ InosExact(t.fs, K, C)
  <2>1. CASE r.ip = st.file[f].ip /\ t.fs = st.fs
    <3>1. K = J
      BY <1>7, <1>9, <1>10, <2>1 DEF Ips
    <3> QED BY <1>7, <2>1, <3>1 DEF Ready
  <2>2. CASE r.ip = None /\ t.fs = iput(st.fs, st.file[f].ip)
    <3>1. Moves(st.fs, t.fs, None, J[f], None)
      BY <1>10, <2>2, IputMoves DEF Ready
    <3>2. ASSUME t.fs.panic = "", NEW i \in Inum
          PROVE  t.fs.ref[i] = Cardinality(At_(K, File, i)) + Cardinality(At_(C, Proc, i))
      <4>1. t.fs.ref[i] = st.fs.ref[i] + Hold(None, i) - Hold(J[f], i) - Hold(None, i)
        BY <3>1, <3>2 DEF Moves, Counts
      <4>2. st.fs.ref[i] = Cardinality(At_(J, File, i)) + Cardinality(At_(C, Proc, i))
        BY <1>7, <3>1, <3>2 DEF Ready, InosExact, Moves
      <4>3. Cardinality(At_(K, File, i)) = Cardinality(At_(J, File, i)) - Hold(J[f], i) + Hold(None, i)
        BY <1>10, <2>2, Slots, CountChange
      <4>4. Cardinality(At_(J, File, i)) \in Nat /\ Cardinality(At_(C, Proc, i)) \in Nat
        BY Slots, CountIsNat
      <4> QED BY <4>1, <4>2, <4>3, <4>4, HoldIs
    <3> QED BY <3>1, <3>2 DEF InosExact, Moves
  <2> QED BY <1>6, <2>1, <2>2
<1>13. Piped(t, V)
  BY <1>1, <1>3, FilecloseEnds DEF Ready
<1> QED BY <1>1, <1>2, <1>3, <1>4, <1>6, <1>8, <1>9, <1>11, <1>12, <1>13 DEF Ready

---------------------------------------------------------------------------
(* What a step does to the tables.                                         *)

\* One process of the table is replaced.
LEMMA ProcOk ==
    ASSUME NEW tab, NEW p \in Proc, NEW r, ProcsOk(tab), IsProc(r)
    PROVE  ProcsOk(With(tab, p, r)) /\ Cwds(With(tab, p, r)) = With(Cwds(tab), p, r.cwd)
BY DEF ProcsOk, Cwds, With

\* The descriptors as one function.
LEMMA TableOk ==
    ASSUME NEW tab, ProcsOk(tab)
    PROVE  /\ Table(tab) \in [Proc \X Fd -> 0..NFILE]
           /\ \A q \in Proc, fd \in Fd : Table(tab)[<<q, fd>>] = tab[q].ofile[fd]
<1>1. \A q \in Proc : tab[q].ofile \in [Fd -> 0..NFILE]
  BY DEF ProcsOk, IsProc
<1> QED BY <1>1 DEF Table

\* Two tables of the same slots.
LEMMA TableEqual ==
    ASSUME NEW tab, NEW tab2, \A q \in Proc, fd \in Fd : tab2[q].ofile[fd] = tab[q].ofile[fd]
    PROVE  Table(tab2) = Table(tab)
BY DEF Table

\* The descriptor fd of p becomes f.
WithFd(tab, p, fd, f) == [tab EXCEPT ![p].ofile[fd] = f]

\* One descriptor is set.
LEMMA TableSet ==
    ASSUME NEW tab, NEW p \in Proc, NEW fd \in Fd, NEW f \in 0..NFILE, ProcsOk(tab), tab[p].st = "live"
    PROVE  /\ ProcsOk(WithFd(tab, p, fd, f))
           /\ Table(WithFd(tab, p, fd, f)) = With(Table(tab), <<p, fd>>, f)
           /\ Cwds(WithFd(tab, p, fd, f)) = Cwds(tab)
<1>1. PICK r : r = [tab[p] EXCEPT !.ofile[fd] = f]
  OBVIOUS
<1>2. PICK t : t = [tab EXCEPT ![p] = r]
  OBVIOUS
<1>3. t = WithFd(tab, p, fd, f)
  BY <1>1, <1>2 DEF WithFd
<1>4. IsProc(tab[p]) /\ DOMAIN tab = Proc
  BY DEF ProcsOk
<1>5. IsProc(r) /\ r.ofile = [tab[p].ofile EXCEPT ![fd] = f] /\ r.cwd = tab[p].cwd
  BY <1>1, <1>4 DEF IsProc, ProcFields
<1>6. ProcsOk(t)
  BY <1>2, <1>5, ProcOk DEF With
<1>7. Cwds(t) = Cwds(tab)
  BY <1>2, <1>4, <1>5 DEF Cwds
<1>8. Table(t) = With(Table(tab), <<p, fd>>, f)
  <2>1. \A x \in Proc \X Fd : x = <<x[1], x[2]>> /\ x[1] \in Proc /\ x[2] \in Fd
    OBVIOUS
  <2>2. tab[p].ofile \in [Fd -> 0..NFILE]
    BY <1>4 DEF IsProc
  <2>3. ASSUME NEW x \in Proc \X Fd PROVE t[x[1]].ofile[x[2]] = IF x = <<p, fd>> THEN f ELSE tab[x[1]].ofile[x[2]]
    BY <1>2, <1>4, <1>5, <2>1, <2>2
  <2> QED BY <2>3 DEF Table, With
<1> QED BY <1>3, <1>6, <1>7, <1>8

\* The holders of the inodes, files K for J and directories D for C.
Reholds(K, D, J, C, up, down) ==
    \A i \in Inum : Cardinality(At_(K, File, i)) + Cardinality(At_(D, Proc, i))
                       = Cardinality(At_(J, File, i)) + Cardinality(At_(C, Proc, i)) + Hold(up, i) - Hold(down, i)

\* The references go the way of the files and directories that hold them.
LEMMA InosMove ==
    ASSUME NEW s, NEW t, NEW J, NEW K, NEW C, NEW D, NEW up, NEW down,
           InosExact(s, J, C), Moves(s, t, up, down, None), Reholds(K, D, J, C, up, down)
    PROVE  IsFs(t) /\ InosExact(t, K, D)
<1>1. IsFs(t)
  BY DEF Moves
<1>2. ASSUME t.panic = "", NEW i \in Inum
      PROVE  t.ref[i] = Cardinality(At_(K, File, i)) + Cardinality(At_(D, Proc, i))
  <2>1. t.ref[i] = s.ref[i] + Hold(up, i) - Hold(down, i) - Hold(None, i)
    BY <1>2 DEF Moves, Counts
  <2>2. s.ref[i] = Cardinality(At_(J, File, i)) + Cardinality(At_(C, Proc, i))
    BY <1>2 DEF InosExact, Moves
  <2>3. /\ Cardinality(At_(J, File, i)) \in Nat /\ Cardinality(At_(C, Proc, i)) \in Nat
        /\ Cardinality(At_(K, File, i)) \in Nat /\ Cardinality(At_(D, Proc, i)) \in Nat
    BY Slots, CountIsNat
  <2>4. Hold(up, i) \in Int /\ Hold(down, i) \in Int /\ Hold(None, i) = 0
    BY HoldIs
  <2>5. Cardinality(At_(K, File, i)) + Cardinality(At_(D, Proc, i)) = s.ref[i] + Hold(up, i) - Hold(down, i)
    BY <2>2 DEF Reholds
  <2>6. s.ref[i] \in Int
    BY <2>2, <2>3
  <2>7. t.ref[i] = s.ref[i] + Hold(up, i) - Hold(down, i)
    BY <2>1, <2>4, <2>6
  <2> QED BY <2>5, <2>7
<1> QED BY <1>1, <1>2 DEF InosExact

\* One entry of the file table holds another inode.
LEMMA FileMove ==
    ASSUME NEW s, NEW t, NEW J, NEW K, NEW C, NEW f \in File, InosExact(s, J, C),
           Moves(s, t, K[f], J[f], None), \A g \in File : g # f => K[g] = J[g]
    PROVE  IsFs(t) /\ InosExact(t, K, C)
<1>1. ASSUME NEW i \in Inum
      PROVE  Cardinality(At_(K, File, i)) + Cardinality(At_(C, Proc, i))
                = Cardinality(At_(J, File, i)) + Cardinality(At_(C, Proc, i)) + Hold(K[f], i) - Hold(J[f], i)
  <2>1. Cardinality(At_(K, File, i)) = Cardinality(At_(J, File, i)) - Hold(J[f], i) + Hold(K[f], i)
    BY Slots, CountChange
  <2>2. Cardinality(At_(J, File, i)) \in Nat /\ Cardinality(At_(C, Proc, i)) \in Nat
    BY Slots, CountIsNat
  <2> QED BY <2>1, <2>2, HoldIs
<1> QED BY <1>1, InosMove DEF Reholds

\* One process has another directory.
LEMMA CwdMove ==
    ASSUME NEW s, NEW t, NEW J, NEW C, NEW D, NEW p \in Proc, InosExact(s, J, C),
           Moves(s, t, D[p], C[p], None), \A q \in Proc : q # p => D[q] = C[q]
    PROVE  IsFs(t) /\ InosExact(t, J, D)
<1>1. ASSUME NEW i \in Inum
      PROVE  Cardinality(At_(J, File, i)) + Cardinality(At_(D, Proc, i))
                = Cardinality(At_(J, File, i)) + Cardinality(At_(C, Proc, i)) + Hold(D[p], i) - Hold(C[p], i)
  <2>1. Cardinality(At_(D, Proc, i)) = Cardinality(At_(C, Proc, i)) - Hold(C[p], i) + Hold(D[p], i)
    BY Slots, CountChange
  <2>2. Cardinality(At_(J, File, i)) \in Nat /\ Cardinality(At_(C, Proc, i)) \in Nat
    BY Slots, CountIsNat
  <2> QED BY <2>1, <2>2, HoldIs
<1> QED BY <1>1, InosMove DEF Reholds

\* What a call holds in the end is what it has taken.
LEMMA HoldsIsMoves ==
    ASSUME NEW s, NEW t, NEW i, IsFs(s), Holds(s, t, None, i, None)
    PROVE  Moves(s, t, i, None, None)
<1>1. \A j \in Inum : s.ref[j] \in Int
  BY DEF IsFs
<1>2. \A j \in Inum : s.ref[j] + Hold(None, j) + Hold(i, j) + Hold(None, j)
                       = s.ref[j] + Hold(i, j) - Hold(None, j) - Hold(None, j)
  BY <1>1, HoldIs
<1> QED BY <1>2 DEF Holds, Moves, Counts

---------------------------------------------------------------------------
(* exit().                                                                 *)

\* The descriptors that are left when p has closed those below k.
Left(D, p, k) == [x \in Proc \X Fd |-> IF x[1] = p /\ x[2] < k THEN None ELSE D[x]]
CloseOne(s, f) == IF f = None THEN s ELSE fileclose(s, f)

\* One descriptor more is closed.
LEMMA LeftIs ==
    ASSUME NEW D, NEW p \in Proc, NEW k \in Fd, D \in [Proc \X Fd -> 0..NFILE]
    PROVE  /\ Left(D, p, k)[<<p, k>>] = D[<<p, k>>]
           /\ D[<<p, k>>] = None => Left(D, p, k + 1) = Left(D, p, k)
           /\ Left(D, p, k + 1) = [Left(D, p, k) EXCEPT ![<<p, k>>] = None]
<1>1. k \in Int /\ Fd \subseteq Int
  BY KernelAssumption DEF Fd
<1>2. <<p, k>> \in Proc \X Fd /\ ~(k < k)
  BY <1>1
<1>3. ASSUME NEW x \in Proc \X Fd
      PROVE  (x[1] = p /\ x[2] < k + 1) <=> (x = <<p, k>> \/ (x[1] = p /\ x[2] < k))
  <2>0. x = <<x[1], x[2]>> /\ x[2] \in Fd
    OBVIOUS
  <2>1. x = <<x[1], x[2]>> /\ x[2] \in Int
    BY <1>1, <2>0
  <2>2. x[2] < k + 1 <=> x[2] = k \/ x[2] < k
    BY <1>1, <2>1
  <2> QED BY <1>1, <2>1, <2>2
<1>4. \A x \in Proc \X Fd : Left(D, p, k + 1)[x] = IF x = <<p, k>> THEN None ELSE Left(D, p, k)[x]
  BY <1>3 DEF Left
<1>5. Left(D, p, k)[<<p, k>>] = D[<<p, k>>]
  BY <1>2 DEF Left
<1>6. Left(D, p, k + 1) = [Left(D, p, k) EXCEPT ![<<p, k>>] = None]
  BY <1>4 DEF Left
<1>7. ASSUME D[<<p, k>>] = None PROVE Left(D, p, k + 1) = Left(D, p, k)
  <2>1. \A x \in Proc \X Fd : Left(D, p, k + 1)[x] = Left(D, p, k)[x]
    BY <1>4, <1>5, <1>7
  <2> QED BY <2>1 DEF Left
<1> QED BY <1>5, <1>6, <1>7

\* One turn of the loop of exit().
LEMMA CloseOneReady ==
    ASSUME NEW st, NEW D, NEW C, NEW V, NEW p \in Proc, NEW k \in Fd, D \in [Proc \X Fd -> 0..NFILE],
           Ready(st, Left(D, p, k), C, V)
    PROVE  Ready(CloseOne(st, D[<<p, k>>]), Left(D, p, k + 1), C, V)
<1>1. PICK f : f = D[<<p, k>>]
  OBVIOUS
<1>2. CASE f = None
  BY <1>1, <1>2, LeftIs DEF CloseOne
<1>3. CASE f # None
  <2>1. f \in File /\ <<p, k>> \in Proc \X Fd
    BY <1>1, <1>3, KernelAssumption DEF File, None
  <2>2. Left(D, p, k)[<<p, k>>] = f /\ Left(D, p, k + 1) = [Left(D, p, k) EXCEPT ![<<p, k>>] = None]
    <3>1. Left(D, p, k)[<<p, k>>] = D[<<p, k>>]
      <4>1. ~(k < k)
        BY KernelAssumption DEF Fd
      <4> QED BY <2>1, <4>1 DEF Left
    <3>2. Left(D, p, k + 1) = [Left(D, p, k) EXCEPT ![<<p, k>>] = None]
      BY LeftIs, Zenon
    <3> QED BY <1>1, <3>1, <3>2, Zenon
  <2>3. Ready(fileclose(st, f), Left(D, p, k + 1), C, V)
    BY <2>1, <2>2, FilecloseReady
  <2> QED BY <1>1, <1>3, <2>3 DEF CloseOne
<1> QED BY <1>2, <1>3

\* The turns of the loop of exit().
LEMMA CloseAllTurns ==
    ASSUME NEW st, NEW o
    PROVE  \E g : /\ g[0] = st
                  /\ \A k \in Nat : k < NOFILE => g[k + 1] = CloseOne(g[k], o[k])
                  /\ closeAll(st, o) = g[NOFILE]
<1> DEFINE Turns(g, m) == g = [k \in 0..m |->
                               IF k = 0 THEN st
                               ELSE IF o[k - 1] = None THEN g[k - 1] ELSE fileclose(g[k - 1], o[k - 1])]
           S == {m \in Nat : \E g : Turns(g, m)}
<1>1. 0 \in S
  <2>1. Turns([k \in 0..0 |-> st], 0)
    OBVIOUS
  <2> HIDE DEF Turns
  <2> QED BY <2>1
<1>2. ASSUME NEW m \in S PROVE m + 1 \in S
  <2>0. m \in Nat /\ m + 1 \in Nat /\ m # m + 1
    OBVIOUS
  <2>1. PICK g : Turns(g, m)
    OBVIOUS
  <2>2. PICK v : v = IF o[m] = None THEN g[m] ELSE fileclose(g[m], o[m])
    OBVIOUS
  <2>3. PICK h : h = [k \in 0..(m + 1) |-> IF k = m + 1 THEN v ELSE g[k]]
    OBVIOUS
  <2>4. h[m + 1] = v /\ \A k \in 0..m : h[k] = g[k]
    BY <2>0, <2>3
  <2>5. Turns(h, m + 1)
    <3> SUFFICES ASSUME NEW k \in 0..(m + 1)
                 PROVE  h[k] = IF k = 0 THEN st
                               ELSE IF o[k - 1] = None THEN h[k - 1] ELSE fileclose(h[k - 1], o[k - 1])
      BY <2>3
    <3>1. CASE k = m + 1
      BY <2>0, <2>2, <2>4, <3>1
    <3>2. CASE k # m + 1
      <4>1. k \in 0..m /\ (k # 0 => k - 1 \in 0..m)
        BY <2>0, <3>2
      <4> QED BY <2>1, <2>4, <4>1
    <3> QED BY <3>1, <3>2
  <2> HIDE DEF Turns
  <2> QED BY <2>0, <2>5
<1>3. S = Nat
  <2>1. S \in SUBSET Nat
    OBVIOUS
  <2> HIDE DEF S
  <2> QED BY <1>1, <1>2, <2>1, AllNumbers, Zenon
<1>4. NOFILE \in Nat
  BY KernelAssumption
<1>5. \E g : Turns(g, NOFILE)
  <2> HIDE DEF Turns
  <2> QED BY <1>3, <1>4
<1> DEFINE v == CHOOSE u : Turns(u, NOFILE)
<1>6. Turns(v, NOFILE)
  <2> HIDE DEF Turns
  <2> QED BY <1>5
<1>7. closeAll(st, o) = v[NOFILE]
  BY DEF closeAll
<1> HIDE DEF v
<1>8. v[0] = st
  BY <1>4, <1>6
<1>9. ASSUME NEW k \in Nat, k < NOFILE PROVE v[k + 1] = CloseOne(v[k], o[k])
  <2>1. k + 1 \in 0..NOFILE /\ k + 1 # 0 /\ (k + 1) - 1 = k
    BY <1>4, <1>9
  <2> QED BY <1>6, <2>1 DEF CloseOne
<1> QED BY <1>7, <1>8, <1>9

\* The loop of exit() over the descriptors.
LEMMA CloseAllReady ==
    ASSUME NEW st, NEW D, NEW C, NEW V, NEW p \in Proc, NEW o, Ready(st, D, C, V), \A fd \in Fd : D[<<p, fd>>] = o[fd]
    PROVE  Ready(closeAll(st, o), Left(D, p, NOFILE), C, V)
<1>0. D \in [Proc \X Fd -> 0..NFILE] /\ NOFILE \in Nat
  BY KernelAssumption DEF Ready
<1>1. PICK g : /\ g[0] = st
               /\ \A k \in Nat : k < NOFILE => g[k + 1] = CloseOne(g[k], o[k])
               /\ closeAll(st, o) = g[NOFILE]
  BY CloseAllTurns
<1> DEFINE S == {k \in Nat : k <= NOFILE => Ready(g[k], Left(D, p, k), C, V)}
<1>2. 0 \in S
  <2>1. \A x \in Proc \X Fd : x[2] \in Nat /\ ~(x[2] < 0)
    BY KernelAssumption DEF Fd
  <2>2. Left(D, p, 0) = D
    BY <1>0, <2>1 DEF Left
  <2> QED BY <1>1, <2>2
<1>3. ASSUME NEW k \in S PROVE k + 1 \in S
  <2> SUFFICES ASSUME k + 1 <= NOFILE PROVE Ready(g[k + 1], Left(D, p, k + 1), C, V)
    OBVIOUS
  <2>1. k \in Nat /\ k < NOFILE /\ k \in Fd /\ Ready(g[k], Left(D, p, k), C, V)
    BY <1>0 DEF Fd
  <2>2. g[k + 1] = CloseOne(g[k], D[<<p, k>>])
    BY <1>1, <2>1
  <2>3. Ready(CloseOne(g[k], D[<<p, k>>]), Left(D, p, k + 1), C, V)
    BY <1>0, <2>1, CloseOneReady, Zenon
  <2> QED BY <2>2, <2>3
<1>4. S = Nat
  <2>1. S \in SUBSET Nat
    OBVIOUS
  <2> HIDE DEF S
  <2> QED BY <1>2, <1>3, <2>1, AllNumbers, Zenon
<1> QED BY <1>0, <1>1, <1>4

\* The tables as exit() finds them.
LEMMA HereReady ==
    ASSUME RefInv, PipeInv
    PROVE  Ready(Here, Table(pr), Cwds(pr), Pool(free, pipe))
<1>1. Table(pr) \in [Proc \X Fd -> 0..NFILE]
  BY TableOk DEF RefInv
<1>2. DOMAIN Here = {"file", "pipe", "fs", "free"} /\ Here.file = file /\ Here.fs = fs /\ Here.pipe = pipe /\ Here.free = free
  BY DEF Here
<1>3. Piped(Here, Pool(free, pipe))
  BY <1>2 DEF PipeInv, Piped
<1> QED BY <1>1, <1>2, <1>3 DEF RefInv, Ready

\* reparent() changes parents only.
LEMMA ReparentOk ==
    ASSUME NEW tab, NEW p, ProcsOk(tab)
    PROVE  /\ ProcsOk(reparent(tab, p))
           /\ \A q \in Proc : /\ reparent(tab, p)[q].ofile = tab[q].ofile
                              /\ reparent(tab, p)[q].cwd = tab[q].cwd
                              /\ reparent(tab, p)[q].st = tab[q].st
<1>1. PICK t : t = reparent(tab, p)
  OBVIOUS
<1>2. DOMAIN t = Proc
  BY <1>1 DEF reparent
<1>3. ASSUME NEW q \in Proc
      PROVE  IsProc(t[q]) /\ t[q].ofile = tab[q].ofile /\ t[q].cwd = tab[q].cwd /\ t[q].st = tab[q].st
  <2>1. IsProc(tab[q])
    BY DEF ProcsOk
  <2>2. t[q] = IF tab[q].parent = p THEN [tab[q] EXCEPT !.parent = INIT] ELSE tab[q]
    BY <1>1 DEF reparent
  <2>3. t[q].ofile = tab[q].ofile /\ t[q].cwd = tab[q].cwd /\ t[q].st = tab[q].st /\ DOMAIN t[q] = DOMAIN tab[q]
    BY <2>1, <2>2 DEF IsProc, ProcFields
  <2> QED BY <2>1, <2>3 DEF IsProc
<1> QED BY <1>1, <1>2, <1>3 DEF ProcsOk

\* exit(): the descriptors are closed, the directory is given back, the process is a zombie.
LEMMA ExitKeeps ==
    ASSUME RefInv, PipeInv, NEW p \in Proc, NEW status, exit(p, status)
    PROVE  RefInv' /\ PipeInv' /\ Pool(free', pipe') = Pool(free, pipe)
<1>1. PICK s : s = closeAll(Here, pr[p].ofile)
  OBVIOUS
<1>2. ProcsOk(pr) /\ DOMAIN pr = Proc
  BY DEF RefInv, ProcsOk
<1>3. Ready(s, Left(Table(pr), p, NOFILE), Cwds(pr), Pool(free, pipe))
  <2>1. \A fd \in Fd : Table(pr)[<<p, fd>>] = pr[p].ofile[fd]
    BY <1>2, TableOk
  <2> QED BY <1>1, <2>1, HereReady, CloseAllReady
<1>4. DOMAIN s = {"file", "pipe", "fs", "free"}
  BY <1>3 DEF Ready
<1>5. file' = s.file /\ fs' = iput(s.fs, pr[p].cwd) /\ pipe' = s.pipe /\ free' = s.free
  <2>1. Becomes([s EXCEPT !.fs = iput(@, pr[p].cwd)])
    BY <1>1 DEF exit
  <2> QED BY <1>4, <2>1 DEF Becomes
<1>6. PICK tab : tab = reparent(pr, p)
  OBVIOUS
<1>7. ProcsOk(tab) /\ \A q \in Proc : tab[q].ofile = pr[q].ofile /\ tab[q].cwd = pr[q].cwd
  BY <1>2, <1>6, ReparentOk
<1>8. PICK r : r = [tab[p] EXCEPT !.st = "zombie", !.xst = status, !.cwd = None, !.ofile = [fd \in Fd |-> None]]
  OBVIOUS
<1>9. pr' = [tab EXCEPT ![p] = r]
  <2>1. pr' = [reparent(pr, p) EXCEPT ![p] = [@ EXCEPT !.st = "zombie", !.xst = status, !.cwd = None,
                                                      !.ofile = [fd \in Fd |-> None]]]
    BY DEF exit
  <2> QED BY <1>6, <1>8, <2>1
<1>10. IsProc(r) /\ r.cwd = None /\ \A fd \in Fd : r.ofile[fd] = None
  <2>1. IsProc(tab[p])
    BY <1>7 DEF ProcsOk
  <2>2. None \in 0..NFILE
    BY KernelAssumption DEF None
  <2>3. r.cwd = None /\ r.ofile = [fd \in Fd |-> None] /\ DOMAIN r = ProcFields
    BY <1>8, <2>1 DEF IsProc, ProcFields
  <2> QED BY <2>2, <2>3 DEF IsProc
<1>11. ProcsOk(pr') /\ Cwds(pr') = [Cwds(tab) EXCEPT ![p] = None]
  <2>1. pr' = With(tab, p, r)
    BY <1>9 DEF With
  <2>2. ProcsOk(pr') /\ Cwds(pr') = With(Cwds(tab), p, r.cwd)
    BY <1>7, <1>10, <2>1, ProcOk, Zenon
  <2> QED BY <1>10, <2>2 DEF With
<1>12. Table(pr') = Left(Table(pr), p, NOFILE)
  <2>1. ASSUME NEW x \in Proc \X Fd PROVE pr'[x[1]].ofile[x[2]] = Left(Table(pr), p, NOFILE)[x]
    <3>1. x[1] \in Proc /\ x[2] \in Fd /\ Table(pr)[x] = pr[x[1]].ofile[x[2]]
      BY DEF Table
    <3>2. x[2] < NOFILE
      BY <3>1, KernelAssumption DEF Fd
    <3>3. Left(Table(pr), p, NOFILE)[x] = IF x[1] = p THEN None ELSE Table(pr)[x]
      BY <3>2 DEF Left
    <3>4. DOMAIN tab = Proc
      BY <1>7 DEF ProcsOk
    <3>5. pr'[x[1]] = IF x[1] = p THEN r ELSE tab[x[1]]
      BY <1>9, <3>1, <3>4
    <3> QED BY <1>7, <1>10, <3>1, <3>3, <3>5
  <2> QED BY <2>1 DEF Table, Left
<1>13. IsFs(fs') /\ InosExact(fs', Ips(file'), Cwds(pr'))
  <2>1. Cwds(tab) = Cwds(pr)
    BY <1>7 DEF Cwds
  <2>2. Cwds(pr')[p] = None /\ Cwds(pr)[p] = pr[p].cwd /\ \A q \in Proc : q # p => Cwds(pr')[q] = Cwds(pr)[q]
    BY <1>11, <2>1 DEF Cwds
  <2>3. Moves(s.fs, fs', None, pr[p].cwd, None)
    BY <1>3, <1>5, IputMoves DEF Ready
  <2>4. Moves(s.fs, fs', Cwds(pr')[p], Cwds(pr)[p], None)
    BY <2>2, <2>3
  <2>5. InosExact(s.fs, Ips(file'), Cwds(pr))
    BY <1>3, <1>5 DEF Ready
  <2> HIDE <2>3
  <2> QED BY <2>2, <2>4, <2>5, CwdMove
<1>14. FilesOk(file') /\ FilesExact(Refs(file'), Table(pr'))
  BY <1>3, <1>5, <1>12 DEF Ready
<1>15. RefInv'
  BY <1>11, <1>13, <1>14 DEF RefInv
<1>16. Piped(s, Pool(free, pipe))
  BY <1>3 DEF Ready
<1>17. PipeInv' /\ Pool(free', pipe') = Pool(free, pipe)
  BY <1>5, <1>16 DEF PipeInv, Piped
<1> QED BY <1>15, <1>17

---------------------------------------------------------------------------
(* The system calls.                                                       *)

\* The tables do not change.
LEMMA Unmoved ==
    ASSUME RefInv, UNCHANGED <<file, pr, fs>>
    PROVE  RefInv'
BY DEF RefInv

\* The first free slot is one.
LEMMA SmallestIn ==
    ASSUME NEW S, S \subseteq Nat, S # {}
    PROVE  Smallest(S) \in S
<1>1. \E x \in S : \A y \in S : x <= y
  BY LeastNumber
<1> QED BY <1>1 DEF Smallest

\* fdalloc() and filealloc() return free slots.
LEMMA FreeSlots ==
    ASSUME NEW p \in Proc
    PROVE  /\ freeFds(p) # {} => Smallest(freeFds(p)) \in Fd /\ pr[p].ofile[Smallest(freeFds(p))] = None
           /\ freeFiles # {} => Smallest(freeFiles) \in File /\ file[Smallest(freeFiles)].ref = 0
<1>1. freeFds(p) \subseteq Nat /\ freeFiles \subseteq Nat
  BY KernelAssumption DEF freeFds, freeFiles, Fd, File
<1>2. freeFds(p) # {} => Smallest(freeFds(p)) \in freeFds(p)
  BY <1>1, SmallestIn
<1>3. freeFiles # {} => Smallest(freeFiles) \in freeFiles
  BY <1>1, SmallestIn
<1> QED BY <1>2, <1>3 DEF freeFds, freeFiles

\* argfd() returns a file that an open descriptor of the process names.
LEMMA ArgfdIs ==
    ASSUME RefInv, NEW p \in Proc, NEW r, argfd(p, r) # None
    PROVE  argfd(p, r) \in File /\ us[p].reg[r] \in Fd /\ pr[p].ofile[us[p].reg[r]] = argfd(p, r)
<1>1. us[p].reg[r] \in Fd /\ pr[p].ofile[us[p].reg[r]] = argfd(p, r)
  BY DEF argfd
<1>2. pr[p].ofile \in [Fd -> 0..NFILE]
  BY DEF RefInv, ProcsOk, IsProc
<1>3. argfd(p, r) \in 0..NFILE
  BY <1>1, <1>2
<1> QED BY <1>1, <1>3, KernelAssumption DEF File, None

\* The count of an entry is a number.
LEMMA RefIsNat ==
    ASSUME RefInv, NEW f \in File
    PROVE  file[f].ref \in Nat /\ Refs(file)[f] = file[f].ref /\ IsFile(file[f])
<1>1. Refs(file)[f] \in Nat
  BY Slots, CountIsNat DEF RefInv, FilesExact
<1> QED BY <1>1 DEF RefInv, FilesOk, Refs

\* dup(): one descriptor more, one count more.
LEMMA DupKeeps ==
    ASSUME RefInv, NEW p \in Proc, SysDup(p)
    PROVE  RefInv'
<1>1. PICK f : f = argfd(p, I(p).fd)
  OBVIOUS
<1>2. PICK fd : fd = Smallest(freeFds(p))
  OBVIOUS
<1>3. pr[p].st = "live" /\ fs' = fs
  BY DEF SysDup, Alive, At
<1>4. CASE f = None \/ freeFds(p) = {}
  BY <1>1, <1>3, <1>4, Unmoved DEF SysDup
<1>5. CASE f # None /\ freeFds(p) # {}
  <2>1. pr' = [pr EXCEPT ![p].ofile[fd] = f] /\ file' = [file EXCEPT ![f].ref = @ + 1]
    BY <1>1, <1>2, <1>5 DEF SysDup, filedup
  <2>2. f \in File /\ f \in 0..NFILE
    BY <1>1, <1>5, ArgfdIs, NoneIsNoFile
  <2>3. fd \in Fd /\ pr[p].ofile[fd] = None
    BY <1>2, <1>5, FreeSlots
  <2>4. ProcsOk(pr') /\ Table(pr') = [Table(pr) EXCEPT ![<<p, fd>>] = f] /\ Cwds(pr') = Cwds(pr)
    <3>1. ProcsOk(pr)
      BY DEF RefInv
    <3>2. pr' = WithFd(pr, p, fd, f)
      BY <2>1 DEF WithFd
    <3>3. ProcsOk(pr') /\ Table(pr') = With(Table(pr), <<p, fd>>, f) /\ Cwds(pr') = Cwds(pr)
      BY <1>3, <2>2, <2>3, <3>1, <3>2, TableSet, Zenon
    <3> QED BY <3>3 DEF With
  <2>5. PICK r : r = [file[f] EXCEPT !.ref = @ + 1]
    OBVIOUS
  <2>6. file[f].ref \in Nat /\ Refs(file)[f] = file[f].ref /\ IsFile(file[f])
    BY <2>2, RefIsNat
  <2>7. IsFile(r) /\ r.ref = file[f].ref + 1 /\ r.ip = file[f].ip
    BY <2>5, <2>6 DEF IsFile, FileFields
  <2>8. file' = [file EXCEPT ![f] = r]
    BY <2>1, <2>5
  <2>9. FilesOk(file') /\ Refs(file') = [Refs(file) EXCEPT ![f] = r.ref] /\ Ips(file') = [Ips(file) EXCEPT ![f] = r.ip]
    <3>1. FilesOk(file)
      BY DEF RefInv
    <3>2. file' = With(file, f, r)
      BY <2>8 DEF With
    <3>3. FilesOk(file') /\ Refs(file') = With(Refs(file), f, r.ref) /\ Ips(file') = With(Ips(file), f, r.ip)
      BY <2>2, <2>7, <3>1, <3>2, EntryOk, Zenon
    <3> QED BY <3>3 DEF With
  <2>10. Ips(file') = Ips(file)
    BY <2>7, <2>9 DEF Ips
  <2>11. FilesExact(Refs(file'), Table(pr'))
    <3>1. PICK x \in Proc \X Fd : x = <<p, fd>>
      BY <2>3
    <3>2. PICK D : D = Table(pr)
      OBVIOUS
    <3>3. PICK E : E = Table(pr')
      OBVIOUS
    <3>4. D[x] = None /\ D \in [Proc \X Fd -> 0..NFILE]
      BY <2>3, <3>1, <3>2, TableOk DEF RefInv
    <3>5. E[x] = f /\ \A y \in Proc \X Fd : y # x => E[y] = D[y]
      BY <2>4, <3>1, <3>2, <3>3, <3>4
    <3>6. Recount(Refs(file'), Refs(file), D, E, x)
      <4> SUFFICES ASSUME NEW g \in File PROVE Refs(file')[g] = Refs(file)[g] - Hold(D[x], g) + Hold(E[x], g)
        BY DEF Recount
      <4>1. Refs(file')[g] = IF g = f THEN file[f].ref + 1 ELSE Refs(file)[g]
        BY <2>7, <2>9 DEF Refs
      <4>2. Hold(D[x], g) = 0 /\ Hold(E[x], g) = IF f = g THEN 1 ELSE 0
        BY <3>4, <3>5, NoneIsNoFile DEF Hold
      <4>3. Refs(file)[g] \in Nat
        BY RefIsNat
      <4> QED BY <2>6, <4>1, <4>2, <4>3
    <3>7. FilesExact(Refs(file), D)
      BY <3>2 DEF RefInv
    <3>8. FilesExact(Refs(file'), E)
      BY <3>5, <3>6, <3>7, FilesMove
    <3> QED BY <3>3, <3>8
  <2> QED BY <1>3, <2>4, <2>9, <2>10, <2>11 DEF RefInv
<1> QED BY <1>4, <1>5

\* close(): one less.
LEMMA CloseKeeps ==
    ASSUME RefInv, PipeInv, NEW p \in Proc, SysClose(p)
    PROVE  RefInv' /\ PipeInv' /\ Pool(free', pipe') = Pool(free, pipe)
<1>1. PICK f : f = argfd(p, I(p).fd)
  OBVIOUS
<1>2. PICK fd : fd = us[p].reg[I(p).fd]
  OBVIOUS
<1>3. pr[p].st = "live"
  BY DEF SysClose, Alive, At
<1>4. CASE f = None
  <2>1. UNCHANGED <<file, pr, fs>> /\ UNCHANGED <<pipe, free>>
    BY <1>1, <1>4 DEF SysClose
  <2> QED BY <2>1, Unmoved DEF PipeInv
<1>5. CASE f # None
  <2>1. pr' = [pr EXCEPT ![p].ofile[fd] = None] /\ Becomes(fileclose(Here, f))
    BY <1>1, <1>2, <1>5 DEF SysClose
  <2>2. f \in File /\ fd \in Fd /\ pr[p].ofile[fd] = f
    BY <1>1, <1>2, <1>5, ArgfdIs
  <2>3. ProcsOk(pr') /\ Table(pr') = [Table(pr) EXCEPT ![<<p, fd>>] = None] /\ Cwds(pr') = Cwds(pr)
    <3>1. ProcsOk(pr) /\ None \in 0..NFILE
      BY KernelAssumption DEF RefInv, None
    <3>2. pr' = WithFd(pr, p, fd, None)
      BY <2>1 DEF WithFd
    <3>3. ProcsOk(pr') /\ Table(pr') = With(Table(pr), <<p, fd>>, None) /\ Cwds(pr') = Cwds(pr)
      BY <1>3, <2>2, <3>1, <3>2, TableSet, Zenon
    <3> QED BY <3>3 DEF With
  <2>4. Ready(fileclose(Here, f), [Table(pr) EXCEPT ![<<p, fd>>] = None], Cwds(pr), Pool(free, pipe))
    <3>1. PICK x \in Proc \X Fd : x = <<p, fd>>
      BY <2>2
    <3>2. Table(pr)[x] = f
      BY <2>2, <3>1, TableOk DEF RefInv
    <3>3. Ready(fileclose(Here, Table(pr)[x]), [Table(pr) EXCEPT ![x] = None], Cwds(pr), Pool(free, pipe))
      BY <2>2, <3>2, HereReady, FilecloseReady, Zenon
    <3> QED BY <3>1, <3>2, <3>3, Zenon
  <2>5. PICK s : s = fileclose(Here, f)
    OBVIOUS
  <2>6. file' = s.file /\ fs' = s.fs /\ pipe' = s.pipe /\ free' = s.free
    BY <2>1, <2>5 DEF Becomes
  <2>7. Ready(s, Table(pr'), Cwds(pr'), Pool(free, pipe))
    BY <2>3, <2>4, <2>5
  <2>8. RefInv'
    BY <2>3, <2>6, <2>7 DEF Ready, RefInv
  <2>9. PipeInv' /\ Pool(free', pipe') = Pool(free, pipe)
    BY <2>6, <2>7 DEF Ready, Piped, PipeInv
  <2> QED BY <2>8, <2>9
<1> QED BY <1>4, <1>5

\* A free slot x takes a reference to the file f.
LEMMA SlotTaken ==
    ASSUME NEW R, NEW Q, NEW D, D \in [Proc \X Fd -> 0..NFILE], NEW x \in Proc \X Fd, NEW f \in File, D[x] = None,
           FilesExact(R, D), \A g \in File : Q[g] = R[g] + Hold(f, g)
    PROVE  FilesExact(Q, With(D, x, f))
<1>1. PICK E : E = With(D, x, f)
  OBVIOUS
<1>2. E[x] = f /\ \A y \in Proc \X Fd : y # x => E[y] = D[y]
  BY <1>1 DEF With
<1>3. Recount(Q, R, D, E, x)
  <2> SUFFICES ASSUME NEW g \in File PROVE Q[g] = R[g] - Hold(D[x], g) + Hold(E[x], g)
    BY DEF Recount
  <2>1. Hold(D[x], g) = 0 /\ Hold(E[x], g) = Hold(f, g)
    BY <1>2, NoneIsNoFile DEF Hold
  <2>2. R[g] \in Nat /\ Hold(f, g) \in Int
    <3>1. R[g] = Cardinality(At_(D, Proc \X Fd, g))
      BY DEF FilesExact
    <3>2. Cardinality(At_(D, Proc \X Fd, g)) \in Nat
      BY Slots, CountIsNat
    <3> QED BY <3>1, <3>2, HoldIs
  <2> QED BY <2>1, <2>2
<1>4. FilesExact(Q, E)
  BY <1>2, <1>3, FilesMove
<1> QED BY <1>1, <1>4

\* itrunc() keeps the counts.
LEMMA ItruncSame ==
    ASSUME NEW s, NEW i, IsFs(s)
    PROVE  Same(s, itrunc(s, i))
<1>1. PICK t : t = itrunc(s, i)
  OBVIOUS
<1>2. PICK x : x = [s.ino EXCEPT ![i].data = <<>>, ![i].nb = 0, ![i].ind = 0]
  OBVIOUS
<1>3. DOMAIN t = DOMAIN s /\ t.panic = s.panic /\ t.ref = s.ref /\ t.ino = x
  BY <1>1, <1>2 DEF itrunc, IsFs
<1>4. Shaped(x) /\ SameTypes(s.ino, x)
  BY <1>2 DEF IsFs, Shaped, SameTypes, InodeFields
<1> QED BY <1>1, <1>3, <1>4 DEF Same, IsFs

\* The calls on names take paths.
LEMMA OpenKeeps ==
    ASSUME RefInv, NEW p \in Proc, SysOpen(p), IsPath(I(p).path)
    PROVE  RefInv'
<1>1. PICK i : i = I(p)
  OBVIOUS
<1>2. PICK c : c = IF "CREATE" \in i.mode THEN create(fs, pr[p].cwd, i.path, "file")
                   ELSE namei(fs, pr[p].cwd, i.path)
  OBVIOUS
<1>3. PICK fs1 : fs1 = IF c.ip = None THEN c.fs ELSE ilock(c.fs, c.ip)
  OBVIOUS
<1>4. PICK type : type = fs1.ino[c.ip].type
  OBVIOUS
<1>5. PICK f : f = Smallest(freeFiles)
  OBVIOUS
<1>6. PICK fd : fd = Smallest(freeFds(p))
  OBVIOUS
<1>7. PICK fs2 : fs2 = IF "TRUNC" \in i.mode /\ type = "file" THEN itrunc(fs1, c.ip) ELSE fs1
  OBVIOUS
<1>8. PICK r : r = [ref |-> 1, type |-> IF type = "dev" THEN "device" ELSE "inode",
                    r |-> "WRONLY" \notin i.mode, w |-> i.mode \cap {"WRONLY", "RDWR"} # {},
                    ip |-> c.ip, off |-> 0, pipe |-> None]
  OBVIOUS
<1>9. PICK error : error = (\/ "CREATE" \notin i.mode /\ type = "dir" /\ i.mode # {}
                            \/ freeFiles = {} \/ freeFds(p) = {})
  OBVIOUS
<1>10. \/ fs' = fs /\ file' = file /\ pr' = pr
       \/ c.ip = None /\ fs' = c.fs /\ file' = file /\ pr' = pr
       \/ c.ip # None /\ fs' = iput(fs1, c.ip) /\ file' = file /\ pr' = pr
       \/ /\ c.ip # None /\ ~error /\ fs' = fs2 /\ file' = With(file, f, r) /\ pr' = WithFd(pr, p, fd, f)
  BY <1>1, <1>2, <1>3, <1>4, <1>5, <1>6, <1>7, <1>8, <1>9 DEF SysOpen, With, WithFd
<1>11. IsFs(fs) /\ FilesOk(file) /\ ProcsOk(pr)
  BY DEF RefInv
<1>12. Holds(fs, c.fs, None, c.ip, None)
  BY <1>1, <1>2, <1>11, CreateHolds, NameiHolds
<1>13. CASE fs' = fs /\ file' = file /\ pr' = pr
  BY <1>13, Unmoved
<1>14. CASE c.ip = None /\ fs' = c.fs /\ file' = file /\ pr' = pr
  <2>1. Neutral(fs, fs')
    BY <1>12, <1>14 DEF Neutral
  <2> QED BY <1>11, <1>14, <2>1, QuietStep
<1>15. CASE c.ip # None /\ fs' = iput(fs1, c.ip) /\ file' = file /\ pr' = pr
  <2>1. Holds(fs, fs1, None, c.ip, None)
    BY <1>3, <1>12, <1>15, IlockHolds
  <2>2. Holds(fs, iput(fs1, c.ip), None, None, None)
    BY <1>11, <2>1, HoldsSwap, IputHolds
  <2>3. Neutral(fs, fs')
    BY <1>15, <2>2 DEF Neutral
  <2> QED BY <1>11, <1>15, <2>3, QuietStep
<1>16. CASE c.ip # None /\ ~error /\ fs' = fs2 /\ file' = With(file, f, r) /\ pr' = WithFd(pr, p, fd, f)
  <2>1. f \in File /\ file[f].ref = 0 /\ fd \in Fd /\ pr[p].ofile[fd] = None
    BY <1>5, <1>6, <1>9, <1>16, FreeSlots
  <2>2. pr[p].st = "live"
    BY DEF SysOpen, Alive, At
  <2>3. IsFile(r) /\ r.ref = 1 /\ r.ip = c.ip
    BY <1>8 DEF IsFile, FileFields
  <2>4. FilesOk(file') /\ Refs(file') = With(Refs(file), f, 1) /\ Ips(file') = With(Ips(file), f, c.ip)
    BY <1>11, <1>16, <2>1, <2>3, EntryOk
  <2>5. ProcsOk(pr') /\ Table(pr') = With(Table(pr), <<p, fd>>, f) /\ Cwds(pr') = Cwds(pr)
    <3>1. f \in 0..NFILE
      BY <2>1, NoneIsNoFile
    <3> QED BY <1>11, <1>16, <2>1, <2>2, <3>1, TableSet, Zenon
  <2>6. FilesExact(Refs(file'), Table(pr'))
    <3>1. PICK x \in Proc \X Fd : x = <<p, fd>>
      BY <2>1
    <3>2. Table(pr) \in [Proc \X Fd -> 0..NFILE] /\ Table(pr)[x] = None
      BY <1>11, <2>1, <3>1, TableOk
    <3>3. ASSUME NEW g \in File PROVE Refs(file')[g] = Refs(file)[g] + Hold(f, g)
      <4>1. Refs(file)[g] \in Nat /\ Refs(file)[f] = 0
        BY <2>1, RefIsNat
      <4>2. Refs(file')[g] = IF g = f THEN 1 ELSE Refs(file)[g]
        BY <2>4 DEF Refs, With
      <4> QED BY <4>1, <4>2 DEF Hold
    <3>4. FilesExact(Refs(file), Table(pr))
      BY DEF RefInv
    <3>5. FilesExact(Refs(file'), With(Table(pr), x, f))
      BY <2>1, <3>2, <3>3, <3>4, SlotTaken
    <3> QED BY <2>5, <3>1, <3>5
  <2>7. Moves(fs, fs', c.ip, None, None)
    <3>1. Holds(fs, fs1, None, c.ip, None)
      BY <1>3, <1>12, <1>16, IlockHolds
    <3>2. Same(fs1, fs2)
      <4>1. IsFs(fs1)
        BY <3>1 DEF Holds
      <4> QED BY <1>7, <4>1, ItruncSame, SameSelf
    <3>3. Holds(fs, fs2, None, c.ip, None)
      BY <3>1, <3>2, HoldsSame
    <3> QED BY <1>11, <1>16, <3>3, HoldsIsMoves
  <2>8. IsFs(fs') /\ InosExact(fs', Ips(file'), Cwds(pr'))
    <3>1. PICK J : J = Ips(file)
      OBVIOUS
    <3>2. PICK K : K = Ips(file')
      OBVIOUS
    <3>3. IsFile(file[f])
      BY <1>11, <2>1 DEF FilesOk
    <3>4. J[f] = None /\ K[f] = c.ip /\ \A g \in File : g # f => K[g] = J[g]
      BY <2>1, <2>4, <3>1, <3>2, <3>3 DEF Ips, With, IsFile
    <3>5. InosExact(fs, J, Cwds(pr))
      BY <3>1 DEF RefInv
    <3>6. IsFs(fs') /\ InosExact(fs', K, Cwds(pr))
      BY <2>1, <2>7, <3>4, <3>5, FileMove
    <3> QED BY <2>5, <3>2, <3>6
  <2> QED BY <2>4, <2>5, <2>6, <2>8 DEF RefInv
<1> QED BY <1>10, <1>13, <1>14, <1>15, <1>16

\* A step that changes neither a reference nor a descriptor.
SameFiles(fl, fl2) == FilesOk(fl2) /\ Refs(fl2) = Refs(fl) /\ Ips(fl2) = Ips(fl)
SameProcs(tab, tab2) == ProcsOk(tab2) /\ Table(tab2) = Table(tab) /\ Cwds(tab2) = Cwds(tab)

\* Nothing changed.
LEMMA SameTables ==
    ASSUME RefInv
    PROVE  SameFiles(file, file) /\ SameProcs(pr, pr) /\ Neutral(fs, fs) /\ IsFs(fs)
<1>1. IsFs(fs)
  BY DEF RefInv
<1>2. Neutral(fs, fs)
  BY <1>1, HoldsNothing DEF Neutral
<1> QED BY <1>1, <1>2 DEF RefInv, SameFiles, SameProcs

\* A step that changes none of the references keeps the invariant.
LEMMA Quiet ==
    ASSUME RefInv, SameFiles(file, file'), SameProcs(pr, pr'), Neutral(fs, fs')
    PROVE  RefInv'
BY QuietStep DEF SameFiles, SameProcs

\* The offset of a file.
WithOff(fl, f, x) == [fl EXCEPT ![f].off = x]

\* The offset of a file is no reference.
LEMMA OffSame ==
    ASSUME NEW fl, NEW f, NEW x, FilesOk(fl)
    PROVE  SameFiles(fl, WithOff(fl, f, x))
<1>1. PICK t : t = WithOff(fl, f, x)
  OBVIOUS
<1>2. DOMAIN t = File
  BY <1>1 DEF WithOff, FilesOk
<1>3. ASSUME NEW g \in File PROVE IsFile(t[g]) /\ t[g].ref = fl[g].ref /\ t[g].ip = fl[g].ip
  <2>1. IsFile(fl[g])
    BY DEF FilesOk
  <2>2. t[g] = IF g = f THEN [fl[g] EXCEPT !.off = x] ELSE fl[g]
    BY <1>1 DEF WithOff, FilesOk
  <2> QED BY <2>1, <2>2 DEF IsFile, FileFields
<1>4. FilesOk(t)
  BY <1>2, <1>3 DEF FilesOk
<1>5. Refs(t) = Refs(fl) /\ Ips(t) = Ips(fl)
  BY <1>3 DEF Refs, Ips
<1> QED BY <1>1, <1>4, <1>5 DEF SameFiles

\* read().
LEMMA ReadKeeps ==
    ASSUME RefInv, NEW p \in Proc, SysRead(p)
    PROVE  RefInv'
<1>1. PICK f : f = argfd(p, I(p).fd)
  OBVIOUS
<1>2. fs' = fs /\ pr' = pr
  BY DEF SysRead
<1>3. file' = file \/ readInode(p, f)
  BY <1>1 DEF SysRead
<1>4. ASSUME readInode(p, f) PROVE file' = file \/ \E x : file' = WithOff(file, f, x)
  <2>1. PICK k : k = Len(readi(fs, file[f].ip, file[f].off, I(p).n))
    OBVIOUS
  <2>2. file' = file \/ file' = [file EXCEPT ![f].off = @ + k]
    BY <1>4, <2>1 DEF readInode
  <2>3. PICK x : x = file[f].off + k
    OBVIOUS
  <2>4. [file EXCEPT ![f].off = @ + k] = WithOff(file, f, x)
    BY <2>3 DEF WithOff
  <2> QED BY <2>2, <2>4
<1>5. SameFiles(file, file')
  <2>1. FilesOk(file)
    BY DEF RefInv
  <2> QED BY <1>3, <1>4, <2>1, SameTables, OffSame
<1> QED BY <1>2, <1>5, SameTables, Quiet

\* What a process still has to write is a sequence.
LEMMA PartIs ==
    ASSUME NEW p, IsSource(I(p)), MAXWRITE \in Nat
    PROVE  Len(Part(p, MAXWRITE)) \in Nat
<1>1. PICK s, S, d : s = I(p).src /\ S = ToSet(s) /\ d = I(p).done
  OBVIOUS
<1>2. s \in Seq(S) /\ d \in Nat /\ d <= Len(s) /\ Len(s) \in Nat
  BY <1>1 DEF IsSource
<1>3. PICK m : m = Lesser(Len(s), d + MAXWRITE)
  OBVIOUS
<1>4. m \in Nat /\ m <= Len(s)
  BY <1>2, <1>3 DEF Lesser
<1>5. Part(p, MAXWRITE) = SubSeq(s, d + 1, m)
  BY <1>1, <1>3 DEF Part
<1>6. SubSeq(s, d + 1, m) \in Seq(S)
  BY <1>2, <1>4
<1> QED BY <1>5, <1>6

\* write().
LEMMA WriteKeeps ==
    ASSUME RefInv, NEW p \in Proc, SysWrite(p), IsSource(I(p)), MAXWRITE \in Nat
    PROVE  RefInv'
<1>1. PICK f : f = argfd(p, I(p).fd)
  OBVIOUS
<1>2. PICK w : w = writei(fs, file[f].ip, file[f].off, Part(p, MAXWRITE), SourceOk(p))
  OBVIOUS
<1>3. pr' = pr
  BY DEF SysWrite
<1>4. (fs' = fs /\ file' = file) \/ writeInode(p, f, w)
  BY <1>1, <1>2 DEF SysWrite
<1>5. CASE fs' = fs /\ file' = file
  BY <1>3, <1>5, Unmoved
<1>6. CASE writeInode(p, f, w)
  <2>1. fs' = w.fs
    BY <1>6 DEF writeInode
  <2>2. \E x : file' = WithOff(file, f, x)
    <3>1. PICK x : x = IF w.n > 0 THEN file[f].off + w.n ELSE file[f].off
      OBVIOUS
    <3>2. file' = [file EXCEPT ![f].off = IF w.n > 0 THEN @ + w.n ELSE @]
      BY <1>6 DEF writeInode
    <3>3. [file EXCEPT ![f].off = IF w.n > 0 THEN @ + w.n ELSE @] = WithOff(file, f, x)
      BY <3>1 DEF WithOff
    <3> QED BY <3>2, <3>3
  <2>3. SameFiles(file, file')
    <3>1. FilesOk(file)
      BY DEF RefInv
    <3> QED BY <2>2, <3>1, OffSame
  <2>4. Same(fs, w.fs)
    <3>1. Len(Part(p, MAXWRITE)) \in Nat
      BY PartIs
    <3> QED BY <1>2, <3>1, SameTables, WriteiSame
  <2>5. Neutral(fs, fs')
    BY <2>1, <2>4, SameTables, HoldsSame DEF Neutral
  <2> QED BY <1>3, <2>3, <2>5, SameTables, Quiet
<1> QED BY <1>4, <1>5, <1>6

\* link(), unlink(), mkdir() and mknod() give back all that they take.
LEMMA NamesKeep ==
    ASSUME RefInv, NEW p \in Proc, IsPath(I(p).path),
           \/ SysLink(p) /\ IsPath(I(p).new)
           \/ SysUnlink(p)
           \/ SysMkdir(p)
           \/ SysMknod(p)
    PROVE  RefInv'
<1>1. file' = file /\ pr' = pr
  BY DEF SysLink, SysUnlink, SysMkdir, SysMknod, NameCall
<1>2. IsFs(fs)
  BY DEF RefInv
<1>3. CASE SysLink(p) /\ IsPath(I(p).new)
  <2>1. Neutral(fs, sys_link(fs, pr[p].cwd, I(p).path, I(p).new).fs)
    BY <1>2, <1>3, LinkNeutral
  <2>2. Neutral(fs, fs')
    BY <1>3, <2>1 DEF SysLink, NameCall
  <2> QED BY <1>1, <2>2, SameTables, Quiet
<1>4. CASE SysUnlink(p)
  <2>1. Neutral(fs, sys_unlink(fs, pr[p].cwd, I(p).path).fs)
    BY <1>2, UnlinkNeutral
  <2>2. Neutral(fs, fs')
    BY <1>4, <2>1 DEF SysUnlink, NameCall
  <2> QED BY <1>1, <2>2, SameTables, Quiet
<1>5. CASE SysMkdir(p)
  <2>1. Neutral(fs, sys_mkdir(fs, pr[p].cwd, I(p).path).fs)
    BY <1>2, MkdirNeutral
  <2>2. Neutral(fs, fs')
    BY <1>5, <2>1 DEF SysMkdir, NameCall
  <2> QED BY <1>1, <2>2, SameTables, Quiet
<1>6. CASE SysMknod(p)
  <2>1. Neutral(fs, sys_mknod(fs, pr[p].cwd, I(p).path).fs)
    BY <1>2, MkdirNeutral
  <2>2. Neutral(fs, fs')
    BY <1>6, <2>1 DEF SysMknod, NameCall
  <2> QED BY <1>1, <2>2, SameTables, Quiet
<1> QED BY <1>3, <1>4, <1>5, <1>6

\* chdir(): the old directory is given back, the new one held.
LEMMA ChdirKeeps ==
    ASSUME RefInv, NEW p \in Proc, IsPath(I(p).path), SysChdir(p)
    PROVE  RefInv'
<1>1. PICK c : c = sys_chdir(fs, pr[p].cwd, I(p).path)
  OBVIOUS
<1>2. file' = file /\ fs' = c.fs /\ pr' = [pr EXCEPT ![p].cwd = c.cwd] /\ pr[p].st = "live"
  BY <1>1 DEF SysChdir, NameCall, Alive, At
<1>3. ProcsOk(pr) /\ DOMAIN pr = Proc /\ IsProc(pr[p])
  BY DEF RefInv, ProcsOk
<1>4. PICK r : r = [pr[p] EXCEPT !.cwd = c.cwd]
  OBVIOUS
<1>5. pr' = With(pr, p, r)
  BY <1>2, <1>4 DEF With
<1>6. IsProc(r) /\ r.ofile = pr[p].ofile /\ r.cwd = c.cwd
  BY <1>2, <1>3, <1>4 DEF IsProc, ProcFields
<1>7. ProcsOk(pr') /\ Cwds(pr') = With(Cwds(pr), p, c.cwd)
  BY <1>3, <1>5, <1>6, ProcOk
<1>8. Table(pr') = Table(pr)
  <2>1. \A q \in Proc : pr'[q].ofile = pr[q].ofile
    BY <1>3, <1>5, <1>6 DEF With
  <2> QED BY <2>1 DEF Table
<1>9. IsFs(fs') /\ InosExact(fs', Ips(file), Cwds(pr'))
  <2>1. Cwds(pr')[p] = c.cwd /\ Cwds(pr)[p] = pr[p].cwd /\ \A q \in Proc : q # p => Cwds(pr')[q] = Cwds(pr)[q]
    BY <1>7 DEF Cwds, With
  <2>2. Moves(fs, fs', c.cwd, pr[p].cwd, None)
    BY <1>1, <1>2, SameTables, ChdirMoves
  <2>3. Moves(fs, fs', Cwds(pr')[p], Cwds(pr)[p], None)
    BY <2>1, <2>2
  <2>4. InosExact(fs, Ips(file), Cwds(pr))
    BY DEF RefInv
  <2> HIDE <2>2
  <2> QED BY <2>1, <2>3, <2>4, CwdMove
<1>10. FilesOk(file') /\ FilesExact(Refs(file'), Table(pr'))
  BY <1>2, <1>8 DEF RefInv
<1> QED BY <1>2, <1>7, <1>9, <1>10 DEF RefInv

\* The process p becomes r, with the same descriptors and directory.
LEMMA ProcSame ==
    ASSUME NEW tab, NEW p \in Proc, NEW r, ProcsOk(tab), IsProc(r),
           r.cwd = tab[p].cwd, \A fd \in Fd : r.ofile[fd] = tab[p].ofile[fd]
    PROVE  SameProcs(tab, With(tab, p, r))
<1>1. PICK t : t = With(tab, p, r)
  OBVIOUS
<1>2. ProcsOk(t)
  BY <1>1, ProcOk
<1>3. ASSUME NEW q \in Proc PROVE t[q].cwd = tab[q].cwd /\ \A fd \in Fd : t[q].ofile[fd] = tab[q].ofile[fd]
  <2>1. t[q] = IF q = p THEN r ELSE tab[q]
    BY <1>1 DEF With, ProcsOk
  <2> QED BY <2>1
<1>4. Cwds(t) = Cwds(tab)
  BY <1>3 DEF Cwds
<1>5. Table(t) = Table(tab)
  BY <1>3, TableEqual
<1> QED BY <1>1, <1>2, <1>4, <1>5 DEF SameProcs

\* The memory of a process is no reference.
LEMMA MemorySame ==
    ASSUME NEW tab, NEW p \in Proc, NEW a, NEW b, ProcsOk(tab)
    PROVE  SameProcs(tab, [tab EXCEPT ![p].sz = a, ![p].low = b])
<1>1. PICK r : r = [tab[p] EXCEPT !.sz = a, !.low = b]
  OBVIOUS
<1>2. IsProc(tab[p]) /\ DOMAIN tab = Proc
  BY DEF ProcsOk
<1>3. IsProc(r) /\ r.cwd = tab[p].cwd /\ \A fd \in Fd : r.ofile[fd] = tab[p].ofile[fd]
  BY <1>1, <1>2 DEF IsProc, ProcFields
<1>4. SameProcs(tab, With(tab, p, r))
  BY <1>3, ProcSame
<1>5. [tab EXCEPT ![p].sz = a, ![p].low = b] = With(tab, p, r)
  BY <1>1, <1>2 DEF With
<1> QED BY <1>4, <1>5

\* sbrk().
LEMMA SbrkKeeps ==
    ASSUME RefInv, NEW p \in Proc, SysSbrk(p)
    PROVE  RefInv'
<1>1. PICK m : m = growproc(free, pr[p].low, pr[p].sz, I(p).n)
  OBVIOUS
<1>2. PICK t : t = [pr EXCEPT ![p].sz = m.sz, ![p].low = m.low]
  OBVIOUS
<1>3. pr' = t /\ file' = file /\ fs' = fs
  BY <1>1, <1>2 DEF SysSbrk
<1>4. SameProcs(pr, t)
  BY <1>2, MemorySame DEF RefInv
<1> QED BY <1>3, <1>4, SameTables, Quiet

\* kill().
LEMMA KillKeeps ==
    ASSUME RefInv, NEW p \in Proc, SysKill(p)
    PROVE  RefInv'
<1>1. PICK q : q = us[p].reg[I(p).pid]
  OBVIOUS
<1>2. file' = file /\ fs' = fs
  BY DEF SysKill
<1>3. pr' = pr \/ (q \in Proc /\ pr' = [pr EXCEPT ![q].killed = TRUE])
  BY <1>1 DEF SysKill
<1>4. CASE pr' = pr
  BY <1>2, <1>4, Unmoved
<1>5. CASE q \in Proc /\ pr' = [pr EXCEPT ![q].killed = TRUE]
  <2>1. PICK r : r = [pr[q] EXCEPT !.killed = TRUE]
    OBVIOUS
  <2>2. IsProc(pr[q]) /\ DOMAIN pr = Proc /\ ProcsOk(pr)
    BY <1>5 DEF ProcsOk, RefInv
  <2>3. IsProc(r) /\ r.cwd = pr[q].cwd /\ \A fd \in Fd : r.ofile[fd] = pr[q].ofile[fd]
    BY <2>1, <2>2 DEF IsProc, ProcFields
  <2>4. pr' = With(pr, q, r)
    BY <1>5, <2>1 DEF With
  <2>5. SameProcs(pr, pr')
    <3>1. PICK tab : tab = pr
      OBVIOUS
    <3>2. q \in Proc /\ ProcsOk(tab) /\ IsProc(r) /\ r.cwd = tab[q].cwd /\ \A fd \in Fd : r.ofile[fd] = tab[q].ofile[fd]
      BY <1>5, <2>2, <2>3, <3>1
    <3>3. SameProcs(tab, With(tab, q, r))
      BY <3>2, ProcSame, Zenon
    <3> QED BY <2>4, <3>1, <3>3
  <2> QED BY <1>2, <2>5, SameTables, Quiet
<1> QED BY <1>3, <1>4, <1>5

\* A free process.
LEMMA NoProcOk ==
    IsProc(NoProc) /\ NoProc.cwd = None /\ \A fd \in Fd : NoProc.ofile[fd] = None
<1>1. None \in 0..NFILE
  BY KernelAssumption DEF None
<1>2. DOMAIN NoProc = ProcFields /\ NoProc.cwd = None /\ NoProc.ofile = [fd \in Fd |-> None]
  BY DEF NoProc, ProcFields
<1> QED BY <1>1, <1>2 DEF IsProc

\* wait(): the process freed is a zombie, which holds nothing.
LEMMA WaitKeeps ==
    ASSUME RefInv, NEW p \in Proc, SysWait(p)
    PROVE  RefInv'
<1>1. PICK dead : dead = {q \in {x \in Proc : pr[x].st # "unused" /\ pr[x].parent = p} : pr[q].st = "zombie"}
  OBVIOUS
<1>2. PICK q : q = Smallest(dead)
  OBVIOUS
<1>3. file' = file /\ fs' = fs
  BY DEF SysWait
<1>4. pr' = pr \/ (dead # {} /\ pr' = With(pr, q, NoProc))
  BY <1>1, <1>2 DEF SysWait, With
<1>5. CASE pr' = pr
  BY <1>3, <1>5, Unmoved
<1>6. CASE dead # {} /\ pr' = With(pr, q, NoProc)
  <2>1. dead \subseteq Nat
    BY <1>1 DEF Proc
  <2>2. q \in dead
    BY <1>2, <1>6, <2>1, SmallestIn
  <2>3. q \in Proc /\ pr[q].st = "zombie" /\ ProcsOk(pr)
    BY <1>1, <2>2 DEF RefInv
  <2>4. pr[q].cwd = None /\ \A fd \in Fd : pr[q].ofile[fd] = None
    BY <2>3 DEF ProcsOk, IsProc
  <2>5. SameProcs(pr, pr')
    BY <1>6, <2>3, <2>4, NoProcOk, ProcSame
  <2> QED BY <1>3, <2>5, SameTables, Quiet
<1> QED BY <1>4, <1>5, <1>6

\* exec() gives back the inode of the program.
LEMMA ExecKeeps ==
    ASSUME RefInv, NEW p \in Proc, IsPath(I(p).path), SysExec(p)
    PROVE  RefInv'
<1>1. PICK n : n = namei(fs, pr[p].cwd, I(p).path)
  OBVIOUS
<1>2. file' = file
  BY DEF SysExec
<1>3. fs' = fs \/ (n.ip = None /\ fs' = n.fs) \/ fs' = iput(ilock(n.fs, n.ip), n.ip)
  BY <1>1 DEF SysExec
<1>4. pr' = pr \/ \E a, b : pr' = [pr EXCEPT ![p].sz = a, ![p].low = b]
  BY SMTT(30) DEF SysExec
<1>5. SameProcs(pr, pr')
  <2>1. ProcsOk(pr)
    BY DEF RefInv
  <2>2. CASE pr' = pr
    BY <2>2, SameTables
  <2>3. CASE \E a, b : pr' = [pr EXCEPT ![p].sz = a, ![p].low = b]
    <3>1. PICK a, b : pr' = [pr EXCEPT ![p].sz = a, ![p].low = b]
      BY <2>3
    <3>2. SameProcs(pr, [pr EXCEPT ![p].sz = a, ![p].low = b])
      BY <2>1, MemorySame
    <3> QED BY <3>1, <3>2
  <2> QED BY <1>4, <2>2, <2>3
<1>6. Neutral(fs, fs')
  <2>1. Holds(fs, n.fs, None, n.ip, None)
    BY <1>1, SameTables, NameiHolds
  <2>2. Holds(fs, ilock(n.fs, n.ip), None, n.ip, None)
    BY <2>1, IlockHolds
  <2>3. Holds(fs, iput(ilock(n.fs, n.ip), n.ip), None, None, None)
    BY <2>2, SameTables, HoldsSwap, IputHolds
  <2> QED BY <1>3, <2>1, <2>3, SameTables DEF Neutral
<1> QED BY <1>2, <1>5, <1>6, SameTables, Quiet

\* The calls that touch none of the tables.
LEMMA OthersKeep ==
    ASSUME RefInv, NEW p \in Proc,
           \/ SysFstat(p)
           \/ SysSleep(p)
           \/ SysGetpid(p)
           \/ UserChoose(p)
    PROVE  RefInv'
<1>1. UNCHANGED <<file, pr, fs>>
  BY DEF SysFstat, SysSleep, SysGetpid, UserChoose
<1> QED BY <1>1, Unmoved

\* The ways to exit().
LEMMA EndsKeep ==
    ASSUME RefInv, PipeInv, NEW p \in Proc,
           \/ SysExit(p)
           \/ SysExitReg(p)
           \/ Die(p)
           \/ UserTouch(p)
    PROVE  RefInv' /\ PipeInv' /\ Pool(free', pipe') = Pool(free, pipe)
<1>1. (\E status : exit(p, status)) \/ (UNCHANGED <<file, pr, fs>> /\ UNCHANGED <<pipe, free>>)
  BY DEF SysExit, SysExitReg, Die, UserTouch
<1>2. ASSUME UNCHANGED <<file, pr, fs>>, UNCHANGED <<pipe, free>>
      PROVE  RefInv' /\ PipeInv' /\ Pool(free', pipe') = Pool(free, pipe)
  BY <1>2, Unmoved DEF PipeInv
<1> QED BY <1>1, <1>2, ExitKeeps

\* A set of two elements has one more.
LEMMA TwoOf ==
    ASSUME NEW S, IsFiniteSet(S), ~(Cardinality(S) < 2), NEW x
    PROVE  S # {} /\ S \ {x} # {}
<1>1. Cardinality({}) = 0 /\ Cardinality({x}) = 1
  BY FS_EmptySet, FS_Singleton
<1>2. S # {}
  BY <1>1
<1>3. ASSUME S \ {x} = {} PROVE FALSE
  <2>1. S = {x}
    BY <1>2, <1>3
  <2> QED BY <1>1, <2>1
<1> QED BY <1>2, <1>3

\* The first and the second free slot.
LEMMA TwoSlots ==
    ASSUME NEW S, S \subseteq Nat, IsFiniteSet(S), ~(Cardinality(S) < 2)
    PROVE  Smallest(S) \in S /\ Smallest(S \ {Smallest(S)}) \in S /\ Smallest(S \ {Smallest(S)}) # Smallest(S)
<1>1. PICK x : x = Smallest(S)
  OBVIOUS
<1>2. S # {} /\ S \ {x} # {}
  BY TwoOf
<1>3. S \ {x} \subseteq Nat
  OBVIOUS
<1>4. x \in S /\ Smallest(S \ {x}) \in S \ {x}
  BY <1>1, <1>2, <1>3, SmallestIn
<1> QED BY <1>1, <1>4

\* The slots of a process and of the file table that are free.
LEMMA TwoFree ==
    ASSUME NEW p \in Proc, ~(Cardinality(freeFds(p)) < 2), ~(Cardinality(freeFiles) < 2),
           NEW d0, NEW d1, d0 = Smallest(freeFds(p)), d1 = Smallest(freeFds(p) \ {d0}),
           NEW f0, NEW f1, f0 = Smallest(freeFiles), f1 = Smallest(freeFiles \ {f0})
    PROVE  /\ {d0, d1} \subseteq Fd /\ d0 # d1 /\ pr[p].ofile[d0] = None /\ pr[p].ofile[d1] = None
           /\ {f0, f1} \subseteq File /\ f0 # f1 /\ file[f0].ref = 0 /\ file[f1].ref = 0
<1>1. freeFds(p) \subseteq Nat /\ freeFiles \subseteq Nat /\ freeFds(p) \subseteq Fd /\ freeFiles \subseteq File
  BY KernelAssumption DEF freeFds, freeFiles, Fd, File
<1>2. IsFiniteSet(Fd) /\ IsFiniteSet(File)
  <2>1. 0 \in Int /\ NOFILE - 1 \in Int
    BY KernelAssumption
  <2> QED BY <2>1, Slots, FS_Interval DEF Fd
<1>3. IsFiniteSet(freeFds(p)) /\ IsFiniteSet(freeFiles)
  BY <1>1, <1>2, FS_Subset
<1>4. d0 \in freeFds(p) /\ d1 \in freeFds(p) /\ d1 # d0
  BY <1>1, <1>3, TwoSlots
<1>5. f0 \in freeFiles /\ f1 \in freeFiles /\ f1 # f0
  BY <1>1, <1>3, TwoSlots
<1> QED BY <1>1, <1>4, <1>5 DEF freeFds, freeFiles

\* Two entries are free: then so is a pipe, since each pipe has an entry.
LEMMA PipeFree ==
    ASSUME FilesOk(file), PipeInv, ~(Cardinality(freeFiles) < 2),
           NEW q, q = Smallest({x \in Pipe : ~pipe[x].open})
    PROVE  q \in Pipe /\ ~pipe[q].open
<1>1. PICK S : S = {x \in Pipe : ~pipe[x].open}
  OBVIOUS
<1>2. NPIPE \in Nat /\ NFILE \in Nat /\ 1 \in Int /\ NFILE >= 1 /\ NPIPE >= NFILE - 1
  BY KernelAssumption
<1>3. S \subseteq Nat
  BY <1>1, <1>2 DEF Pipe
<1>4. ASSUME S = {} PROVE FALSE
  <2>1. PICK U : U = {f \in File : file[f].type = "pipe"}
    OBVIOUS
  <2>2. PICK g : g = [f \in U |-> file[f].pipe]
    OBVIOUS
  <2>3. \A f \in U : f \in File /\ file[f].pipe \in Pipe /\ file[f].ref # 0
    BY <2>1 DEF FilesOk, IsFile
  <2>4. ASSUME NEW x \in Pipe PROVE \E f \in U : g[f] = x
    <3>1. x # None
      BY <1>2 DEF Pipe, None
    <3>2. pipe[x].open
      BY <1>1, <1>4
    <3>3. PICK f \in File : Readers(file)[f] = x \/ Writers(file)[f] = x
      BY <3>2 DEF PipeInv, PipesOk
    <3>4. file[f].type = "pipe" /\ file[f].pipe = x
      BY <3>1, <3>3 DEF Readers, Writers
    <3> QED BY <2>1, <2>2, <3>4
  <2>5. g \in Surjection(U, Pipe)
    <3>1. g \in [U -> Pipe]
      BY <2>2, <2>3
    <3> QED BY <2>4, <3>1 DEF Surjection
  <2>6. IsFiniteSet(File) /\ Cardinality(File) = NFILE /\ Cardinality(Pipe) = NPIPE
    <3>1. Cardinality(File) = IF 1 > NFILE THEN 0 ELSE NFILE - 1 + 1
      BY <1>2, FS_Interval DEF File
    <3>2. Cardinality(Pipe) = IF 1 > NPIPE THEN 0 ELSE NPIPE - 1 + 1
      BY <1>2, FS_Interval DEF Pipe
    <3> QED BY <1>2, <3>1, <3>2, Slots
  <2>7. freeFiles \subseteq File /\ U \subseteq File \ freeFiles
    BY <2>1, <2>3 DEF freeFiles
  <2>8. IsFiniteSet(File \ freeFiles) /\ Cardinality(File \ freeFiles) = Cardinality(File) - Cardinality(freeFiles)
    <3>1. File \cap freeFiles = freeFiles
      BY <2>7
    <3> QED BY <2>6, <3>1, FS_Difference
  <2>9. IsFiniteSet(U) /\ Cardinality(U) <= Cardinality(File \ freeFiles) /\ Cardinality(U) \in Nat
    BY <2>7, <2>8, FS_Subset, FS_CardinalityType
  <2>10. Cardinality(Pipe) <= Cardinality(U)
    BY <2>5, <2>9, FS_Surjection
  <2>11. Cardinality(freeFiles) \in Nat
    BY <2>6, <2>7, FS_Subset, FS_CardinalityType
  <2> QED BY <1>2, <2>6, <2>8, <2>9, <2>10, <2>11
<1>5. q \in S
  BY <1>1, <1>3, <1>4, SmallestIn
<1> QED BY <1>1, <1>5

\* pipe(): two descriptors, two entries, each with one reference.
LEMMA PipeKeeps ==
    ASSUME RefInv, PipeInv, NEW p \in Proc, SysPipe(p)
    PROVE  RefInv'
<1>1. PICK f0, d0 : f0 = Smallest(freeFiles) /\ d0 = Smallest(freeFds(p))
  OBVIOUS
<1>2. PICK f1, d1 : f1 = Smallest(freeFiles \ {f0}) /\ d1 = Smallest(freeFds(p) \ {d0})
  OBVIOUS
<1>3. PICK q : q = Smallest({x \in Pipe : ~pipe[x].open})
  OBVIOUS
<1>4. PICK e0, e1 : /\ e0 = [ref |-> 1, type |-> "pipe", r |-> TRUE, w |-> FALSE, ip |-> None, off |-> 0, pipe |-> q]
                    /\ e1 = [ref |-> 1, type |-> "pipe", r |-> FALSE, w |-> TRUE, ip |-> None, off |-> 0, pipe |-> q]
  OBVIOUS
<1>5. fs' = fs /\ pr[p].st = "live"
  BY DEF SysPipe, Alive, At
<1>6. PICK error : error = (\/ Cardinality(freeFiles) < 2 \/ free = 0 \/ Cardinality(freeFds(p)) < 2
                            \/ ~userRange(pr[p].sz, I(p).va, 2))
  OBVIOUS
<1>7. CASE error
  BY <1>5, <1>6, <1>7, Unmoved DEF SysPipe
<1>8. CASE ~error
  <2>1. /\ file' = [file EXCEPT ![f0] = e0, ![f1] = e1]
        /\ pr' = [pr EXCEPT ![p].ofile[d0] = f0, ![p].ofile[d1] = f1]
    BY <1>1, <1>2, <1>3, <1>4, <1>6, <1>8 DEF SysPipe, pipealloc
  <2>2. /\ d0 \in Fd /\ d1 \in Fd /\ d0 # d1 /\ pr[p].ofile[d0] = None /\ pr[p].ofile[d1] = None
        /\ f0 \in File /\ f1 \in File /\ f0 # f1 /\ file[f0].ref = 0 /\ file[f1].ref = 0
    <3>1. ~(Cardinality(freeFds(p)) < 2) /\ ~(Cardinality(freeFiles) < 2)
      BY <1>6, <1>8
    <3> QED BY <1>1, <1>2, <3>1, TwoFree
  <2>3. PICK fl : fl = With(file, f0, e0)
    OBVIOUS
  <2>4. PICK tab : tab = WithFd(pr, p, d0, f0)
    OBVIOUS
  <2>5. file' = With(fl, f1, e1) /\ pr' = WithFd(tab, p, d1, f1)
    BY <2>1, <2>3, <2>4 DEF With, WithFd
  <2>6. IsFile(e0) /\ e0.ref = 1 /\ e0.ip = None /\ IsFile(e1) /\ e1.ref = 1 /\ e1.ip = None
    <3>1. FilesOk(file) /\ ~(Cardinality(freeFiles) < 2)
      BY <1>6, <1>8 DEF RefInv
    <3>2. q \in Pipe
      BY <1>3, <3>1, PipeFree
    <3> QED BY <1>4, <3>2 DEF IsFile, FileFields
  <2>7. FilesOk(file) /\ ProcsOk(pr)
    BY DEF RefInv
  <2>8. FilesOk(fl) /\ Refs(fl) = With(Refs(file), f0, 1) /\ Ips(fl) = With(Ips(file), f0, None)
    BY <2>2, <2>3, <2>6, <2>7, EntryOk
  <2>9. FilesOk(file') /\ Refs(file') = With(Refs(fl), f1, 1) /\ Ips(file') = With(Ips(fl), f1, None)
    BY <2>2, <2>5, <2>6, <2>8, EntryOk
  <2>10. f0 \in 0..NFILE /\ f1 \in 0..NFILE
    BY <2>2, NoneIsNoFile
  <2>11. ProcsOk(tab) /\ Table(tab) = With(Table(pr), <<p, d0>>, f0) /\ Cwds(tab) = Cwds(pr)
    BY <1>5, <2>2, <2>4, <2>7, <2>10, TableSet, Zenon
  <2>12. tab[p].st = "live" /\ DOMAIN pr = Proc /\ DOMAIN pr[p] = ProcFields
    <3>1. DOMAIN pr = Proc /\ DOMAIN pr[p] = ProcFields
      BY <2>7 DEF ProcsOk, IsProc
    <3> QED BY <1>5, <2>4, <3>1 DEF WithFd
  <2>13. ProcsOk(pr') /\ Table(pr') = With(Table(tab), <<p, d1>>, f1) /\ Cwds(pr') = Cwds(tab)
    BY <2>2, <2>5, <2>10, <2>11, <2>12, TableSet, Zenon
  <2>14. Ips(file') = Ips(file)
    <3>1. IsFile(file[f0]) /\ IsFile(file[f1])
      BY <2>2, <2>7 DEF FilesOk
    <3>2. Ips(file)[f0] = None /\ Ips(file)[f1] = None
      BY <2>2, <3>1 DEF IsFile, Ips
    <3>3. PICK J : J = Ips(file)
      OBVIOUS
    <3>4. DOMAIN J = File /\ J = [f \in File |-> J[f]]
      BY <3>3 DEF Ips
    <3> QED BY <2>8, <2>9, <3>2, <3>3, <3>4 DEF With
  <2>15. FilesExact(Refs(file'), Table(pr'))
    <3>1. PICK x, y \in Proc \X Fd : x = <<p, d0>> /\ y = <<p, d1>>
      BY <2>2
    <3>2. x # y
      BY <2>2, <3>1
    <3>3. PICK D, E : D = Table(pr) /\ E = With(D, x, f0)
      OBVIOUS
    <3>4. D \in [Proc \X Fd -> 0..NFILE] /\ D[x] = None /\ D[y] = None
      BY <2>2, <2>7, <3>1, <3>3, TableOk
    <3>5. E \in [Proc \X Fd -> 0..NFILE] /\ E[y] = None
      BY <2>10, <3>2, <3>3, <3>4 DEF With
    <3>6. FilesExact(Refs(fl), E)
      <4>1. ASSUME NEW g \in File PROVE Refs(fl)[g] = Refs(file)[g] + Hold(f0, g)
        <5>1. Refs(file)[g] \in Nat /\ Refs(file)[f0] = 0
          BY <2>2, RefIsNat
        <5>2. Refs(fl)[g] = IF g = f0 THEN 1 ELSE Refs(file)[g]
          BY <2>8 DEF Refs, With
        <5> QED BY <5>1, <5>2 DEF Hold
      <4>2. FilesExact(Refs(file), D)
        BY <3>3 DEF RefInv
      <4> QED BY <2>2, <3>3, <3>4, <4>1, <4>2, SlotTaken
    <3>7. FilesExact(Refs(file'), With(E, y, f1))
      <4>1. ASSUME NEW g \in File PROVE Refs(file')[g] = Refs(fl)[g] + Hold(f1, g)
        <5>1. Refs(file)[g] \in Nat /\ Refs(file)[f1] = 0
          BY <2>2, RefIsNat
        <5>2. \A h \in File : Refs(fl)[h] = IF h = f0 THEN 1 ELSE Refs(file)[h]
          BY <2>8 DEF Refs, With
        <5>3. Refs(file')[g] = IF g = f1 THEN 1 ELSE Refs(fl)[g]
          BY <2>9 DEF Refs, With
        <5>4. Refs(fl)[f1] = 0 /\ Refs(fl)[g] \in Nat
          BY <2>2, <5>1, <5>2
        <5> QED BY <5>3, <5>4 DEF Hold
      <4> QED BY <2>2, <3>5, <3>6, <4>1, SlotTaken
    <3> QED BY <2>11, <2>13, <3>1, <3>3, <3>7
  <2>16. IsFs(fs') /\ InosExact(fs', Ips(file'), Cwds(pr'))
    BY <1>5, <2>11, <2>13, <2>14 DEF RefInv
  <2> QED BY <2>9, <2>13, <2>15, <2>16 DEF RefInv
<1> QED BY <1>7, <1>8

\* Two sets apart.
LEMMA UnionCount ==
    ASSUME NEW X, NEW Y, IsFiniteSet(X), IsFiniteSet(Y), X \cap Y = {}
    PROVE  Cardinality(X \cup Y) = Cardinality(X) + Cardinality(Y)
<1>1. Cardinality(X) \in Nat /\ Cardinality(Y) \in Nat
  BY FS_CardinalityType
<1>2. Cardinality(X \cup Y) = Cardinality(X) + Cardinality(Y) - Cardinality(X \cap Y)
  BY FS_Union
<1>3. Cardinality(X \cap Y) = 0
  BY FS_EmptySet
<1> QED BY <1>1, <1>2, <1>3

\* The child q has the descriptors of p, so each file counts them once more.
CopiedRow(D, E, p, q) == \A x \in Proc \X Fd : E[x] = IF x[1] = q THEN D[<<p, x[2]>>] ELSE D[x]
RowOn(D, p, f) == {fd \in Fd : D[<<p, fd>>] = f}

\* fork() copies a row of descriptors: a file occurs as often again as in the row.
LEMMA RowAdded ==
    ASSUME NEW D, NEW E, NEW p \in Proc, NEW q \in Proc, NEW f, p # q, CopiedRow(D, E, p, q), RowOn(D, q, f) = {}
    PROVE  Cardinality(At_(E, Proc \X Fd, f)) = Cardinality(At_(D, Proc \X Fd, f)) + Cardinality(RowOn(D, p, f))
<1>0. \A fd \in Fd : D[<<q, fd>>] # f
  BY DEF RowOn
<1>1. PICK A : A = {fd \in Fd : D[<<p, fd>>] = f}
  OBVIOUS
<1>11. RowOn(D, p, f) = A
  BY <1>1 DEF RowOn
<1>2. At_(E, Proc \X Fd, f) = At_(D, Proc \X Fd, f) \cup ({q} \X A)
  <2>1. ASSUME NEW x \in Proc \X Fd
        PROVE  E[x] = f <=> D[x] = f \/ x \in {q} \X A
    <3>1. PICK a \in Proc, fd \in Fd : x = <<a, fd>>
      OBVIOUS
    <3>2. E[x] = IF a = q THEN D[<<p, fd>>] ELSE D[x]
      BY <3>1 DEF CopiedRow
    <3>3. x \in {q} \X A <=> a = q /\ D[<<p, fd>>] = f
      BY <1>1, <3>1
    <3>4. a = q => D[x] # f
      BY <1>0, <3>1
    <3> QED BY <3>2, <3>3, <3>4
  <2>2. {q} \X A \subseteq Proc \X Fd
    BY <1>1
  <2> QED BY <2>1, <2>2 DEF At_
<1>3. At_(D, Proc \X Fd, f) \cap ({q} \X A) = {}
  BY <1>0, <1>1 DEF At_
<1>4. IsFiniteSet(A)
  <2>1. 0 \in Int /\ NOFILE - 1 \in Int
    BY KernelAssumption
  <2>2. IsFiniteSet(Fd)
    BY <2>1, FS_Interval DEF Fd
  <2> QED BY <1>1, <2>2, FS_Subset
<1>5. IsFiniteSet({q} \X A) /\ Cardinality({q} \X A) = Cardinality(A)
  <2>1. IsFiniteSet({q}) /\ Cardinality({q}) = 1
    BY FS_Singleton
  <2>2. IsFiniteSet({q} \X A) /\ Cardinality({q} \X A) = Cardinality({q}) * Cardinality(A)
    BY <1>4, <2>1, FS_Product
  <2>3. Cardinality(A) \in Nat
    BY <1>4, FS_CardinalityType
  <2> QED BY <2>1, <2>2, <2>3
<1>6. IsFiniteSet(At_(D, Proc \X Fd, f)) /\ Cardinality(At_(D, Proc \X Fd, f)) \in Nat
  BY Slots, CountIsNat
<1>7. PICK X, Y : X = At_(D, Proc \X Fd, f) /\ Y = {q} \X A
  OBVIOUS
<1>8. IsFiniteSet(X) /\ IsFiniteSet(Y) /\ X \cap Y = {} /\ At_(E, Proc \X Fd, f) = X \cup Y
  BY <1>2, <1>3, <1>5, <1>6, <1>7, Zenon
<1>9. Cardinality(X \cup Y) = Cardinality(X) + Cardinality(Y)
  BY <1>8, UnionCount, Zenon
<1> QED BY <1>5, <1>7, <1>8, <1>9, <1>11, Zenon

\* fork(): the child has the files and the directory of its parent, filedup() and idup() count them.
LEMMA ForkKeeps ==
    ASSUME RefInv, NEW p \in Proc, SysFork(p)
    PROVE  RefInv'
<1>1. PICK unused : unused = {q \in Proc : pr[q].st = "unused"}
  OBVIOUS
<1>2. PICK q : q = Smallest(unused)
  OBVIOUS
<1>3. PICK m : m = forkMem(free, pr[p].sz)
  OBVIOUS
<1>4. PICK error : error = (unused = {} \/ ~m.ok)
  OBVIOUS
<1>5. pr[p].st = "live"
  BY DEF SysFork, Alive, At
<1>6. CASE error
  BY <1>1, <1>3, <1>4, <1>6, Unmoved DEF SysFork
<1>7. CASE ~error
  <2> DEFINE copies(f) == Cardinality({fd \in Fd : pr[p].ofile[fd] = f})
  <2>1. PICK r : r = [pr[p] EXCEPT !.parent = p, !.low = m.low, !.killed = FALSE, !.xst = 0]
    OBVIOUS
  <2>2. /\ file' = [f \in File |-> [file[f] EXCEPT !.ref = @ + copies(f)]]
        /\ fs' = iget(fs, pr[p].cwd)
        /\ pr' = With(pr, q, r)
    BY <1>1, <1>2, <1>3, <1>4, <1>7, <2>1 DEF SysFork, With
  <2>3. q \in Proc /\ pr[q].st = "unused" /\ q # p
    <3>1. unused \subseteq Nat
      BY <1>1 DEF Proc
    <3>2. q \in unused
      BY <1>2, <1>4, <1>7, <3>1, SmallestIn
    <3> QED BY <1>1, <1>5, <3>2
  <2>4. ProcsOk(pr) /\ DOMAIN pr = Proc /\ IsProc(pr[p]) /\ IsProc(pr[q]) /\ FilesOk(file)
    BY <2>3 DEF RefInv, ProcsOk
  <2>5. pr[q].cwd = None /\ \A fd \in Fd : pr[q].ofile[fd] = None
    BY <2>3, <2>4 DEF IsProc
  <2>6. IsProc(r) /\ r.cwd = pr[p].cwd /\ r.ofile = pr[p].ofile
    BY <1>5, <2>1, <2>4 DEF IsProc, ProcFields
  <2>7. ProcsOk(pr') /\ Cwds(pr') = With(Cwds(pr), q, pr[p].cwd)
    BY <2>2, <2>3, <2>4, <2>6, ProcOk
  <2>8. ASSUME NEW f \in File
        PROVE  copies(f) \in Nat /\ IsFile(file'[f]) /\ file'[f].ref = file[f].ref + copies(f) /\ file'[f].ip = file[f].ip
    <3>1. copies(f) \in Nat
      <4>1. 0 \in Int /\ NOFILE - 1 \in Int
        BY KernelAssumption
      <4>2. IsFiniteSet(Fd)
        BY <4>1, FS_Interval DEF Fd
      <4> QED BY <4>2, FS_Subset, FS_CardinalityType
    <3>2. file[f].ref \in Nat /\ IsFile(file[f])
      BY RefIsNat
    <3>3. PICK k : k = copies(f)
      OBVIOUS
    <3>4. file'[f] = [file[f] EXCEPT !.ref = @ + k]
      BY <2>2, <3>3
    <3> HIDE DEF copies
    <3> QED BY <3>1, <3>2, <3>3, <3>4 DEF IsFile, FileFields
  <2>9. FilesOk(file') /\ Ips(file') = Ips(file)
    <3>1. DOMAIN file' = File
      BY <2>2
    <3> QED BY <2>8, <3>1 DEF FilesOk, Ips
  <2>10. FilesExact(Refs(file'), Table(pr'))
    <3> SUFFICES ASSUME NEW f \in File PROVE Refs(file')[f] = Cardinality(At_(Table(pr'), Proc \X Fd, f))
      BY DEF FilesExact
    <3>1. PICK D, E : D = Table(pr) /\ E = Table(pr')
      OBVIOUS
    <3>2. \A a \in Proc, fd \in Fd : D[<<a, fd>>] = pr[a].ofile[fd] /\ E[<<a, fd>>] = pr'[a].ofile[fd]
      BY <3>1 DEF Table
    <3>3. \A a \in Proc : pr'[a] = IF a = q THEN r ELSE pr[a]
      BY <2>2, <2>4 DEF With
    <3>4. ASSUME NEW x \in Proc \X Fd PROVE E[x] = IF x[1] = q THEN D[<<p, x[2]>>] ELSE D[x]
      <4>1. PICK a \in Proc, fd \in Fd : x = <<a, fd>>
        OBVIOUS
      <4>2. E[x] = pr'[a].ofile[fd] /\ D[x] = pr[a].ofile[fd] /\ D[<<p, fd>>] = pr[p].ofile[fd]
        BY <3>2, <4>1
      <4> QED BY <2>6, <3>3, <4>1, <4>2
    <3>5. \A fd \in Fd : D[<<q, fd>>] # f
      BY <2>3, <2>5, <3>2, NoneIsNoFile
    <3>6. Cardinality(At_(E, Proc \X Fd, f)) = Cardinality(At_(D, Proc \X Fd, f)) + Cardinality(RowOn(D, p, f))
      <4>1. p # q /\ q \in Proc
        BY <2>3
      <4>2. CopiedRow(D, E, p, q)
        BY <3>4 DEF CopiedRow
      <4>3. RowOn(D, q, f) = {}
        BY <3>5 DEF RowOn
      <4> HIDE DEF copies
      <4> QED BY <4>1, <4>2, <4>3, RowAdded
    <3>7. RowOn(D, p, f) = {fd \in Fd : pr[p].ofile[fd] = f}
      BY <3>2 DEF RowOn
    <3>8. Refs(file)[f] = Cardinality(At_(D, Proc \X Fd, f)) /\ Refs(file)[f] = file[f].ref /\ Refs(file')[f] = file'[f].ref
      BY <3>1 DEF RefInv, FilesExact, Refs
    <3>9. Cardinality(RowOn(D, p, f)) = copies(f)
      BY <3>7
    <3> HIDE DEF copies
    <3> QED BY <2>8, <3>1, <3>6, <3>8, <3>9
  <2>11. IsFs(fs') /\ InosExact(fs', Ips(file'), Cwds(pr'))
    <3>1. Cwds(pr')[q] = pr[p].cwd /\ Cwds(pr)[q] = None /\ \A a \in Proc : a # q => Cwds(pr')[a] = Cwds(pr)[a]
      BY <2>3, <2>5, <2>7 DEF Cwds, With
    <3>2. Moves(fs, fs', pr[p].cwd, None, None)
      BY <2>2, SameTables, IgetMoves
    <3>3. Moves(fs, fs', Cwds(pr')[q], Cwds(pr)[q], None)
      BY <3>1, <3>2
    <3>4. InosExact(fs, Ips(file'), Cwds(pr))
      BY <2>9 DEF RefInv
    <3> HIDE <3>2
    <3> QED BY <2>3, <3>1, <3>3, <3>4, CwdMove
  <2> QED BY <2>7, <2>9, <2>10, <2>11 DEF RefInv
<1> QED BY <1>6, <1>7

---------------------------------------------------------------------------
(* The machine that boots.                                                 *)

\* The tables of a machine that boots: init, and in a machine with a console the shell that it runs.
LEMMA BootTables ==
    ASSUME NEW machine, Boot(machine)
    PROVE  \E n \in {1, 2} :
             /\ IsFs(fs) /\ fs.panic = ""
             /\ \A i \in Inum : fs.ref[i] = IF i = ROOTINO THEN n ELSE IF i = 2 THEN n - 1 ELSE 0
             /\ FilesOk(file)
             /\ \A f \in File : /\ file[f].ref = IF f = 1 /\ n = 2 THEN 6 ELSE 0
                                /\ file[f].ip = IF f = 1 /\ n = 2 THEN 2 ELSE None
             /\ ProcsOk(pr)
             /\ \A p \in Proc : /\ pr[p].cwd = IF p <= n THEN ROOTINO ELSE None
                                /\ \A fd \in Fd : pr[p].ofile[fd] = IF p <= n /\ fd <= 2 /\ n = 2 THEN 1 ELSE None
<1> DEFINE n == IF machine.fresh THEN 1 ELSE 2
<1>2. n \in {1, 2} /\ n \in Int /\ n - 1 \in Int
  OBVIOUS
<1>3. PICK O : O = [fd \in Fd |-> IF fd <= 2 /\ n = 2 THEN 1 ELSE None]
  OBVIOUS
<1>4. PICK p0 : p0 = [NoProc EXCEPT !.st = "live", !.cwd = ROOTINO, !.sz = ImageSize, !.low = ImageTables, !.ofile = O]
  OBVIOUS
<1>5. PICK c : c = [NoFile EXCEPT !.ref = 6, !.type = "device", !.r = TRUE, !.w = TRUE, !.ip = 2]
  OBVIOUS
<1>6. /\ DOMAIN fs = {"ino", "free", "panic", "ref"} /\ fs.panic = "" /\ DOMAIN fs.ref = Inum /\ fs.ino = Disk(machine)
      /\ \A i \in Inum : fs.ref[i] = IF i = ROOTINO THEN n ELSE IF i = 2 THEN n - 1 ELSE 0
      /\ fs.ref = [i \in Inum |-> fs.ref[i]]
      /\ file = [f \in File |-> IF f = 1 /\ n = 2 THEN c ELSE NoFile]
      /\ pr = [p \in Proc |-> CASE p = INIT -> p0 [] p = n /\ n # INIT -> [p0 EXCEPT !.parent = INIT] [] OTHER -> NoProc]
  <2>0. /\ DOMAIN fs = {"ino", "free", "panic", "ref"} /\ fs.panic = "" /\ fs.ino = Disk(machine)
        /\ fs.ref = [i \in Inum |-> CASE i = ROOTINO -> n [] i = 2 -> n - 1 [] OTHER -> 0]
    BY DEF Boot
  <2>1. /\ \A i \in Inum : fs.ref[i] = IF i = ROOTINO THEN n ELSE IF i = 2 THEN n - 1 ELSE 0
        /\ fs.ref = [i \in Inum |-> fs.ref[i]] /\ DOMAIN fs.ref = Inum
    <3> HIDE DEF n
    <3>1. PICK R : R = [i \in Inum |-> CASE i = ROOTINO -> n [] i = 2 -> n - 1 [] OTHER -> 0]
      OBVIOUS
    <3>2. \A i \in Inum : R[i] = IF i = ROOTINO THEN n ELSE IF i = 2 THEN n - 1 ELSE 0
      BY <3>1 DEF ROOTINO
    <3>3. DOMAIN R = Inum /\ R = [i \in Inum |-> R[i]]
      BY <3>1
    <3>4. fs.ref = R
      BY <2>0, <3>1
    <3> QED BY <3>2, <3>3, <3>4
  <2>2. file = [f \in File |-> IF f = 1 /\ n = 2 THEN c ELSE NoFile]
    BY <1>5 DEF Boot
  <2>3. pr = [p \in Proc |-> CASE p = INIT -> p0 [] p = n /\ n # INIT -> [p0 EXCEPT !.parent = INIT] [] OTHER -> NoProc]
    BY <1>3, <1>4 DEF Boot
  <2> QED BY <2>0, <2>1, <2>2, <2>3
<1> HIDE DEF n
<1>7. IsFs(fs) /\ fs.panic = "" /\ \A i \in Inum : fs.ref[i] = IF i = ROOTINO THEN n ELSE IF i = 2 THEN n - 1 ELSE 0
  <2>1. \A i \in Inum : fs.ref[i] \in Int
    <3> SUFFICES ASSUME NEW i \in Inum PROVE fs.ref[i] \in Int
      OBVIOUS
    <3>1. fs.ref[i] = IF i = ROOTINO THEN n ELSE IF i = 2 THEN n - 1 ELSE 0
      BY <1>6
    <3> QED BY <1>2, <3>1
  <2>2. fs.ref \in [Inum -> Int]
    BY <1>6, <2>1
  <2>3. Shaped(fs.ino)
    <3>1. \A a, b, d : DOMAIN Inode(a, b, d) = InodeFields
      BY DEF Inode, InodeFields
    <3>2. DOMAIN NoInode = InodeFields
      BY DEF NoInode, InodeFields
    <3>3. PICK names, root : Disk(machine) = [i \in Inum |->
             IF i = ROOTINO THEN Inode("dir", 1, root)
             ELSE IF i = 2 THEN IF machine.fresh THEN NoInode ELSE Inode("dev", 1, <<>>)
             ELSE IF i - 2 \in DOMAIN names THEN Inode("file", 1, machine.files[i - 2]) ELSE NoInode]
      BY DEF Disk
    <3>4. PICK x : x = Disk(machine)
      OBVIOUS
    <3>5. DOMAIN x = Inum
      BY <3>3, <3>4
    <3>6. \A j \in Inum : DOMAIN x[j] = InodeFields
      <4> SUFFICES ASSUME NEW j \in Inum PROVE DOMAIN x[j] = InodeFields
        OBVIOUS
      <4>1. \/ \E a, b, d : x[j] = Inode(a, b, d)
            \/ x[j] = NoInode
        <5>1. x[j] = IF j = ROOTINO THEN Inode("dir", 1, root)
                     ELSE IF j = 2 THEN IF machine.fresh THEN NoInode ELSE Inode("dev", 1, <<>>)
                     ELSE IF j - 2 \in DOMAIN names THEN Inode("file", 1, machine.files[j - 2]) ELSE NoInode
          BY <3>3, <3>4, Zenon
        <5> QED BY <5>1, Zenon
      <4> QED BY <3>1, <3>2, <4>1
    <3>7. fs.ino = x
      BY <1>6, <3>4
    <3> QED BY <3>5, <3>6, <3>7 DEF Shaped
  <2> QED BY <1>6, <2>2, <2>3 DEF IsFs
<1>8. IsFile(c) /\ c.ref = 6 /\ c.ip = 2
  BY <1>5 DEF NoFile, IsFile, FileFields
<1>9. FilesOk(file) /\ \A f \in File : /\ file[f].ref = IF f = 1 /\ n = 2 THEN 6 ELSE 0
                                       /\ file[f].ip = IF f = 1 /\ n = 2 THEN 2 ELSE None
  BY <1>6, <1>8, NoFileOk DEF FilesOk
<1>10. None \in 0..NFILE /\ 1 \in 0..NFILE
  BY KernelAssumption DEF None
<1>11. IsProc(p0) /\ p0.cwd = ROOTINO /\ p0.ofile = O
  <2>1. DOMAIN p0 = ProcFields /\ p0.cwd = ROOTINO /\ p0.ofile = O /\ p0.st = "live"
    BY <1>4 DEF NoProc, ProcFields
  <2>2. O \in [Fd -> 0..NFILE]
    BY <1>3, <1>10
  <2> QED BY <2>1, <2>2 DEF IsProc
<1>12. PICK p1 : p1 = [p0 EXCEPT !.parent = INIT]
  OBVIOUS
<1>13. IsProc(p1) /\ p1.cwd = ROOTINO /\ p1.ofile = O
  BY <1>11, <1>12 DEF IsProc, ProcFields
<1>14. ASSUME NEW p \in Proc
       PROVE  /\ IsProc(pr[p])
              /\ pr[p].cwd = IF p <= n THEN ROOTINO ELSE None
              /\ \A fd \in Fd : pr[p].ofile[fd] = IF p <= n /\ fd <= 2 /\ n = 2 THEN 1 ELSE None
  <2>1. p \in Nat /\ p >= 1
    BY KernelAssumption DEF Proc
  <2>2. CASE p = 1
    <3>1. pr[p] = p0
      BY <1>6, <2>2 DEF INIT
    <3> QED BY <1>2, <1>3, <1>11, <2>2, <3>1
  <2>3. CASE p # 1 /\ p = n
    <3>1. pr[p] = p1
      BY <1>6, <1>12, <2>3 DEF INIT
    <3> QED BY <1>2, <1>3, <1>13, <2>1, <2>3, <3>1
  <2>4. CASE p # 1 /\ p # n
    <3>1. pr[p] = NoProc
      BY <1>6, <2>4 DEF INIT
    <3>2. ~(p <= n)
      BY <1>2, <2>1, <2>4
    <3> QED BY <3>1, <3>2, NoProcOk
  <2> QED BY <2>2, <2>3, <2>4
<1>15. ProcsOk(pr)
  <2>1. DOMAIN pr = Proc
    BY <1>6
  <2> QED BY <1>14, <2>1 DEF ProcsOk
<1> QED BY <1>2, <1>7, <1>9, <1>14, <1>15

\* A machine boots with exact counts.
LEMMA BootRefs ==
    ASSUME NEW machine, Boot(machine)
    PROVE  RefInv
<1>1. PICK n \in {1, 2} :
             /\ IsFs(fs) /\ fs.panic = ""
             /\ \A i \in Inum : fs.ref[i] = IF i = ROOTINO THEN n ELSE IF i = 2 THEN n - 1 ELSE 0
             /\ FilesOk(file)
             /\ \A f \in File : /\ file[f].ref = IF f = 1 /\ n = 2 THEN 6 ELSE 0
                                /\ file[f].ip = IF f = 1 /\ n = 2 THEN 2 ELSE None
             /\ ProcsOk(pr)
             /\ \A p \in Proc : /\ pr[p].cwd = IF p <= n THEN ROOTINO ELSE None
                                /\ \A fd \in Fd : pr[p].ofile[fd] = IF p <= n /\ fd <= 2 /\ n = 2 THEN 1 ELSE None
  BY BootTables
<1>0. n \in Nat /\ (n = 1 \/ n = 2)
  OBVIOUS
<1>2. Cardinality({}) = 0 /\ \A x : Cardinality({x}) = 1
  BY FS_EmptySet, FS_Singleton
<1>3. {1, 2} \subseteq Proc /\ {0, 1, 2} \subseteq Fd /\ 1 \in File /\ Proc \subseteq Nat \ {0} /\ Fd \subseteq Nat
  BY KernelAssumption DEF Proc, Fd, File
<1>4. FilesExact(Refs(file), Table(pr))
  <2> SUFFICES ASSUME NEW f \in File PROVE file[f].ref = Cardinality(At_(Table(pr), Proc \X Fd, f))
    BY DEF FilesExact, Refs
  <2>1. f # None
    BY NoneIsNoFile
  <2>2. CASE f = 1 /\ n = 2
    <3>1. At_(Table(pr), Proc \X Fd, f) = {1, 2} \X {0, 1, 2}
      <4>1. ASSUME NEW p \in Proc, NEW fd \in Fd
            PROVE  Table(pr)[<<p, fd>>] = f <=> p \in {1, 2} /\ fd \in {0, 1, 2}
        <5>1. Table(pr)[<<p, fd>>] = IF p <= 2 /\ fd <= 2 THEN 1 ELSE None
          BY <1>1, <2>2 DEF Table
        <5>2. (p <= 2 <=> p \in {1, 2}) /\ (fd <= 2 <=> fd \in {0, 1, 2})
          BY <1>3
        <5> QED BY <2>1, <2>2, <5>1, <5>2
      <4>2. \A x \in Proc \X Fd : Table(pr)[x] = f <=> x \in {1, 2} \X {0, 1, 2}
        BY <4>1
      <4>3. {1, 2} \X {0, 1, 2} \subseteq Proc \X Fd
        BY <1>3
      <4> QED BY <4>2, <4>3 DEF At_
    <3>2. IsFiniteSet({1, 2}) /\ Cardinality({1, 2}) = 2
      <4>1. IsFiniteSet({1}) /\ Cardinality({1}) = 1
        BY FS_Singleton
      <4>2. IsFiniteSet({1} \cup {2}) /\ Cardinality({1} \cup {2}) = Cardinality({1}) + 1
        BY <4>1, FS_AddElement
      <4>3. {1} \cup {2} = {1, 2}
        OBVIOUS
      <4> QED BY <4>1, <4>2, <4>3
    <3>3. IsFiniteSet({0, 1, 2}) /\ Cardinality({0, 1, 2}) = 3
      <4>1. IsFiniteSet({1, 2} \cup {0}) /\ Cardinality({1, 2} \cup {0}) = Cardinality({1, 2}) + 1
        <5>1. 0 \notin {1, 2}
          OBVIOUS
        <5> QED BY <3>2, <5>1, FS_AddElement, ZenonT(30)
      <4>2. {1, 2} \cup {0} = {0, 1, 2}
        OBVIOUS
      <4> QED BY <3>2, <4>1, <4>2
    <3>4. Cardinality({1, 2} \X {0, 1, 2}) = 6
      <4>1. Cardinality({1, 2} \X {0, 1, 2}) = Cardinality({1, 2}) * Cardinality({0, 1, 2})
        BY <3>2, <3>3, FS_Product
      <4> QED BY <3>2, <3>3, <4>1
    <3> QED BY <1>1, <2>2, <3>1, <3>4
  <2>3. CASE ~(f = 1 /\ n = 2)
    <3>1. ASSUME NEW p \in Proc, NEW fd \in Fd PROVE Table(pr)[<<p, fd>>] # f
      <4>1. Table(pr)[<<p, fd>>] = IF p <= n /\ fd <= 2 /\ n = 2 THEN 1 ELSE None
        BY <1>1 DEF Table
      <4> QED BY <2>1, <2>3, <4>1
    <3>2. At_(Table(pr), Proc \X Fd, f) = {}
      BY <3>1 DEF At_
    <3> QED BY <1>1, <1>2, <2>3, <3>2
  <2> QED BY <2>2, <2>3
<1>5. InosExact(fs, Ips(file), Cwds(pr))
  <2> SUFFICES ASSUME NEW i \in Inum
               PROVE  fs.ref[i] = Cardinality(At_(Ips(file), File, i)) + Cardinality(At_(Cwds(pr), Proc, i))
    BY DEF InosExact
  <2>0. i # None
    BY NoneIsNoInode
  <2>1. Cardinality(At_(Ips(file), File, i)) = IF i = 2 /\ n = 2 THEN 1 ELSE 0
    <3>1. \A f \in File : Ips(file)[f] = IF f = 1 /\ n = 2 THEN 2 ELSE None
      BY <1>1 DEF Ips
    <3>2. At_(Ips(file), File, i) = IF i = 2 /\ n = 2 THEN {1} ELSE {}
      BY <1>3, <2>0, <3>1 DEF At_
    <3> QED BY <1>2, <3>2
  <2>2. Cardinality(At_(Cwds(pr), Proc, i)) = IF i = ROOTINO THEN n ELSE 0
    <3>1. \A p \in Proc : Cwds(pr)[p] = IF p <= n THEN ROOTINO ELSE None
      BY <1>1 DEF Cwds
    <3>2. At_(Cwds(pr), Proc, i) = IF i = ROOTINO THEN 1..n ELSE {}
      <4>1. 1..n \subseteq Proc /\ \A p \in Proc : p <= n <=> p \in 1..n
        BY <1>0, <1>3
      <4> QED BY <2>0, <3>1, <4>1 DEF At_
    <3>3. Cardinality(1..n) = n
      <4>1. 1 \in Int /\ n \in Int /\ ~(1 > n)
        BY <1>0
      <4>2. Cardinality(1..n) = IF 1 > n THEN 0 ELSE n - 1 + 1
        BY <4>1, FS_Interval
      <4> QED BY <4>1, <4>2
    <3> QED BY <1>2, <3>2, <3>3
  <2>3. fs.ref[i] = IF i = ROOTINO THEN n ELSE IF i = 2 THEN n - 1 ELSE 0
    BY <1>1
  <2>4. ROOTINO = 1
    BY DEF ROOTINO
  <2> QED BY <1>0, <2>1, <2>2, <2>3, <2>4
<1> QED BY <1>1, <1>4, <1>5 DEF RefInv

---------------------------------------------------------------------------
(* The pages of the kernel.                                                *)

\* The pages that each process of a table keeps.
MemOk(tab) == \A p \in Proc : InMemory(tab[p].sz, tab[p].low)
Keeps(r) == IF r.st = "unused" THEN 0 ELSE Footprint(r.sz, r.low)
Kept(tab) == [p \in Proc |-> Keeps(tab[p])]

PageInv == MemOk(pr) /\ total.pages = Pool(free, pipe) + Summed(Kept(pr), NPROC)
KernelInv == RefInv /\ PipeInv /\ PageInv

\* The pages of a process are a number.
LEMMA KeptInt ==
    ASSUME NEW tab, MemOk(tab)
    PROVE  \A p \in Proc : Kept(tab)[p] \in Int
<1> SUFFICES ASSUME NEW p \in Proc PROVE Kept(tab)[p] \in Int
  OBVIOUS
<1>1. Footprint(tab[p].sz, tab[p].low) \in Int
  BY FootprintInt DEF MemOk
<1> QED BY <1>1 DEF Kept, Keeps

\* No process has other pages than before.
SameMemory(tab, tab2) ==
    \A p \in Proc : /\ tab2[p].sz = tab[p].sz /\ tab2[p].low = tab[p].low
                    /\ tab2[p].st = "unused" <=> tab[p].st = "unused"

\* They are as many as before.
LEMMA KeptSame ==
    ASSUME NEW tab, NEW tab2, MemOk(tab), SameMemory(tab, tab2)
    PROVE  MemOk(tab2) /\ Kept(tab2) = Kept(tab)
BY DEF MemOk, Kept, Keeps, SameMemory

\* One process has other pages.
LEMMA KeptChange ==
    ASSUME NEW tab, NEW tab2, NEW x \in Proc, MemOk(tab), MemOk(tab2),
           \A p \in Proc : p # x => tab2[p] = tab[p]
    PROVE  /\ Summed(Kept(tab), NPROC) \in Int
           /\ Summed(Kept(tab2), NPROC) = Summed(Kept(tab), NPROC) - Kept(tab)[x] + Kept(tab2)[x]
           /\ Kept(tab)[x] \in Int /\ Kept(tab2)[x] \in Int
<1>1. PICK f, g : f = Kept(tab) /\ g = Kept(tab2)
  OBVIOUS
<1>2. NPROC \in Nat /\ Proc = 1..NPROC
  BY KernelAssumption DEF Proc
<1>3. Differ(f, g, NPROC, x)
  <2>1. \A k \in Proc : f[k] \in Int /\ g[k] \in Int
    BY <1>1, KeptInt
  <2>2. \A k \in Proc : k # x => g[k] = f[k]
    BY <1>1 DEF Kept
  <2> QED BY <1>2, <2>1, <2>2 DEF Differ
<1>4. x \in 1..NPROC
  BY <1>2
<1>5. Summed(f, NPROC) \in Int /\ Summed(g, NPROC) = Summed(f, NPROC) - f[x] + g[x]
  BY <1>2, <1>3, <1>4, SummedChange
<1>6. f[x] \in Int /\ g[x] \in Int
  BY <1>1, KeptInt
<1> QED BY <1>1, <1>5, <1>6

\* A step that takes no page and gives none back.
LEMMA StillPages ==
    ASSUME PageInv, SameMemory(pr, pr'), Pool(free', pipe') = Pool(free, pipe), total' = total
    PROVE  PageInv'
<1>1. MemOk(pr') /\ Kept(pr') = Kept(pr)
  BY KeptSame DEF PageInv
<1> QED BY <1>1 DEF PageInv

\* The ends of the pipes are the same.
SameEnds(fl, fl2) == Readers(fl2) = Readers(fl) /\ Writers(fl2) = Writers(fl)

\* The process x becomes r with other pages, and the free list what it had before.
LEMMA MovedPages ==
    ASSUME PipeInv, PageInv, ProcsOk(pr), NEW x \in Proc, NEW r, InMemory(r.sz, r.low), pr' = With(pr, x, r),
           free' \in Int, free' + Keeps(r) = free + Keeps(pr[x]),
           pipe' = pipe, SameEnds(file, file'), total' = total
    PROVE  PipeInv' /\ PageInv'
<1>1. PICK a, b, k, l, c : a = free /\ b = free' /\ k = Keeps(pr[x]) /\ l = Keeps(r) /\ c = Cardinality(OpenPipes(pipe))
  OBVIOUS
<1>2. PICK sum, tab : sum = Summed(Kept(pr), NPROC) /\ tab = pr'
  OBVIOUS
<1>3. \A p \in Proc : tab[p] = IF p = x THEN r ELSE pr[p]
  BY <1>2 DEF ProcsOk, With
<1>4. MemOk(pr) /\ MemOk(tab)
  BY <1>3 DEF PageInv, MemOk
<1>5. Kept(pr)[x] = k /\ Kept(tab)[x] = l
  BY <1>1, <1>3 DEF Kept
<1>6. sum \in Int /\ Summed(Kept(tab), NPROC) = sum - k + l /\ k \in Int /\ l \in Int
  BY <1>2, <1>3, <1>4, <1>5, KeptChange
<1>7. c \in Nat /\ a \in Int /\ b \in Int
  <2>1. 1 \in Int /\ NPIPE \in Int
    BY KernelAssumption
  <2>2. IsFiniteSet(Pipe) /\ OpenPipes(pipe) \subseteq Pipe
    BY <2>1, FS_Interval DEF Pipe, OpenPipes
  <2>3. c \in Nat
    BY <1>1, <2>2, FS_Subset, FS_CardinalityType
  <2> QED BY <1>1, <2>3 DEF PipeInv
<1>8. b + l = a + k
  BY <1>1
<1>9. a + c + sum = b + c + (sum - k + l)
  BY <1>6, <1>7, <1>8
<1>10. total.pages = a + c + sum
  BY <1>1, <1>2 DEF PageInv, Pool
<1>11. total'.pages = Pool(free', pipe') + Summed(Kept(pr'), NPROC)
  BY <1>1, <1>2, <1>6, <1>9, <1>10 DEF Pool
<1>12. PageInv'
  BY <1>2, <1>4, <1>11 DEF PageInv
<1> QED BY <1>12 DEF PipeInv, SameEnds

\* Nothing changed.
LEMMA SameMemorySelf == \A tab : SameMemory(tab, tab)
BY DEF SameMemory

\* A descriptor is no memory.
LEMMA WithFdMemory ==
    ASSUME NEW tab, NEW p \in Proc, NEW fd, NEW f, ProcsOk(tab)
    PROVE  SameMemory(tab, WithFd(tab, p, fd, f)) /\ SameMemory(tab, [tab EXCEPT ![p].cwd = f])
<1>1. DOMAIN tab = Proc /\ \A q \in Proc : DOMAIN tab[q] = ProcFields
  BY DEF ProcsOk, IsProc
<1> QED BY <1>1 DEF SameMemory, WithFd, ProcFields

\* A step that moves no page and closes no end.
LEMMA StillPipes ==
    ASSUME PipeInv, PageInv, SameEnds(file, file'), pipe' = pipe, free' = free, SameMemory(pr, pr'), total' = total
    PROVE  PipeInv' /\ PageInv'
<1>1. PageInv'
  BY StillPages
<1> QED BY <1>1 DEF PipeInv, SameEnds

\* The data of a pipe.
WithData(pp, q, d) == [pp EXCEPT ![q].data = d]

\* The data of a pipe are no end.
LEMMA DataPipes ==
    ASSUME NEW R, NEW W, NEW pp, NEW q, NEW d, PipesOk(R, W, pp)
    PROVE  PipesOk(R, W, WithData(pp, q, d)) /\ OpenPipes(WithData(pp, q, d)) = OpenPipes(pp)
<1>1. PICK t : t = WithData(pp, q, d)
  OBVIOUS
<1>2. DOMAIN pp = Pipe /\ DOMAIN t = Pipe
  BY <1>1 DEF PipesOk, WithData
<1>3. ASSUME NEW x \in Pipe
      PROVE  /\ DOMAIN t[x] = PipeFields /\ t[x].open = pp[x].open
             /\ t[x].readopen = pp[x].readopen /\ t[x].writeopen = pp[x].writeopen
  <2>1. DOMAIN pp[x] = PipeFields
    BY DEF PipesOk
  <2>2. t[x] = IF x = q THEN [pp[x] EXCEPT !.data = d] ELSE pp[x]
    BY <1>1, <1>2 DEF WithData
  <2> QED BY <2>1, <2>2 DEF PipeFields
<1>4. OpenPipes(t) = OpenPipes(pp)
  BY <1>3 DEF OpenPipes
<1>5. PipesOk(R, W, t)
  BY <1>2, <1>3 DEF PipesOk
<1> QED BY <1>1, <1>4, <1>5

\* The offset of a file is no end.
LEMMA OffEnds ==
    ASSUME NEW fl, NEW f, NEW x, FilesOk(fl)
    PROVE  SameEnds(fl, WithOff(fl, f, x))
<1>1. PICK t : t = WithOff(fl, f, x)
  OBVIOUS
<1>2. ASSUME NEW g \in File PROVE t[g].type = fl[g].type /\ t[g].w = fl[g].w /\ t[g].pipe = fl[g].pipe
  <2>1. DOMAIN fl = File /\ DOMAIN fl[g] = FileFields
    BY DEF FilesOk, IsFile
  <2>2. t[g] = IF g = f THEN [fl[g] EXCEPT !.off = x] ELSE fl[g]
    BY <1>1, <2>1 DEF WithOff
  <2> QED BY <2>1, <2>2 DEF FileFields
<1> QED BY <1>1, <1>2 DEF SameEnds, Readers, Writers

\* A call on names moves no page, nor does a call that touches no table.
LEMMA NamesPages ==
    ASSUME PipeInv, PageInv, UNCHANGED <<file, pipe, free, pr>>, total' = total
    PROVE  PipeInv' /\ PageInv'
<1>1. SameEnds(file, file') /\ SameMemory(pr, pr')
  BY SameMemorySelf DEF SameEnds
<1> QED BY <1>1, StillPipes

\* dup().
LEMMA DupPages ==
    ASSUME RefInv, PipeInv, PageInv, NEW p \in Proc, SysDup(p), total' = total
    PROVE  PipeInv' /\ PageInv'
<1>1. PICK f : f = argfd(p, I(p).fd)
  OBVIOUS
<1>2. PICK fd : fd = Smallest(freeFds(p))
  OBVIOUS
<1>3. pipe' = pipe /\ free' = free
  BY DEF SysDup
<1>4. CASE f = None \/ freeFds(p) = {}
  <2>1. UNCHANGED <<file, pipe, free, pr>>
    BY <1>1, <1>3, <1>4 DEF SysDup
  <2> QED BY <2>1, NamesPages
<1>5. CASE f # None /\ freeFds(p) # {}
  <2>1. PICK r : r = [file[f] EXCEPT !.ref = @ + 1]
    OBVIOUS
  <2>2. pr' = WithFd(pr, p, fd, f) /\ file' = With(file, f, r)
    BY <1>1, <1>2, <1>5, <2>1 DEF SysDup, filedup, With, WithFd
  <2>3. f \in File
    BY <1>1, <1>5, ArgfdIs
  <2>4. IsFile(file[f]) /\ FilesOk(file) /\ ProcsOk(pr)
    BY <2>3 DEF RefInv, FilesOk
  <2>5. r.type = file[f].type /\ r.w = file[f].w /\ r.pipe = file[f].pipe
    BY <2>1, <2>4 DEF IsFile, FileFields
  <2>6. SameEnds(file, file')
    BY <2>2, <2>3, <2>4, <2>5, EntrySameEnds DEF SameEnds
  <2>7. SameMemory(pr, pr')
    BY <2>2, <2>4, WithFdMemory
  <2> QED BY <1>3, <2>6, <2>7, StillPipes
<1> QED BY <1>4, <1>5

\* close(): the last end of a pipe gives its page back.
LEMMA ClosePages ==
    ASSUME RefInv, PipeInv, PageInv, NEW p \in Proc, SysClose(p), total' = total
    PROVE  PipeInv' /\ PageInv'
<1>1. PipeInv' /\ Pool(free', pipe') = Pool(free, pipe)
  BY CloseKeeps
<1>2. pr' = pr \/ \E fd : pr' = WithFd(pr, p, fd, None)
  BY DEF SysClose, WithFd
<1>3. SameMemory(pr, pr')
  <2>1. CASE pr' = pr
    BY <2>1, SameMemorySelf
  <2>2. ASSUME NEW fd, pr' = WithFd(pr, p, fd, None) PROVE SameMemory(pr, pr')
    <3>1. ProcsOk(pr)
      BY DEF RefInv
    <3> QED BY <2>2, <3>1, WithFdMemory
  <2> QED BY <1>2, <2>1, <2>2
<1> QED BY <1>1, <1>3, StillPages

\* open() makes no pipe.
LEMMA OpenPages ==
    ASSUME RefInv, PipeInv, PageInv, NEW p \in Proc, SysOpen(p), total' = total
    PROVE  PipeInv' /\ PageInv'
<1>1. PICK f, fd : f = Smallest(freeFiles) /\ fd = Smallest(freeFds(p))
  OBVIOUS
<1>2. pipe' = pipe /\ free' = free
  BY DEF SysOpen
<1>3. FilesOk(file) /\ ProcsOk(pr)
  BY DEF RefInv
<1>4. \/ file' = file /\ pr' = pr
      \/ /\ freeFiles # {} /\ pr' = WithFd(pr, p, fd, f)
         /\ \E r : file' = With(file, f, r) /\ r.type \in {"device", "inode"}
  <2> DEFINE i == I(p)
             c == IF "CREATE" \in i.mode THEN create(fs, pr[p].cwd, i.path, "file") ELSE namei(fs, pr[p].cwd, i.path)
             fs1 == IF c.ip = None THEN c.fs ELSE ilock(c.fs, c.ip)
             type == fs1.ino[c.ip].type
             r == [ref |-> 1, type |-> IF type = "dev" THEN "device" ELSE "inode",
                   r |-> "WRONLY" \notin i.mode, w |-> i.mode \cap {"WRONLY", "RDWR"} # {},
                   ip |-> c.ip, off |-> 0, pipe |-> None]
  <2>1. \/ file' = file /\ pr' = pr
        \/ freeFiles # {} /\ pr' = [pr EXCEPT ![p].ofile[fd] = f] /\ file' = [file EXCEPT ![f] = r]
    BY <1>1 DEF SysOpen
  <2>2. r.type \in {"device", "inode"}
    OBVIOUS
  <2> HIDE DEF r
  <2> QED BY <2>1, <2>2 DEF With, WithFd
<1>5. CASE file' = file /\ pr' = pr
  BY <1>2, <1>5, NamesPages
<1>6. ASSUME freeFiles # {}, pr' = WithFd(pr, p, fd, f),
             NEW r, file' = With(file, f, r), r.type \in {"device", "inode"}
      PROVE  PipeInv' /\ PageInv'
  <2>1. f \in File /\ file[f].ref = 0
    BY <1>1, <1>6, FreeSlots
  <2>2. file[f].type # "pipe" /\ r.type # "pipe"
    BY <1>3, <1>6, <2>1 DEF FilesOk, IsFile
  <2>3. SameEnds(file, file')
    BY <1>3, <1>6, <2>1, <2>2, EntrySameEnds DEF SameEnds
  <2>4. SameMemory(pr, pr')
    BY <1>3, <1>6, WithFdMemory
  <2> QED BY <1>2, <2>3, <2>4, StillPipes
<1> QED BY <1>4, <1>5, <1>6

\* The contents of a pipe move no page.
LEMMA DataPages ==
    ASSUME RefInv, PipeInv, PageInv, pipe' = pipe \/ \E q, d : pipe' = WithData(pipe, q, d),
           file' = file \/ \E f, x : file' = WithOff(file, f, x), free' = free, pr' = pr, total' = total
    PROVE  PipeInv' /\ PageInv'
<1>1. SameEnds(file, file')
  <2>1. FilesOk(file) /\ SameEnds(file, file)
    BY DEF RefInv, SameEnds
  <2>2. ASSUME NEW f, NEW x, file' = WithOff(file, f, x) PROVE SameEnds(file, file')
    BY <2>1, <2>2, OffEnds
  <2>3. CASE file' = file
    BY <2>1, <2>3
  <2> QED BY <2>2, <2>3
<1>2. PICK R, W : R = Readers(file) /\ W = Writers(file)
  OBVIOUS
<1>3. PipesOk(R, W, pipe) /\ free \in Int
  BY <1>2 DEF PipeInv
<1>4. PipesOk(R, W, pipe') /\ OpenPipes(pipe') = OpenPipes(pipe)
  <2>1. CASE pipe' = pipe
    BY <1>3, <2>1
  <2>2. ASSUME NEW q, NEW d, pipe' = WithData(pipe, q, d) PROVE PipesOk(R, W, pipe') /\ OpenPipes(pipe') = OpenPipes(pipe)
    BY <1>3, <2>2, DataPipes
  <2> QED BY <2>1, <2>2
<1>5. PipeInv'
  BY <1>1, <1>2, <1>3, <1>4 DEF PipeInv, SameEnds
<1>6. Pool(free', pipe') = Pool(free, pipe)
  BY <1>4 DEF Pool
<1>7. SameMemory(pr, pr')
  BY SameMemorySelf
<1> QED BY <1>5, <1>6, <1>7, StillPages

\* read().
LEMMA ReadPages ==
    ASSUME RefInv, PipeInv, PageInv, NEW p \in Proc, SysRead(p), total' = total
    PROVE  PipeInv' /\ PageInv'
<1>1. PICK f : f = argfd(p, I(p).fd)
  OBVIOUS
<1>2. PICK q : q = file[f].pipe
  OBVIOUS
<1>3. free' = free /\ pr' = pr
  BY DEF SysRead
<1>4. \/ UNCHANGED <<file, pipe>>
      \/ piperead(p, q) /\ UNCHANGED file
      \/ readInode(p, f) /\ UNCHANGED pipe
  BY <1>1, <1>2 DEF SysRead
<1>5. ASSUME piperead(p, q) PROVE \E d : pipe' = WithData(pipe, q, d)
  <2>1. PICK k : k = Lesser(I(p).n, Len(pipe[q].data))
    OBVIOUS
  <2>2. \/ pipe' = [pipe EXCEPT ![q].data = Tail(@)]
        \/ pipe' = [pipe EXCEPT ![q].data = SubSeq(@, k + 1, Len(@))]
    BY <1>5, <2>1 DEF piperead
  <2>3. PICK d, e : d = Tail(pipe[q].data) /\ e = SubSeq(pipe[q].data, k + 1, Len(pipe[q].data))
    OBVIOUS
  <2>4. /\ [pipe EXCEPT ![q].data = Tail(@)] = WithData(pipe, q, d)
        /\ [pipe EXCEPT ![q].data = SubSeq(@, k + 1, Len(@))] = WithData(pipe, q, e)
    BY <2>3 DEF WithData
  <2> QED BY <2>2, <2>4
<1>6. ASSUME readInode(p, f) PROVE file' = file \/ \E x : file' = WithOff(file, f, x)
  <2>1. PICK k : k = Len(readi(fs, file[f].ip, file[f].off, I(p).n))
    OBVIOUS
  <2>2. file' = file \/ file' = [file EXCEPT ![f].off = @ + k]
    BY <1>6, <2>1 DEF readInode
  <2>3. PICK x : x = file[f].off + k
    OBVIOUS
  <2>4. [file EXCEPT ![f].off = @ + k] = WithOff(file, f, x)
    BY <2>3 DEF WithOff
  <2> QED BY <2>2, <2>4
<1>7. pipe' = pipe \/ \E a, d : pipe' = WithData(pipe, a, d)
  BY <1>4, <1>5
<1>8. file' = file \/ \E a, x : file' = WithOff(file, a, x)
  BY <1>4, <1>6
<1> QED BY <1>3, <1>7, <1>8, DataPages

\* write().
LEMMA WritePages ==
    ASSUME RefInv, PipeInv, PageInv, NEW p \in Proc, SysWrite(p), total' = total
    PROVE  PipeInv' /\ PageInv'
<1>1. PICK f : f = argfd(p, I(p).fd)
  OBVIOUS
<1>2. PICK q : q = file[f].pipe
  OBVIOUS
<1>3. free' = free /\ pr' = pr
  BY DEF SysWrite
<1>4. PICK w : w = writei(fs, file[f].ip, file[f].off, Part(p, MAXWRITE), SourceOk(p))
  OBVIOUS
<1>5. \/ UNCHANGED <<file, pipe>>
      \/ pipewrite(p, q) /\ UNCHANGED file
      \/ writeInode(p, f, w) /\ UNCHANGED pipe
  BY <1>1, <1>2, <1>4 DEF SysWrite
<1>6. ASSUME pipewrite(p, q) PROVE pipe' = pipe \/ \E d : pipe' = WithData(pipe, q, d)
  <2>1. PICK part : part = Part(p, PIPESIZE - Len(pipe[q].data))
    OBVIOUS
  <2>2. pipe' = pipe \/ pipe' = [pipe EXCEPT ![q].data = @ \o part]
    BY <1>6, <2>1 DEF pipewrite
  <2>3. PICK d : d = pipe[q].data \o part
    OBVIOUS
  <2>4. [pipe EXCEPT ![q].data = @ \o part] = WithData(pipe, q, d)
    BY <2>3 DEF WithData
  <2> QED BY <2>2, <2>4
<1>7. ASSUME writeInode(p, f, w) PROVE \E x : file' = WithOff(file, f, x)
  <2>1. PICK x : x = IF w.n > 0 THEN file[f].off + w.n ELSE file[f].off
    OBVIOUS
  <2>2. file' = [file EXCEPT ![f].off = IF w.n > 0 THEN @ + w.n ELSE @]
    BY <1>7 DEF writeInode
  <2>3. [file EXCEPT ![f].off = IF w.n > 0 THEN @ + w.n ELSE @] = WithOff(file, f, x)
    BY <2>1 DEF WithOff
  <2> QED BY <2>2, <2>3
<1>8. pipe' = pipe \/ \E a, d : pipe' = WithData(pipe, a, d)
  BY <1>5, <1>6
<1>9. file' = file \/ \E a, x : file' = WithOff(file, a, x)
  BY <1>5, <1>7
<1> QED BY <1>3, <1>8, <1>9, DataPages

\* The process p gets other memory.
WithMem(tab, p, sz, low) == [tab EXCEPT ![p].sz = sz, ![p].low = low]

\* The memory of a process that is there.
LEMMA ResizedPages ==
    ASSUME RefInv, PipeInv, PageInv, NEW p \in Proc, pr[p].st # "unused", NEW sz, NEW low, InMemory(sz, low),
           pr' = WithMem(pr, p, sz, low), free' \in Int,
           free' + Footprint(sz, low) = free + Footprint(pr[p].sz, pr[p].low),
           pipe' = pipe, file' = file, total' = total
    PROVE  PipeInv' /\ PageInv'
<1>1. PICK r : r = [pr[p] EXCEPT !.sz = sz, !.low = low]
  OBVIOUS
<1>2. ProcsOk(pr) /\ DOMAIN pr = Proc /\ DOMAIN pr[p] = ProcFields
  BY DEF RefInv, ProcsOk, IsProc
<1>3. r.sz = sz /\ r.low = low /\ r.st = pr[p].st
  BY <1>1, <1>2 DEF ProcFields
<1>4. pr' = With(pr, p, r)
  BY <1>1, <1>2 DEF With, WithMem
<1>5. Keeps(r) = Footprint(sz, low) /\ Keeps(pr[p]) = Footprint(pr[p].sz, pr[p].low)
  BY <1>3 DEF Keeps
<1>6. free' + Keeps(r) = free + Keeps(pr[p]) /\ InMemory(r.sz, r.low) /\ SameEnds(file, file')
  BY <1>3, <1>5 DEF SameEnds
<1> QED BY <1>2, <1>4, <1>6, MovedPages

\* sbrk().
LEMMA SbrkPages ==
    ASSUME RefInv, PipeInv, PageInv, NEW p \in Proc, SysSbrk(p), I(p).n \in Int, total' = total
    PROVE  PipeInv' /\ PageInv'
<1>1. PICK m : m = growproc(free, pr[p].low, pr[p].sz, I(p).n)
  OBVIOUS
<1>2. pr' = WithMem(pr, p, m.sz, m.low) /\ free' = m.free /\ file' = file /\ pipe' = pipe /\ pr[p].st = "live"
  BY <1>1 DEF SysSbrk, WithMem, Alive, At
<1>3. InMemory(pr[p].sz, pr[p].low) /\ free \in Int
  BY DEF PageInv, MemOk, PipeInv
<1>4. /\ m.free \in Int /\ InMemory(m.sz, m.low)
      /\ m.free + Footprint(m.sz, m.low) = free + Footprint(pr[p].sz, pr[p].low)
  BY <1>1, <1>3, GrowprocKeeps
<1>5. pr[p].st # "unused"
  BY <1>2
<1> QED BY <1>2, <1>4, <1>5, ResizedPages

\* exec().
LEMMA ExecPages ==
    ASSUME RefInv, PipeInv, PageInv, NEW p \in Proc, SysExec(p), Len(I(p).args) \in Nat, total' = total
    PROVE  PipeInv' /\ PageInv'
<1>1. PICK m : m = execMem(free, pr[p].sz, pr[p].low, I(p).args, I(p).argsOk)
  OBVIOUS
<1>2. file' = file /\ pipe' = pipe /\ pr[p].st = "live"
  BY DEF SysExec, Alive, At
<1>3. (pr' = pr /\ free' = free) \/ (pr' = WithMem(pr, p, m.sz, m.low) /\ free' = m.free)
  BY <1>1 DEF SysExec, WithMem
<1>4. CASE pr' = pr /\ free' = free
  BY <1>2, <1>4, NamesPages
<1>5. CASE pr' = WithMem(pr, p, m.sz, m.low) /\ free' = m.free
  <2>1. InMemory(pr[p].sz, pr[p].low) /\ free \in Int
    BY DEF PageInv, MemOk, PipeInv
  <2>2. /\ m.free \in Int /\ InMemory(m.sz, m.low)
        /\ m.free + Footprint(m.sz, m.low) = free + Footprint(pr[p].sz, pr[p].low)
    BY <1>1, <2>1, ExecMemKeeps
  <2>3. pr[p].st # "unused"
    BY <1>2
  <2> QED BY <1>2, <1>5, <2>2, <2>3, ResizedPages
<1> QED BY <1>3, <1>4, <1>5

\* fork(): the child gets pages of its own.
LEMMA ForkPages ==
    ASSUME RefInv, PipeInv, PageInv, NEW p \in Proc, SysFork(p), total' = total
    PROVE  PipeInv' /\ PageInv'
<1>1. PICK unused : unused = {q \in Proc : pr[q].st = "unused"}
  OBVIOUS
<1>2. PICK q : q = Smallest(unused)
  OBVIOUS
<1>3. PICK m : m = forkMem(free, pr[p].sz)
  OBVIOUS
<1>4. PICK r : r = [pr[p] EXCEPT !.parent = p, !.low = m.low, !.killed = FALSE, !.xst = 0]
  OBVIOUS
<1>5. pr[p].st = "live" /\ pipe' = pipe
  BY DEF SysFork, Alive, At
<1>6. \/ UNCHANGED <<file, free, pr>>
      \/ /\ unused # {} /\ m.ok /\ free' = m.free /\ pr' = With(pr, q, r)
         /\ file' = [f \in File |-> [file[f] EXCEPT !.ref = @ + Cardinality({fd \in Fd : pr[p].ofile[fd] = f})]]
  BY <1>1, <1>2, <1>3, <1>4 DEF SysFork, With
<1>7. CASE UNCHANGED <<file, free, pr>>
  BY <1>5, <1>7, NamesPages
<1>8. ASSUME unused # {}, m.ok, free' = m.free, pr' = With(pr, q, r),
             file' = [f \in File |-> [file[f] EXCEPT !.ref = @ + Cardinality({fd \in Fd : pr[p].ofile[fd] = f})]]
      PROVE  PipeInv' /\ PageInv'
  <2>1. q \in Proc /\ pr[q].st = "unused"
    <3>1. unused \subseteq Nat
      BY <1>1 DEF Proc
    <3>2. q \in unused
      BY <1>2, <1>8, <3>1, SmallestIn
    <3> QED BY <1>1, <3>2
  <2>2. ProcsOk(pr) /\ FilesOk(file) /\ DOMAIN pr[p] = ProcFields
    BY DEF RefInv, ProcsOk, IsProc
  <2>3. r.sz = pr[p].sz /\ r.low = m.low /\ r.st = "live"
    BY <1>4, <1>5, <2>2 DEF ProcFields
  <2>4. pr[p].sz \in Nat /\ free \in Int
    BY DEF PageInv, MemOk, InMemory, PipeInv
  <2>5. m.free \in Int /\ InMemory(pr[p].sz, m.low) /\ m.free + Footprint(pr[p].sz, m.low) = free
    BY <1>3, <1>8, <2>4, ForkMemKeeps
  <2>6. Keeps(r) = Footprint(pr[p].sz, m.low) /\ Keeps(pr[q]) = 0
    BY <2>1, <2>3 DEF Keeps
  <2>7. free' \in Int /\ free' + Keeps(r) = free + Keeps(pr[q]) /\ InMemory(r.sz, r.low)
    BY <1>8, <2>3, <2>4, <2>5, <2>6
  <2>8. SameEnds(file, file')
    <3>1. ASSUME NEW f \in File
          PROVE  file'[f].type = file[f].type /\ file'[f].w = file[f].w /\ file'[f].pipe = file[f].pipe
      <4>1. PICK k : k = Cardinality({fd \in Fd : pr[p].ofile[fd] = f})
        OBVIOUS
      <4>2. file'[f] = [file[f] EXCEPT !.ref = @ + k]
        BY <1>8, <4>1
      <4>3. DOMAIN file[f] = FileFields
        BY <2>2 DEF FilesOk, IsFile
      <4> QED BY <4>2, <4>3 DEF FileFields
    <3> QED BY <3>1 DEF SameEnds, Readers, Writers
  <2> QED BY <1>5, <1>8, <2>1, <2>2, <2>7, <2>8, MovedPages
<1> QED BY <1>6, <1>7, <1>8

\* wait(): the pages of the child are free again.
LEMMA WaitPages ==
    ASSUME RefInv, PipeInv, PageInv, NEW p \in Proc, SysWait(p), total' = total
    PROVE  PipeInv' /\ PageInv'
<1>1. PICK dead : dead = {q \in {x \in Proc : pr[x].st # "unused" /\ pr[x].parent = p} : pr[q].st = "zombie"}
  OBVIOUS
<1>2. PICK q : q = Smallest(dead)
  OBVIOUS
<1>3. file' = file /\ pipe' = pipe
  BY DEF SysWait
<1>4. \/ pr' = pr /\ free' = free
      \/ dead # {} /\ pr' = With(pr, q, NoProc) /\ free' = freeproc(free, pr[q].sz, pr[q].low)
  BY <1>1, <1>2 DEF SysWait, With
<1>5. CASE pr' = pr /\ free' = free
  BY <1>3, <1>5, NamesPages
<1>6. ASSUME dead # {}, pr' = With(pr, q, NoProc), free' = freeproc(free, pr[q].sz, pr[q].low)
      PROVE  PipeInv' /\ PageInv'
  <2>1. q \in Proc /\ pr[q].st = "zombie"
    <3>1. dead \subseteq Nat
      BY <1>1 DEF Proc
    <3>2. q \in dead
      BY <1>2, <1>6, <3>1, SmallestIn
    <3> QED BY <1>1, <3>2
  <2>2. PICK k : k = Footprint(pr[q].sz, pr[q].low)
    OBVIOUS
  <2>3. k \in Int /\ free \in Int
    BY <2>1, <2>2, FootprintInt DEF PageInv, MemOk, PipeInv
  <2>4. free' = free + k
    BY <1>6, <2>2 DEF freeproc
  <2>5. Keeps(pr[q]) = k /\ Keeps(NoProc) = 0
    BY <2>1, <2>2 DEF Keeps, NoProc
  <2>6. free' \in Int /\ free' + Keeps(NoProc) = free + Keeps(pr[q])
    BY <2>3, <2>4, <2>5
  <2>7. InMemory(NoProc.sz, NoProc.low)
    BY DEF InMemory, NoProc
  <2>8. ProcsOk(pr) /\ SameEnds(file, file')
    BY <1>3 DEF RefInv, SameEnds
  <2> QED BY <1>3, <1>6, <2>1, <2>6, <2>7, <2>8, MovedPages
<1> QED BY <1>4, <1>5, <1>6

\* kill().
LEMMA KillPages ==
    ASSUME RefInv, PipeInv, PageInv, NEW p \in Proc, SysKill(p), total' = total
    PROVE  PipeInv' /\ PageInv'
<1>1. PICK q : q = us[p].reg[I(p).pid]
  OBVIOUS
<1>2. file' = file /\ pipe' = pipe /\ free' = free
  BY DEF SysKill
<1>3. pr' = pr \/ (q \in Proc /\ pr' = [pr EXCEPT ![q].killed = TRUE])
  BY <1>1 DEF SysKill
<1>4. CASE pr' = pr
  BY <1>2, <1>4, NamesPages
<1>5. CASE q \in Proc /\ pr' = [pr EXCEPT ![q].killed = TRUE]
  <2>1. DOMAIN pr = Proc /\ DOMAIN pr[q] = ProcFields
    BY <1>5 DEF RefInv, ProcsOk, IsProc
  <2>2. SameMemory(pr, pr')
    BY <1>5, <2>1 DEF SameMemory, ProcFields
  <2> QED BY <1>2, <2>2, StillPipes DEF SameEnds
<1> QED BY <1>3, <1>4, <1>5

\* chdir().
LEMMA ChdirPages ==
    ASSUME RefInv, PipeInv, PageInv, NEW p \in Proc, SysChdir(p), total' = total
    PROVE  PipeInv' /\ PageInv'
<1>1. PICK c : c = sys_chdir(fs, pr[p].cwd, I(p).path)
  OBVIOUS
<1>2. file' = file /\ pipe' = pipe /\ free' = free /\ pr' = [pr EXCEPT ![p].cwd = c.cwd]
  BY <1>1 DEF SysChdir, NameCall
<1>3. SameMemory(pr, pr')
  <2>1. ProcsOk(pr)
    BY DEF RefInv
  <2> QED BY <1>2, <2>1, WithFdMemory
<1> QED BY <1>2, <1>3, StillPipes DEF SameEnds

\* exit() closes the ends of pipes that nobody else has; the pages of the process stay until wait().
LEMMA EndsPages ==
    ASSUME RefInv, PipeInv, PageInv, NEW p \in Proc, total' = total,
           \/ SysExit(p)
           \/ SysExitReg(p)
           \/ Die(p)
           \/ UserTouch(p)
    PROVE  PipeInv' /\ PageInv'
<1>1. PipeInv' /\ Pool(free', pipe') = Pool(free, pipe)
  BY EndsKeep
<1>2. pr[p].st = "live" /\ (pr' = pr \/ \E status : exit(p, status))
  BY DEF SysExit, SysExitReg, Die, UserTouch, Alive, At
<1>3. SameMemory(pr, pr')
  <2>1. CASE pr' = pr
    BY <2>1, SameMemorySelf
  <2>2. ASSUME NEW status, exit(p, status) PROVE SameMemory(pr, pr')
    <3>1. PICK tab : tab = reparent(pr, p)
      OBVIOUS
    <3>2. PICK r : r = [tab[p] EXCEPT !.st = "zombie", !.xst = status, !.cwd = None, !.ofile = [fd \in Fd |-> None]]
      OBVIOUS
    <3>3. pr' = [tab EXCEPT ![p] = r]
      <4>1. pr' = [reparent(pr, p) EXCEPT ![p] = [@ EXCEPT !.st = "zombie", !.xst = status, !.cwd = None,
                                                          !.ofile = [fd \in Fd |-> None]]]
        BY <2>2 DEF exit
      <4> QED BY <3>1, <3>2, <4>1
    <3>4. ASSUME NEW q \in Proc
          PROVE  tab[q].sz = pr[q].sz /\ tab[q].low = pr[q].low /\ tab[q].st = pr[q].st /\ DOMAIN tab[q] = ProcFields
      <4>1. DOMAIN pr[q] = ProcFields
        BY DEF RefInv, ProcsOk, IsProc
      <4>2. tab[q] = IF pr[q].parent = p THEN [pr[q] EXCEPT !.parent = INIT] ELSE pr[q]
        BY <3>1 DEF reparent
      <4> QED BY <4>1, <4>2 DEF ProcFields
    <3>5. r.sz = pr[p].sz /\ r.low = pr[p].low /\ r.st = "zombie"
      BY <3>2, <3>4 DEF ProcFields
    <3>6. \A q \in Proc : pr'[q] = IF q = p THEN r ELSE tab[q]
      BY <3>1, <3>3 DEF reparent
    <3> QED BY <1>2, <3>4, <3>5, <3>6 DEF SameMemory
  <2> QED BY <1>2, <2>1, <2>2
<1> QED BY <1>1, <1>3, StillPages

\* A pipe as it is made.
NewPipe == [open |-> TRUE, data |-> <<>>, readopen |-> TRUE, writeopen |-> TRUE]

\* A pipe that was not there gets its two ends.
LEMMA PipeOpened ==
    ASSUME NEW R, NEW W, NEW pp, PipesOk(R, W, pp), NEW q \in Pipe, ~pp[q].open,
           NEW f0 \in File, NEW f1 \in File, R[f0] = None, W[f1] = None
    PROVE  /\ PipesOk(With(R, f0, q), With(W, f1, q), With(pp, q, NewPipe))
           /\ OpenPipes(With(pp, q, NewPipe)) = OpenPipes(pp) \cup {q}
<1>1. PICK R2, W2, t : R2 = With(R, f0, q) /\ W2 = With(W, f1, q) /\ t = With(pp, q, NewPipe)
  OBVIOUS
<1>2. DOMAIN pp = Pipe /\ R \in [File -> 0..NPIPE] /\ W \in [File -> 0..NPIPE] /\ Alone(R) /\ Alone(W)
  BY DEF PipesOk
<1>3. q \in 0..NPIPE /\ q # None
  BY KernelAssumption DEF Pipe, None
<1>4. R2 \in [File -> 0..NPIPE] /\ W2 \in [File -> 0..NPIPE] /\ DOMAIN t = Pipe
  BY <1>1, <1>2, <1>3 DEF With
<1>5. \A f \in File : R2[f] = (IF f = f0 THEN q ELSE R[f]) /\ W2[f] = (IF f = f1 THEN q ELSE W[f])
  BY <1>1, <1>2 DEF With
<1>6. \A x \in Pipe : t[x] = IF x = q THEN NewPipe ELSE pp[x]
  BY <1>1, <1>2 DEF With
<1>7. \A f \in File : R[f] # q /\ W[f] # q
  BY DEF PipesOk
<1>8. Alone(R2)
  BY <1>2, <1>5, <1>7 DEF Alone
<1>9. Alone(W2)
  BY <1>2, <1>5, <1>7 DEF Alone
<1>10. ASSUME NEW x \in Pipe
       PROVE  /\ DOMAIN t[x] = PipeFields
              /\ t[x].open <=> t[x].readopen \/ t[x].writeopen
              /\ t[x].readopen <=> \E f \in File : R2[f] = x
              /\ t[x].writeopen <=> \E f \in File : W2[f] = x
  <2>1. CASE x = q
    <3>1. t[x] = NewPipe /\ R2[f0] = x /\ W2[f1] = x
      BY <1>5, <1>6, <2>1
    <3>2. DOMAIN NewPipe = PipeFields
      BY DEF NewPipe, PipeFields
    <3> QED BY <3>1, <3>2 DEF NewPipe
  <2>2. CASE x # q
    <3>1. t[x] = pp[x]
      BY <1>6, <2>2
    <3>2. x # None
      BY KernelAssumption DEF Pipe, None
    <3>3. (\E f \in File : R2[f] = x) <=> \E f \in File : R[f] = x
      BY <1>5, <2>2, <3>2
    <3>4. (\E f \in File : W2[f] = x) <=> \E f \in File : W[f] = x
      BY <1>5, <2>2, <3>2
    <3> QED BY <3>1, <3>3, <3>4 DEF PipesOk
  <2> QED BY <2>1, <2>2
<1>11. PipesOk(R2, W2, t)
  BY <1>4, <1>8, <1>9, <1>10 DEF PipesOk
<1>12. OpenPipes(t) = OpenPipes(pp) \cup {q}
  BY <1>6 DEF OpenPipes, NewPipe
<1> QED BY <1>1, <1>11, <1>12

\* pipe(): a page of the free list becomes the pipe.
LEMMA PipePages ==
    ASSUME RefInv, PipeInv, PageInv, NEW p \in Proc, SysPipe(p), total' = total
    PROVE  PipeInv' /\ PageInv'
<1>1. PICK f0, d0 : f0 = Smallest(freeFiles) /\ d0 = Smallest(freeFds(p))
  OBVIOUS
<1>2. PICK f1, d1 : f1 = Smallest(freeFiles \ {f0}) /\ d1 = Smallest(freeFds(p) \ {d0})
  OBVIOUS
<1>3. PICK q : q = Smallest({x \in Pipe : ~pipe[x].open})
  OBVIOUS
<1>4. PICK e0, e1 : /\ e0 = [ref |-> 1, type |-> "pipe", r |-> TRUE, w |-> FALSE, ip |-> None, off |-> 0, pipe |-> q]
                    /\ e1 = [ref |-> 1, type |-> "pipe", r |-> FALSE, w |-> TRUE, ip |-> None, off |-> 0, pipe |-> q]
  OBVIOUS
<1>5. PICK error : error = (\/ Cardinality(freeFiles) < 2 \/ free = 0 \/ Cardinality(freeFds(p)) < 2
                            \/ ~userRange(pr[p].sz, I(p).va, 2))
  OBVIOUS
<1>6. CASE error
  BY <1>5, <1>6, NamesPages DEF SysPipe
<1>7. CASE ~error
  <2>1. /\ file' = With(With(file, f0, e0), f1, e1) /\ pr' = WithFd(WithFd(pr, p, d0, f0), p, d1, f1)
        /\ pipe' = With(pipe, q, NewPipe) /\ free' = free - 1
    BY <1>1, <1>2, <1>3, <1>4, <1>5, <1>7 DEF SysPipe, pipealloc, With, WithFd, NewPipe
  <2>2. ~(Cardinality(freeFds(p)) < 2) /\ ~(Cardinality(freeFiles) < 2)
    BY <1>5, <1>7
  <2>3. /\ d0 \in Fd /\ d1 \in Fd
        /\ f0 \in File /\ f1 \in File /\ f0 # f1 /\ file[f0].ref = 0 /\ file[f1].ref = 0
    BY <1>1, <1>2, <2>2, TwoFree
  <2>4. FilesOk(file) /\ ProcsOk(pr)
    BY DEF RefInv
  <2>5. q \in Pipe /\ ~pipe[q].open
    BY <1>3, <2>2, <2>4, PipeFree
  <2>6. PICK fl : fl = With(file, f0, e0)
    OBVIOUS
  <2>7. IsFile(e0) /\ IsFile(e1)
    BY <1>4, <2>5 DEF IsFile, FileFields
  <2>8. FilesOk(fl)
    BY <2>3, <2>4, <2>6, <2>7, EntryOk
  <2>9. PICK R, W : R = Readers(file) /\ W = Writers(file)
    OBVIOUS
  <2>10. PipesOk(R, W, pipe) /\ free \in Int
    BY <2>9 DEF PipeInv
  <2>11. R[f0] = None /\ W[f0] = None /\ R[f1] = None /\ W[f1] = None
    <3>1. file[f0].type # "pipe" /\ file[f1].type # "pipe"
      BY <2>3, <2>4 DEF FilesOk, IsFile
    <3> QED BY <2>3, <2>9, <3>1 DEF Readers, Writers
  <2>12. Readers(fl) = With(R, f0, q) /\ Writers(fl) = With(W, f0, None)
    <3>1. (IF e0.type = "pipe" /\ ~e0.w THEN e0.pipe ELSE None) = q /\ (IF e0.type = "pipe" /\ e0.w THEN e0.pipe ELSE None) = None
      BY <1>4
    <3> QED BY <2>3, <2>4, <2>6, <2>9, <3>1, EntryEnds
  <2>13. Writers(fl) = W
    <3>1. DOMAIN W = File /\ W = [f \in File |-> W[f]]
      BY <2>9 DEF Writers
    <3> QED BY <2>11, <2>12, <3>1 DEF With
  <2>14. Readers(file') = With(Readers(fl), f1, None) /\ Writers(file') = With(Writers(fl), f1, q)
    <3>1. (IF e1.type = "pipe" /\ ~e1.w THEN e1.pipe ELSE None) = None /\ (IF e1.type = "pipe" /\ e1.w THEN e1.pipe ELSE None) = q
      BY <1>4
    <3>2. file' = With(fl, f1, e1)
      BY <2>1, <2>6
    <3> QED BY <2>3, <2>8, <3>1, <3>2, EntryEnds
  <2>15. Readers(file') = With(R, f0, q)
    <3>1. DOMAIN R = File
      BY <2>9 DEF Readers
    <3> QED BY <2>3, <2>11, <2>12, <2>14, <3>1 DEF With
  <2>16. /\ PipesOk(Readers(file'), Writers(file'), pipe')
         /\ OpenPipes(pipe') = OpenPipes(pipe) \cup {q}
    BY <2>1, <2>3, <2>5, <2>10, <2>11, <2>13, <2>14, <2>15, PipeOpened
  <2>17. free' \in Int
    BY <2>1, <2>10
  <2>18. Pool(free', pipe') = Pool(free, pipe)
    <3>1. q \notin OpenPipes(pipe)
      BY <2>5 DEF OpenPipes
    <3>2. OpenPipes(pipe) = OpenPipes(pipe') \ {q} /\ q \in OpenPipes(pipe')
      BY <2>16, <3>1
    <3>3. Pool(free' + 1, pipe) = Pool(free', pipe')
      BY <2>5, <2>17, <3>2, PoolClosed
    <3>4. free' + 1 = free
      BY <2>1, <2>10
    <3> QED BY <3>3, <3>4
  <2>19. SameMemory(pr, pr')
    <3>1. PICK tab : tab = WithFd(pr, p, d0, f0)
      OBVIOUS
    <3>2. ASSUME NEW x \in Proc PROVE tab[x].sz = pr[x].sz /\ tab[x].low = pr[x].low /\ tab[x].st = pr[x].st /\ DOMAIN tab[x] = ProcFields
      <4>1. DOMAIN pr = Proc /\ DOMAIN pr[x] = ProcFields
        BY <2>4 DEF ProcsOk, IsProc
      <4> QED BY <3>1, <4>1 DEF WithFd, ProcFields
    <3>3. DOMAIN tab = Proc
      BY <2>4, <3>1 DEF ProcsOk, WithFd
    <3>4. pr' = WithFd(tab, p, d1, f1)
      BY <2>1, <3>1
    <3>5. ASSUME NEW x \in Proc PROVE pr'[x].sz = tab[x].sz /\ pr'[x].low = tab[x].low /\ pr'[x].st = tab[x].st
      BY <3>2, <3>3, <3>4 DEF WithFd, ProcFields
    <3> QED BY <3>2, <3>5 DEF SameMemory
  <2>20. PipeInv'
    BY <2>16, <2>17 DEF PipeInv
  <2> QED BY <2>18, <2>19, <2>20, StillPages
<1> QED BY <1>6, <1>7

\* The calls that have nothing to do with memory or files.
LEMMA OthersPages ==
    ASSUME PipeInv, PageInv, NEW p \in Proc, total' = total,
           \/ SysLink(p) \/ SysUnlink(p) \/ SysMkdir(p) \/ SysMknod(p)
           \/ SysFstat(p) \/ SysSleep(p) \/ SysGetpid(p) \/ UserChoose(p)
    PROVE  PipeInv' /\ PageInv'
<1>1. UNCHANGED <<file, pipe, free, pr>>
  BY DEF SysLink, SysUnlink, SysMkdir, SysMknod, NameCall, SysFstat, SysSleep, SysGetpid, UserChoose
<1> QED BY <1>1, NamesPages

\* Every step of the kernel.
LEMMA StepPages ==
    ASSUME RefInv, PipeInv, PageInv, ArgumentsTyped, NEW p \in Proc, Step(p), total' = total
    PROVE  PipeInv' /\ PageInv'
<1>1. ASSUME NEW op, At(p, op) PROVE TypedCall(I(p)) /\ I(p).op = op
  BY <1>1 DEF At, I, ArgumentsTyped
<1>2. SysSbrk(p) => I(p).n \in Int
  BY <1>1 DEF SysSbrk, Alive, TypedCall
<1>3. SysExec(p) => Len(I(p).args) \in Nat
  BY <1>1 DEF SysExec, Alive, TypedCall
<1>4. CASE SysDup(p) \/ SysClose(p) \/ SysOpen(p) \/ SysRead(p) \/ SysWrite(p)
  BY <1>4, DupPages, ClosePages, OpenPages, ReadPages, WritePages
<1>5. CASE SysPipe(p) \/ SysFork(p) \/ SysWait(p) \/ SysKill(p) \/ SysChdir(p)
  BY <1>5, PipePages, ForkPages, WaitPages, KillPages, ChdirPages
<1>6. CASE SysSbrk(p)
  BY <1>2, <1>6, SbrkPages
<1>7. CASE SysExec(p)
  BY <1>3, <1>7, ExecPages
<1>8. CASE \/ SysLink(p) \/ SysUnlink(p) \/ SysMkdir(p) \/ SysMknod(p)
           \/ SysFstat(p) \/ SysSleep(p) \/ SysGetpid(p) \/ UserChoose(p)
  BY <1>8, OthersPages
<1>9. CASE SysExit(p) \/ SysExitReg(p) \/ Die(p) \/ UserTouch(p)
  BY <1>9, EndsPages
<1> QED BY <1>4, <1>5, <1>6, <1>7, <1>8, <1>9 DEF Step

\* A machine boots with its pages in the free list and in its processes.
LEMMA BootPages ==
    ASSUME NEW machine, machine.pages \in Nat, Boot(machine)
    PROVE  PipeInv /\ PageInv
<1>1. RefInv
  BY BootRefs
<1> DEFINE n == IF machine.fresh THEN 1 ELSE 2
<1>2. n \in {1, 2} /\ n \in Nat
  OBVIOUS
<1>3. PICK O : O = [fd \in Fd |-> IF fd <= 2 /\ n = 2 THEN 1 ELSE None]
  OBVIOUS
<1>4. PICK p0 : p0 = [NoProc EXCEPT !.st = "live", !.cwd = ROOTINO, !.sz = ImageSize, !.low = ImageTables, !.ofile = O]
  OBVIOUS
<1>5. PICK c : c = [NoFile EXCEPT !.ref = 6, !.type = "device", !.r = TRUE, !.w = TRUE, !.ip = 2]
  OBVIOUS
<1>6. /\ file = [f \in File |-> IF f = 1 /\ n = 2 THEN c ELSE NoFile]
      /\ pipe = [q \in Pipe |-> NoPipe] /\ free = machine.pages
      /\ pr = [p \in Proc |-> CASE p = INIT -> p0 [] p = n /\ n # INIT -> [p0 EXCEPT !.parent = INIT] [] OTHER -> NoProc]
      /\ total.pages = machine.pages + n * Footprint(ImageSize, ImageTables)
  BY <1>3, <1>4, <1>5 DEF Boot
<1> HIDE DEF n
<1>7. c.type # "pipe" /\ NoFile.type # "pipe"
  BY <1>5 DEF NoFile
<1>8. \A f \in File : Readers(file)[f] = None /\ Writers(file)[f] = None
  BY <1>6, <1>7 DEF Readers, Writers
<1>9. PipeInv
  <2>1. PICK R, W : R = Readers(file) /\ W = Writers(file)
    OBVIOUS
  <2>2. None \in 0..NPIPE /\ \A q \in Pipe : q # None
    BY KernelAssumption DEF None, Pipe
  <2>3. R \in [File -> 0..NPIPE] /\ W \in [File -> 0..NPIPE]
    <3>1. DOMAIN R = File /\ DOMAIN W = File /\ R = [f \in File |-> R[f]] /\ W = [f \in File |-> W[f]]
      BY <2>1 DEF Readers, Writers
    <3> QED BY <1>8, <2>1, <2>2, <3>1
  <2>4. Alone(R) /\ Alone(W)
    BY <1>8, <2>1 DEF Alone
  <2>5. \A q \in Pipe : DOMAIN pipe[q] = PipeFields /\ ~pipe[q].open /\ ~pipe[q].readopen /\ ~pipe[q].writeopen
    BY <1>6 DEF NoPipe, PipeFields
  <2>6. DOMAIN pipe = Pipe
    BY <1>6
  <2>7. PipesOk(R, W, pipe)
    BY <1>8, <2>1, <2>2, <2>3, <2>4, <2>5, <2>6 DEF PipesOk
  <2>8. free \in Int
    BY <1>6
  <2> QED BY <2>1, <2>7, <2>8 DEF PipeInv
<1>10. InMemory(ImageSize, ImageTables)
  <2>1. PGSIZE \in Nat \ {0} /\ PTES \in Nat \ {0} /\ IMAGE \in Nat /\ IMAGE + 1 \in Int
    BY MemAssumption
  <2>2. (IMAGE + 1) \div PTES \in Int
    BY <2>1, DivMod
  <2>3. ImageTables \in Int
    BY <2>2 DEF ImageTables, tablesFor
  <2>4. ImageSize \in Nat
    BY <2>1 DEF ImageSize
  <2> QED BY <2>3, <2>4 DEF InMemory
<1>11. PICK F : F = Footprint(ImageSize, ImageTables)
  OBVIOUS
<1>12. F \in Int
  BY <1>10, <1>11, FootprintInt
<1>13. p0.sz = ImageSize /\ p0.low = ImageTables /\ p0.st = "live" /\ DOMAIN p0 = ProcFields
  BY <1>4 DEF NoProc, ProcFields
<1>14. PICK p1 : p1 = [p0 EXCEPT !.parent = INIT]
  OBVIOUS
<1>15. p1.sz = ImageSize /\ p1.low = ImageTables /\ p1.st = "live"
  BY <1>13, <1>14 DEF ProcFields
<1>16. NoProc.sz = 0 /\ NoProc.low = 0 /\ NoProc.st = "unused" /\ InMemory(NoProc.sz, NoProc.low)
  BY DEF NoProc, InMemory
<1>17. Keeps(p0) = F /\ Keeps(p1) = F /\ Keeps(NoProc) = 0
  BY <1>11, <1>13, <1>15, <1>16 DEF Keeps
<1>18. 1 \in Proc /\ 2 \in Proc /\ Proc = 1..NPROC /\ NPROC \in Nat
  BY KernelAssumption DEF Proc
<1>19. ASSUME NEW p \in Proc
       PROVE  pr[p] = IF p = 1 THEN p0 ELSE IF p = n THEN p1 ELSE NoProc
  <2>1. CASE p = 1
    BY <1>6, <2>1 DEF INIT
  <2>2. CASE p # 1 /\ p = n
    BY <1>6, <1>14, <2>2 DEF INIT
  <2>3. CASE p # 1 /\ p # n
    BY <1>6, <2>3 DEF INIT
  <2> QED BY <2>1, <2>2, <2>3
<1>20. MemOk(pr)
  <2> SUFFICES ASSUME NEW p \in Proc PROVE InMemory(pr[p].sz, pr[p].low)
    BY DEF MemOk
  <2>1. pr[p] \in {p0, p1, NoProc}
    BY <1>19
  <2> QED BY <1>10, <1>13, <1>15, <1>16, <2>1
<1>21. Summed(Kept(pr), NPROC) = n * F
  <2>1. PICK z, g, h : /\ z = [p \in Proc |-> 0]
                       /\ g = [p \in Proc |-> IF p = 1 THEN F ELSE 0]
                       /\ h = Kept(pr)
    OBVIOUS
  <2>2. \A p \in Proc : h[p] = IF p = 1 \/ p = n THEN F ELSE 0
    <3> SUFFICES ASSUME NEW p \in Proc PROVE h[p] = IF p = 1 \/ p = n THEN F ELSE 0
      OBVIOUS
    <3>1. h[p] = Keeps(pr[p])
      BY <2>1 DEF Kept
    <3> QED BY <1>17, <1>19, <3>1
  <2>3. PICK a \in 1..NPROC, b \in 1..NPROC : a = 1 /\ b = 2
    BY <1>18
  <2>4. Summed(z, NPROC) = 0
    BY <1>18, <2>1, SummedZero
  <2>5. Summed(g, NPROC) = Summed(z, NPROC) - z[a] + g[a]
    <3>1. Differ(z, g, NPROC, a)
      BY <1>12, <1>18, <2>1, <2>3 DEF Differ
    <3>2. NPROC \in Nat /\ a \in 1..NPROC
      BY <1>18, <2>3
    <3>3. Summed(z, NPROC) \in Int /\ Summed(g, NPROC) = Summed(z, NPROC) - z[a] + g[a]
      BY <3>1, <3>2, SummedChange
    <3> QED BY <3>3
  <2>6. z[a] = 0 /\ g[a] = F /\ g[b] = 0
    BY <1>18, <2>1, <2>3
  <2>7. Summed(g, NPROC) = F
    BY <1>12, <2>4, <2>5, <2>6
  <2>8. Summed(h, NPROC) = Summed(g, NPROC) - g[b] + h[b]
    <3>1. Differ(g, h, NPROC, b)
      BY <1>2, <1>12, <1>18, <2>1, <2>2, <2>3 DEF Differ
    <3>2. NPROC \in Nat /\ b \in 1..NPROC
      BY <1>18, <2>3
    <3>3. Summed(g, NPROC) \in Int /\ Summed(h, NPROC) = Summed(g, NPROC) - g[b] + h[b]
      BY <3>1, <3>2, SummedChange
    <3> QED BY <3>3
  <2>9. h[b] = IF n = 2 THEN F ELSE 0
    BY <1>2, <1>18, <2>2, <2>3
  <2>10. CASE n = 1
    <3>1. h[b] = 0
      BY <2>9, <2>10
    <3> QED BY <1>12, <2>1, <2>6, <2>7, <2>8, <2>10, <3>1
  <2>11. CASE n = 2
    <3>1. h[b] = F
      BY <2>9, <2>11
    <3>2. F - 0 + F = 2 * F
      BY <1>12
    <3> QED BY <2>1, <2>6, <2>7, <2>8, <2>11, <3>1, <3>2
  <2> QED BY <1>2, <2>10, <2>11
<1>22. Pool(free, pipe) = machine.pages
  <2>1. OpenPipes(pipe) = {}
    BY <1>6 DEF OpenPipes, NoPipe
  <2>2. Cardinality({}) = 0
    BY FS_EmptySet
  <2>3. free = machine.pages
    BY <1>6
  <2>4. Pool(free, pipe) = machine.pages + 0
    BY <2>1, <2>2, <2>3 DEF Pool
  <2> QED BY <2>4
<1>23. PageInv
  BY <1>6, <1>11, <1>20, <1>21, <1>22 DEF PageInv
<1> QED BY <1>9, <1>23

---------------------------------------------------------------------------
(* The blocks of the disk.                                                 *)

\* The entries of a directory name inodes of the disk, or none.
IsListing(d) == \E E : d \in Seq(E) /\ \A e \in E : e.inum \in 0..NINODES

\* An inode counts its blocks; a directory is one, and a free inode is an empty one.
IsNode(r) == /\ r.nb \in Int /\ r.ind \in Int
             /\ r.type \in {"dir", "free"} => IsListing(r.data)
Sound(s) == IsFs(s) /\ s.free \in Int /\ \A j \in Inum : IsNode(s.ino[j])

\* The blocks of the inodes, and all those that are free or of an inode.
Owned(x) == [j \in Inum |-> x[j].nb + x[j].ind]
Stock(s) == s.free + Summed(Owned(s.ino), NINODES)

\* A step that loses no block and breaks no directory; calm when it makes no directory either.
Steady(s, t) ==
    /\ Sound(t) /\ Stock(t) = Stock(s)
    /\ \A j \in Inum : IsListing(s.ino[j].data) => IsListing(t.ino[j].data)
Calm(s, t) ==
    Steady(s, t) /\ \A j \in Inum : t.ino[j].type \in {s.ino[j].type, "free"}

\* One step after another.
LEMMA SteadyTrans ==
    ASSUME NEW s, NEW t, NEW u, Steady(s, t), Steady(t, u)
    PROVE  Steady(s, u)
BY DEF Steady

LEMMA CalmTrans ==
    ASSUME NEW s, NEW t, NEW u, Calm(s, t), Calm(t, u)
    PROVE  Calm(s, u)
<1>1. Steady(s, u)
  BY SteadyTrans DEF Calm
<1>2. \A j \in Inum : u.ino[j].type \in {s.ino[j].type, "free"}
  BY DEF Calm
<1> QED BY <1>1, <1>2 DEF Calm

\* What a step does to the inode i and to the free blocks, in balance.
Trade(s, t, i) ==
    /\ \A j \in Inum : j # i => t.ino[j] = s.ino[j]
    /\ IsNode(t.ino[i]) /\ t.free \in Int
    /\ t.free + (t.ino[i].nb + t.ino[i].ind) = s.free + (s.ino[i].nb + s.ino[i].ind)

\* A trade keeps the stock.
LEMMA TradeStock ==
    ASSUME NEW s, NEW t, NEW i \in Inum, Sound(s), IsFs(t), Trade(s, t, i)
    PROVE  Sound(t) /\ Stock(t) = Stock(s)
<1>1. Sound(t)
  BY DEF Sound, Trade
<1>2. PICK f : f = Owned(s.ino)
  OBVIOUS
<1>3. PICK g : g = Owned(t.ino)
  OBVIOUS
<1>4. \A j \in Inum : f[j] = s.ino[j].nb + s.ino[j].ind /\ g[j] = t.ino[j].nb + t.ino[j].ind
  BY <1>2, <1>3 DEF Owned
<1>5. \A j \in Inum : f[j] \in Int /\ g[j] \in Int /\ (j # i => g[j] = f[j])
  <2> SUFFICES ASSUME NEW j \in Inum PROVE f[j] \in Int /\ g[j] \in Int /\ (j # i => g[j] = f[j])
    OBVIOUS
  <2>1. IsNode(s.ino[j]) /\ IsNode(t.ino[j])
    BY <1>1 DEF Sound
  <2>2. j # i => t.ino[j] = s.ino[j]
    BY DEF Trade
  <2> QED BY <1>4, <2>1, <2>2 DEF IsNode
<1>6. NINODES \in Nat /\ Inum = 1..NINODES
  BY FsAssumption DEF Inum
<1>7. Differ(f, g, NINODES, i) /\ i \in 1..NINODES
  BY <1>5, <1>6 DEF Differ
<1>8. Summed(f, NINODES) \in Int /\ Summed(g, NINODES) = Summed(f, NINODES) - f[i] + g[i]
  BY <1>6, <1>7, SummedChange
<1>9. t.free + g[i] = s.free + f[i] /\ t.free \in Int /\ s.free \in Int
  BY <1>4 DEF Trade, Sound
<1>10. f[i] \in Int /\ g[i] \in Int
  BY <1>5
<1>11. PICK a, b, c, d, e, h : /\ a = t.free /\ b = s.free /\ c = f[i] /\ d = g[i]
                               /\ e = Summed(f, NINODES) /\ h = Summed(g, NINODES)
  OBVIOUS
<1>12. a + h = b + e
  <2>1. {a, b, c, d, e} \subseteq Int /\ a + d = b + c /\ h = e - c + d
    BY <1>8, <1>9, <1>10, <1>11
  <2> QED BY <2>1
<1>13. Stock(t) = a + h /\ Stock(s) = b + e
  BY <1>2, <1>3, <1>11 DEF Stock
<1> QED BY <1>1, <1>12, <1>13

\* It is calm when it keeps a listing and makes nothing but a free inode.
LEMMA TradeCalm ==
    ASSUME NEW s, NEW t, NEW i \in Inum, Sound(s), IsFs(t), Trade(s, t, i),
           IsListing(s.ino[i].data) => IsListing(t.ino[i].data),
           t.ino[i].type \in {s.ino[i].type, "free"}
    PROVE  Calm(s, t)
<1>1. Sound(t) /\ Stock(t) = Stock(s)
  BY TradeStock
<1>2. \A j \in Inum : j # i => t.ino[j] = s.ino[j]
  BY DEF Trade
<1>3. \A j \in Inum : IsListing(s.ino[j].data) => IsListing(t.ino[j].data)
  BY <1>2
<1>4. \A j \in Inum : t.ino[j].type \in {s.ino[j].type, "free"}
  BY <1>2
<1> QED BY <1>1, <1>3, <1>4 DEF Calm, Steady

\* The same contents: nothing but links, references and panics.
Alike(x, y) == \A j \in Inum : /\ y[j].type = x[j].type /\ y[j].data = x[j].data
                               /\ y[j].nb = x[j].nb /\ y[j].ind = x[j].ind

LEMMA AlikeCalm ==
    ASSUME NEW s, NEW t, Sound(s), IsFs(t), t.free = s.free, Alike(s.ino, t.ino)
    PROVE  Calm(s, t)
<1>1. Sound(t)
  BY DEF Sound, Alike, IsNode
<1>2. Owned(t.ino) = Owned(s.ino)
  BY DEF Owned, Alike
<1>3. Stock(t) = Stock(s)
  BY <1>2 DEF Stock
<1> QED BY <1>1, <1>3 DEF Calm, Steady, Alike

LEMMA CalmSelf ==
    ASSUME NEW s, Sound(s)
    PROVE  Calm(s, s)
BY AlikeCalm DEF Sound, Alike

\* A listing: none yet, one entry more or another.
LEMMA ListingEmpty == IsListing(<<>>)
<1>1. PICK E : E = {}
  OBVIOUS
<1>2. <<>> \in Seq(E)
  OBVIOUS
<1>3. \A e \in E : e.inum \in 0..NINODES
  BY <1>1
<1> QED BY <1>2, <1>3 DEF IsListing

\* An entry of a listing names an inode, or none.
LEMMA ListingHas ==
    ASSUME NEW d, IsListing(d), NEW k \in DOMAIN d
    PROVE  d[k].inum \in 0..NINODES
<1>1. PICK E : d \in Seq(E) /\ \A e \in E : e.inum \in 0..NINODES
  BY DEF IsListing
<1>2. d[k] \in E
  BY <1>1
<1> QED BY <1>1, <1>2

\* An entry is replaced.
LEMMA ListingSet ==
    ASSUME NEW d, IsListing(d), NEW k, NEW e, e.inum \in 0..NINODES
    PROVE  IsListing(With(d, k, e))
<1>1. PICK E : d \in Seq(E) /\ \A x \in E : x.inum \in 0..NINODES
  BY DEF IsListing
<1>2. PICK F : F = E \cup {e}
  OBVIOUS
<1>3. d \in [1..Len(d) -> E] /\ Len(d) \in Nat
  BY <1>1
<1>4. PICK h : h = With(d, k, e)
  OBVIOUS
<1>5. h \in [1..Len(d) -> F]
  BY <1>2, <1>3, <1>4 DEF With
<1>6. h \in Seq(F)
  <2>1. PICK n \in Nat : n = Len(d)
    BY <1>3
  <2>2. h \in [1..n -> F]
    BY <1>5, <2>1
  <2> QED BY <2>2
<1>7. \A x \in F : x.inum \in 0..NINODES
  BY <1>1, <1>2
<1> QED BY <1>4, <1>6, <1>7 DEF IsListing

\* firstFree() is an entry, or the place behind the last.
LEMMA FirstFreeIs ==
    ASSUME NEW d, IsListing(d)
    PROVE  firstFree(d) \in 0..Len(d) /\ Len(d) \in Nat
<1>1. PICK E : d \in Seq(E)
  BY DEF IsListing
<1>2. PICK frees : frees = {k \in DOMAIN d : d[k].inum = None}
  OBVIOUS
<1>3. Len(d) \in Nat /\ DOMAIN d = 1..Len(d)
  BY <1>1
<1>4. frees \in SUBSET Nat /\ frees \subseteq 1..Len(d)
  BY <1>2, <1>3
<1>5. PICK k : k = CHOOSE j \in frees : \A m \in frees : j <= m
  OBVIOUS
<1>6. frees # {} => k \in frees
  BY <1>4, <1>5, LeastNumber
<1>7. firstFree(d) = IF frees = {} THEN Len(d) ELSE k - 1
  BY <1>2, <1>5 DEF firstFree
<1>8. ASSUME frees # {} PROVE k - 1 \in 0..Len(d)
  <2>1. k \in 1..Len(d)
    BY <1>4, <1>6, <1>8
  <2> QED BY <1>3, <2>1
<1>9. Len(d) \in 0..Len(d)
  BY <1>3
<1> QED BY <1>3, <1>7, <1>8, <1>9

\* An entry is written over another, or behind the last.
LEMMA ListingWrite ==
    ASSUME NEW d, IsListing(d), NEW off \in 0..Len(d), NEW e, e.inum \in 0..NINODES
    PROVE  IsListing(Overwrite(d, off, <<e>>))
<1>1. PICK E : d \in Seq(E) /\ \A x \in E : x.inum \in 0..NINODES
  BY DEF IsListing
<1>2. PICK F : F = E \cup {e}
  OBVIOUS
<1>3. d \in Seq(F) /\ Len(d) \in Nat
  BY <1>1, <1>2
<1>4. PICK a : a = SubSeq(d, 1, off)
  OBVIOUS
<1>5. PICK b : b = SubSeq(d, off + 2, Len(d))
  OBVIOUS
<1>6. a \in Seq(F) /\ b \in Seq(F)
  <2>1. 1 <= 1 /\ off <= Len(d) /\ off \in Int /\ 1 <= off + 2
    BY <1>3
  <2>2. a \in Seq(F)
    BY <1>3, <1>4, <2>1
  <2>3. b \in Seq(F)
    BY <1>3, <1>5, <2>1
  <2> QED BY <2>2, <2>3
<1>7. <<e>> \in Seq(F) /\ Len(<<e>>) = 1
  BY <1>2
<1>8. a \o <<e>> \o b \in Seq(F)
  <2>1. a \o <<e>> \in Seq(F)
    BY <1>6, <1>7
  <2> QED BY <1>6, <2>1
<1>9. Overwrite(d, off, <<e>>) = a \o <<e>> \o b
  <2>1. off + Len(<<e>>) + 1 = off + 2
    BY <1>3, <1>7
  <2> QED BY <1>4, <1>5, <2>1 DEF Overwrite
<1>10. \A x \in F : x.inum \in 0..NINODES
  BY <1>1, <1>2
<1> QED BY <1>8, <1>9, <1>10 DEF IsListing

\* The links of an inode.
LEMMA LinksCalm ==
    ASSUME NEW s, NEW i, NEW n, Sound(s)
    PROVE  Calm(s, WithIno(s, [s.ino EXCEPT ![i].nlink = n]))
<1>1. PICK x : x = [s.ino EXCEPT ![i].nlink = n]
  OBVIOUS
<1>2. PICK t : t = WithIno(s, x)
  OBVIOUS
<1>3. IsFs(s)
  BY DEF Sound
<1>4. Shaped(x) /\ Alike(s.ino, x)
  BY <1>1, <1>3 DEF IsFs, Shaped, Alike, InodeFields
<1>5. IsFs(t) /\ t.free = s.free /\ t.ino = x
  BY <1>2, <1>3, <1>4 DEF IsFs, WithIno
<1>6. Calm(s, t)
  BY <1>4, <1>5, AlikeCalm
<1> QED BY <1>1, <1>2, <1>6

\* iget() and ilock() change no inode.
LEMMA IgetCalm ==
    ASSUME NEW s, NEW i, Sound(s)
    PROVE  Calm(s, iget(s, i))
<1>1. PICK t : t = iget(s, i)
  OBVIOUS
<1>2. IsFs(s) /\ IsFs(t)
  BY <1>1, IgetMoves DEF Sound, Moves
<1>3. t.free = s.free /\ t.ino = s.ino
  BY <1>1, <1>2 DEF iget, Panic, IsFs
<1>4. Alike(s.ino, t.ino)
  BY <1>3 DEF Alike
<1> QED BY <1>1, <1>2, <1>3, <1>4, AlikeCalm

LEMMA IlockCalm ==
    ASSUME NEW s, NEW i, Sound(s)
    PROVE  Calm(s, ilock(s, i))
<1>1. PICK t : t = ilock(s, i)
  OBVIOUS
<1>2. IsFs(s) /\ IsFs(t)
  BY <1>1, IlockMoves DEF Sound, Moves
<1>3. t.free = s.free /\ t.ino = s.ino
  BY <1>1, <1>2 DEF ilock, Panic, IsFs
<1>4. Alike(s.ino, t.ino)
  BY <1>3 DEF Alike
<1> QED BY <1>1, <1>2, <1>3, <1>4, AlikeCalm

\* itrunc() gives the blocks of an inode back.
LEMMA ItruncCalm ==
    ASSUME NEW s, NEW i \in Inum, Sound(s)
    PROVE  Calm(s, itrunc(s, i)) /\ itrunc(s, i).ino[i].nb = 0 /\ itrunc(s, i).ino[i].ind = 0
<1>1. PICK t : t = itrunc(s, i)
  OBVIOUS
<1>2. PICK x : x = [s.ino EXCEPT ![i].data = <<>>, ![i].nb = 0, ![i].ind = 0]
  OBVIOUS
<1>3. IsFs(s) /\ IsFs(t) /\ IsNode(s.ino[i]) /\ s.free \in Int
  BY <1>1, ItruncSame DEF Sound, Same
<1>4. t.ino = x /\ t.free = s.free + s.ino[i].nb + s.ino[i].ind
  BY <1>1, <1>2, <1>3 DEF itrunc, IsFs
<1>5. /\ x[i].nb = 0 /\ x[i].ind = 0 /\ x[i].data = <<>> /\ x[i].type = s.ino[i].type
      /\ \A j \in Inum : j # i => x[j] = s.ino[j]
  BY <1>2, <1>3 DEF IsFs, Shaped, InodeFields
<1>6. IsNode(x[i])
  BY <1>5, ListingEmpty DEF IsNode
<1>7. t.free \in Int /\ t.free + (x[i].nb + x[i].ind) = s.free + (s.ino[i].nb + s.ino[i].ind)
  BY <1>3, <1>4, <1>5 DEF IsNode
<1>8. Trade(s, t, i)
  BY <1>4, <1>5, <1>6, <1>7 DEF Trade
<1>9. Calm(s, t)
  BY <1>3, <1>4, <1>5, <1>8, ListingEmpty, TradeCalm
<1> QED BY <1>1, <1>4, <1>5, <1>9

\* iput() gives the blocks of the inode back with the inode, or leaves it.
LEMMA IputCalm ==
    ASSUME NEW s, NEW i \in Inum, Sound(s)
    PROVE  Calm(s, iput(s, i))
<1>1. PICK t : t = iput(s, i)
  OBVIOUS
<1>2. PICK u : u = itrunc(s, i)
  OBVIOUS
<1>3. PICK v : v = [u EXCEPT !.ino[i] = NoInode]
  OBVIOUS
<1>4. Calm(s, u) /\ u.ino[i].nb = 0 /\ u.ino[i].ind = 0
  BY <1>2, ItruncCalm
<1>5. Sound(u) /\ IsFs(u)
  BY <1>4 DEF Calm, Steady, Sound
<1>6. IsFs(v)
  <2>1. IsFs(s) /\ v = Freed(s, i)
    BY <1>2, <1>3 DEF Freed, Sound
  <2> QED BY <2>1, FreedIs
<1>7. v.free = u.free /\ v.ino[i] = NoInode /\ \A j \in Inum : j # i => v.ino[j] = u.ino[j]
  BY <1>3, <1>5 DEF IsFs, Shaped
<1>8. /\ NoInode.nb = 0 /\ NoInode.ind = 0 /\ NoInode.data = <<>> /\ NoInode.type = "free"
      /\ IsNode(NoInode)
  BY ListingEmpty DEF NoInode, IsNode
<1>9. Trade(u, v, i)
  BY <1>4, <1>5, <1>7, <1>8 DEF Trade, Sound
<1>10. Calm(u, v)
  BY <1>5, <1>6, <1>7, <1>8, <1>9, ListingEmpty, TradeCalm
<1>11. Calm(s, v)
  BY <1>4, <1>10, CalmTrans
<1>12. Calm(s, s)
  BY CalmSelf
<1>13. PICK w : (w = s \/ w = v) /\ t = [w EXCEPT !.ref[i] = @ - 1]
  BY <1>1, <1>2, <1>3 DEF iput
<1>14. Calm(s, w)
  BY <1>11, <1>12, <1>13
<1>15. Sound(w) /\ IsFs(w)
  BY <1>14 DEF Calm, Steady, Sound
<1>16. t.free = w.free /\ t.ino = w.ino
  BY <1>13, <1>15 DEF IsFs
<1>17. IsFs(t) /\ Alike(w.ino, t.ino)
  BY <1>1, <1>16, IputMoves DEF Sound, Moves, Alike
<1>18. Calm(w, t)
  BY <1>15, <1>16, <1>17, AlikeCalm
<1> QED BY <1>1, <1>14, <1>18, CalmTrans

\* ialloc() makes a free inode, an empty one, what is asked for.
LEMMA IallocSteady ==
    ASSUME NEW s, NEW type, Sound(s)
    PROVE  /\ Steady(s, ialloc(s, type).fs) /\ ialloc(s, type).ip \in 0..NINODES
           /\ ialloc(s, type).ip # None =>
                /\ IsListing(ialloc(s, type).fs.ino[ialloc(s, type).ip].data)
                /\ ialloc(s, type).fs.ino[ialloc(s, type).ip].type = type
<1>0. Inum \subseteq 0..NINODES /\ None \in 0..NINODES
  BY FsAssumption DEF Inum, None
<1> DEFINE unused == {i \in Inum : s.ino[i].type = "free"}
<1>1. CASE unused = {}
  <2>1. ialloc(s, type) = [fs |-> s, ip |-> None]
    BY <1>1 DEF ialloc
  <2> QED BY <1>0, <2>1, CalmSelf DEF Calm
<1>2. CASE unused # {}
  <2>1. PICK i : i = CHOOSE k \in unused : \A j \in unused : k <= j
    OBVIOUS
  <2>2. PICK x : x = [s.ino EXCEPT ![i].type = type]
    OBVIOUS
  <2>3. PICK u : u = WithIno(s, x)
    OBVIOUS
  <2>4. PICK t : t = iget(u, i)
    OBVIOUS
  <2>5. ialloc(s, type) = [fs |-> t, ip |-> i]
    BY <1>2, <2>1, <2>2, <2>3, <2>4 DEF ialloc, WithIno
  <2>6. i \in Inum /\ s.ino[i].type = "free"
    <3>1. unused \in SUBSET Nat
      BY DEF Inum
    <3>2. \E k \in unused : \A j \in unused : k <= j
      <4> HIDE DEF unused
      <4> QED BY <1>2, <3>1, LeastNumber, Zenon
    <3> QED BY <2>1, <3>2
  <2>7. IsFs(s) /\ IsNode(s.ino[i]) /\ s.free \in Int
    BY <2>6 DEF Sound
  <2>8. /\ Shaped(x) /\ x[i].type = type /\ x[i].data = s.ino[i].data
        /\ x[i].nb = s.ino[i].nb /\ x[i].ind = s.ino[i].ind
        /\ \A j \in Inum : j # i => x[j] = s.ino[j]
    BY <2>2, <2>6, <2>7 DEF IsFs, Shaped, InodeFields
  <2>9. IsFs(u) /\ u.ino = x /\ u.free = s.free
    BY <2>3, <2>7, <2>8 DEF IsFs, WithIno
  <2>10. IsListing(x[i].data) /\ IsNode(x[i])
    BY <2>6, <2>7, <2>8 DEF IsNode
  <2>11. Trade(s, u, i)
    BY <2>7, <2>8, <2>9, <2>10 DEF Trade
  <2>12. Sound(u) /\ Stock(u) = Stock(s)
    BY <2>6, <2>9, <2>11, TradeStock
  <2>13. \A j \in Inum : IsListing(s.ino[j].data) => IsListing(u.ino[j].data)
    BY <2>8, <2>9
  <2>14. Steady(s, u)
    BY <2>12, <2>13 DEF Steady
  <2>15. Calm(u, t)
    BY <2>4, <2>12, IgetCalm
  <2>16. t.ino = u.ino
    BY <2>4, <2>9 DEF iget, Panic, IsFs
  <2>17. Steady(s, t)
    BY <2>14, <2>15, SteadyTrans DEF Calm
  <2>18. t.ino[i].type = type /\ IsListing(t.ino[i].data) /\ i \in 0..NINODES
    BY <1>0, <2>6, <2>8, <2>9, <2>10, <2>16
  <2> QED BY <2>5, <2>17, <2>18
<1> QED BY <1>1, <1>2

\* What bmap() does: blocks move to an inode, no content changes.
Lends(s, t) ==
    /\ Calm(s, t)
    /\ \A j \in Inum : t.ino[j].data = s.ino[j].data /\ t.ino[j].type = s.ino[j].type

LEMMA LendsTrans ==
    ASSUME NEW s, NEW t, NEW u, Lends(s, t), Lends(t, u)
    PROVE  Lends(s, u)
<1>1. Calm(s, u)
  BY CalmTrans DEF Lends
<1> QED BY <1>1 DEF Lends

\* A free block becomes one of the inode i.
LEMMA BlockLent ==
    ASSUME NEW s, NEW i \in Inum, NEW x, Sound(s), Shaped(x), \A j \in Inum : j # i => x[j] = s.ino[j],
           x[i].type = s.ino[i].type, x[i].data = s.ino[i].data, x[i].nb \in Int, x[i].ind \in Int,
           x[i].nb + x[i].ind = s.ino[i].nb + s.ino[i].ind + 1
    PROVE  Lends(s, WithIno(WithFree(s, s.free - 1), x))
<1>1. PICK t : t = WithIno(WithFree(s, s.free - 1), x)
  OBVIOUS
<1>2. IsFs(s) /\ IsNode(s.ino[i]) /\ s.free \in Int
  BY DEF Sound
<1>3. IsFs(t) /\ t.ino = x /\ t.free = s.free - 1
  BY <1>1, <1>2 DEF IsFs, WithIno, WithFree
<1>4. IsNode(x[i])
  BY <1>2 DEF IsNode
<1>5. t.free \in Int /\ t.free + (x[i].nb + x[i].ind) = s.free + (s.ino[i].nb + s.ino[i].ind)
  <2>1. s.ino[i].nb \in Int /\ s.ino[i].ind \in Int
    BY <1>2 DEF IsNode
  <2> QED BY <1>2, <1>3, <2>1
<1>6. Trade(s, t, i)
  BY <1>3, <1>4, <1>5 DEF Trade
<1>7. Calm(s, t)
  BY <1>3, <1>6, TradeCalm
<1>8. \A j \in Inum : t.ino[j].data = s.ino[j].data /\ t.ino[j].type = s.ino[j].type
  BY <1>3
<1> QED BY <1>1, <1>7, <1>8 DEF Lends

\* balloc() takes a block, or finds none.
LEMMA BallocIs ==
    ASSUME NEW s
    PROVE  /\ balloc(s).ok => balloc(s) = [fs |-> WithFree(s, s.free - 1), ok |-> TRUE]
           /\ ~balloc(s).ok => balloc(s).fs = s
BY DEF balloc, WithFree

\* bmap() lends the inode what it needs (kernel/fs.c).
LEMMA BmapLends ==
    ASSUME NEW s, NEW i \in Inum, NEW bn, Sound(s)
    PROVE  Lends(s, bmap(s, i, bn).fs)
<1>0. Lends(s, s)
  BY CalmSelf DEF Lends
<1>1. CASE bn < s.ino[i].nb
  BY <1>0, <1>1 DEF bmap
<1>2. CASE ~(bn < s.ino[i].nb)
  <2>1. PICK need : need = (bn >= NDIRECT /\ s.ino[i].ind = 0)
    OBVIOUS
  <2>2. PICK t1 : t1 = IF need THEN [balloc(s).fs EXCEPT !.ino[i].ind = 1] ELSE s
    OBVIOUS
  <2>3. bmap(s, i, bn) = IF need /\ ~balloc(s).ok THEN balloc(s)
                         ELSE IF balloc(t1).ok THEN [balloc(t1) EXCEPT !.fs.ino[i].nb = @ + 1] ELSE balloc(t1)
    BY <1>2, <2>1, <2>2 DEF bmap
  <2>4. CASE need /\ ~balloc(s).ok
    BY <1>0, <2>3, <2>4, BallocIs
  <2>5. CASE ~(need /\ ~balloc(s).ok)
    <3>1. Lends(s, t1)
      <4>1. CASE ~need
        BY <1>0, <2>2, <4>1
      <4>2. CASE need
        <5>1. PICK x : x = [s.ino EXCEPT ![i].ind = 1]
          OBVIOUS
        <5>2. IsFs(s) /\ IsNode(s.ino[i])
          BY DEF Sound
        <5>3. balloc(s).fs = WithFree(s, s.free - 1)
          BY <2>5, <4>2, BallocIs
        <5>4. t1 = WithIno(WithFree(s, s.free - 1), x)
          BY <2>2, <4>2, <5>1, <5>2, <5>3 DEF WithIno, WithFree, IsFs
        <5>5. /\ Shaped(x) /\ x[i].type = s.ino[i].type /\ x[i].data = s.ino[i].data
              /\ x[i].nb = s.ino[i].nb /\ x[i].ind = 1 /\ \A j \in Inum : j # i => x[j] = s.ino[j]
          BY <5>1, <5>2 DEF IsFs, Shaped, InodeFields
        <5>6. s.ino[i].nb \in Int /\ s.ino[i].ind = 0
          BY <2>1, <4>2, <5>2 DEF IsNode
        <5>7. x[i].nb \in Int /\ x[i].ind \in Int /\ x[i].nb + x[i].ind = s.ino[i].nb + s.ino[i].ind + 1
          BY <5>5, <5>6
        <5> QED BY <5>4, <5>5, <5>7, BlockLent
      <4> QED BY <4>1, <4>2
    <3>2. CASE ~balloc(t1).ok
      BY <2>3, <2>5, <3>1, <3>2, BallocIs
    <3>3. CASE balloc(t1).ok
      <4>1. Sound(t1) /\ IsFs(t1) /\ IsNode(t1.ino[i])
        BY <3>1 DEF Lends, Calm, Steady, Sound
      <4>2. PICK x : x = [t1.ino EXCEPT ![i].nb = @ + 1]
        OBVIOUS
      <4>3. PICK u : u = WithFree(t1, t1.free - 1)
        OBVIOUS
      <4>4. balloc(t1) = [fs |-> u, ok |-> TRUE]
        BY <3>3, <4>3, BallocIs
      <4>5. u.ino = t1.ino
        BY <4>1, <4>3 DEF WithFree, IsFs
      <4>6. bmap(s, i, bn).fs = WithIno(u, x)
        <5>1. bmap(s, i, bn) = [balloc(t1) EXCEPT !.fs.ino[i].nb = @ + 1]
          BY <2>3, <2>5, <3>3
        <5>2. bmap(s, i, bn).fs = [u EXCEPT !.ino[i].nb = @ + 1]
          BY <4>4, <5>1
        <5> QED BY <4>2, <4>5, <5>2 DEF WithIno
      <4>7. /\ Shaped(x) /\ x[i].type = t1.ino[i].type /\ x[i].data = t1.ino[i].data
            /\ x[i].nb = t1.ino[i].nb + 1 /\ x[i].ind = t1.ino[i].ind
            /\ \A j \in Inum : j # i => x[j] = t1.ino[j]
        BY <4>1, <4>2 DEF IsFs, Shaped, InodeFields
      <4>8. t1.ino[i].nb \in Int /\ t1.ino[i].ind \in Int
        BY <4>1 DEF IsNode
      <4>9. x[i].nb \in Int /\ x[i].ind \in Int /\ x[i].nb + x[i].ind = t1.ino[i].nb + t1.ino[i].ind + 1
        BY <4>7, <4>8
      <4>10. Lends(t1, WithIno(u, x))
        BY <4>1, <4>3, <4>7, <4>9, BlockLent
      <4> QED BY <3>1, <4>6, <4>10, LendsTrans
    <3> QED BY <3>2, <3>3
  <2> QED BY <2>4, <2>5
<1> QED BY <1>1, <1>2

\* The data of the inode i become d, which is a listing when it has to be.
LEMMA DataSound ==
    ASSUME NEW s, NEW i \in Inum, NEW d, Sound(s), s.ino[i].type \in {"dir", "free"} => IsListing(d)
    PROVE  LET t == WithIno(s, [s.ino EXCEPT ![i].data = d])
           IN  /\ Sound(t) /\ Stock(t) = Stock(s) /\ SameTypes(s.ino, t.ino)
               /\ IsListing(d) => Calm(s, t)
<1>1. PICK x : x = [s.ino EXCEPT ![i].data = d]
  OBVIOUS
<1>2. PICK t : t = WithIno(s, x)
  OBVIOUS
<1>3. IsFs(s) /\ IsNode(s.ino[i]) /\ s.free \in Int
  BY DEF Sound
<1>4. /\ Shaped(x) /\ x[i].type = s.ino[i].type /\ x[i].data = d
      /\ x[i].nb = s.ino[i].nb /\ x[i].ind = s.ino[i].ind
      /\ \A j \in Inum : j # i => x[j] = s.ino[j]
  BY <1>1, <1>3 DEF IsFs, Shaped, InodeFields
<1>5. IsFs(t) /\ t.ino = x /\ t.free = s.free
  BY <1>2, <1>3, <1>4 DEF IsFs, WithIno
<1>6. IsNode(x[i])
  BY <1>3, <1>4 DEF IsNode
<1>7. Trade(s, t, i)
  BY <1>3, <1>4, <1>5, <1>6 DEF Trade
<1>8. Sound(t) /\ Stock(t) = Stock(s)
  BY <1>5, <1>7, TradeStock
<1>9. SameTypes(s.ino, t.ino)
  BY <1>4, <1>5 DEF SameTypes
<1>10. IsListing(d) => Calm(s, t)
  BY <1>4, <1>5, <1>7, TradeCalm
<1> QED BY <1>1, <1>2, <1>8, <1>9, <1>10

\* A write to a file: the blocks are all there, and the inodes are what they were.
Even(s, t) == Sound(t) /\ Stock(t) = Stock(s) /\ SameTypes(s.ino, t.ino)

\* One turn of a write to an inode that is no directory.
LEMMA WriteBlockEven ==
    ASSUME NEW s, NEW w, NEW i \in Inum, NEW off, NEW src, NEW ok, Sound(s), Writing(s, w), Even(s, w.fs),
           s.ino[i].type \notin {"dir", "free"}
    PROVE  Even(s, writeBlock(w, i, off, src, ok).fs)
<1>1. PICK b : b = bmap(w.fs, i, (off + w.n) \div BSIZE)
  OBVIOUS
<1>2. PICK m : m = Lesser(Len(src) - w.n, BSIZE - ((off + w.n) % BSIZE))
  OBVIOUS
<1>3. PICK t : t = b.fs
  OBVIOUS
<1>4. PICK d : d = Overwrite(t.ino[i].data, off + w.n, SubSeq(src, w.n + 1, w.n + m))
  OBVIOUS
<1>5. PICK u : u = WithIno(t, [t.ino EXCEPT ![i].data = d])
  OBVIOUS
<1>6. Lends(w.fs, t)
  BY <1>1, <1>3, BmapLends DEF Even
<1>7. Sound(t) /\ Stock(t) = Stock(s) /\ SameTypes(s.ino, t.ino)
  BY <1>6 DEF Lends, Calm, Steady, Even, SameTypes
<1>8. t.ino[i].type \notin {"dir", "free"}
  BY <1>7 DEF SameTypes
<1>9. Sound(u) /\ Stock(u) = Stock(t) /\ SameTypes(t.ino, u.ino)
  BY <1>5, <1>7, <1>8, DataSound
<1>10. Even(s, t) /\ Even(s, u)
  BY <1>7, <1>9 DEF Even, SameTypes
<1>11. writeBlock(w, i, off, src, ok) =
         IF w.end \/ w.n = Len(src) THEN w
         ELSE IF ~b.ok \/ ~ok THEN [w EXCEPT !.fs = t, !.end = TRUE]
         ELSE [w EXCEPT !.fs = u, !.n = @ + m]
  BY <1>1, <1>2, <1>3, <1>4, <1>5 DEF writeBlock, WithIno
<1>12. [w EXCEPT !.fs = t, !.end = TRUE].fs = t /\ [w EXCEPT !.fs = u, !.n = @ + m].fs = u
  BY DEF Writing
<1>13. PICK v : v = writeBlock(w, i, off, src, ok)
  OBVIOUS
<1>14. v.fs = w.fs \/ v.fs = t \/ v.fs = u
  BY <1>11, <1>12, <1>13
<1> QED BY <1>10, <1>13, <1>14

\* The whole write.
LEMMA WriteiEven ==
    ASSUME NEW s, NEW i \in Inum, NEW off, NEW src, NEW ok, Sound(s), Len(src) \in Nat,
           s.ino[i].type \notin {"dir", "free"}
    PROVE  Even(s, writei(s, i, off, src, ok).fs)
<1>0. IsFs(s) /\ Even(s, s)
  BY DEF Sound, Even, SameTypes
<1>1. PICK g : /\ g[0] = [fs |-> s, n |-> 0, end |-> FALSE]
               /\ \A k \in Nat : k < Len(src) => g[k + 1] = writeBlock(g[k], i, off, src, ok)
               /\ writeBlocks(s, i, off, src, ok) = g[Len(src)]
  BY WriteBlocksTurns
<1> DEFINE S == {k \in Nat : k <= Len(src) => Writing(s, g[k]) /\ Even(s, g[k].fs)}
<1>2. 0 \in S
  BY <1>0, <1>1, SameSelf DEF Writing
<1>3. ASSUME NEW k \in S PROVE k + 1 \in S
  <2> SUFFICES ASSUME k + 1 <= Len(src) PROVE Writing(s, g[k + 1]) /\ Even(s, g[k + 1].fs)
    OBVIOUS
  <2>1. k \in Nat /\ k < Len(src) /\ Writing(s, g[k]) /\ Even(s, g[k].fs)
    OBVIOUS
  <2>2. g[k + 1] = writeBlock(g[k], i, off, src, ok)
    BY <1>1, <2>1
  <2>3. Writing(s, writeBlock(g[k], i, off, src, ok))
    BY <1>0, <2>1, WriteBlockSame
  <2>4. Even(s, writeBlock(g[k], i, off, src, ok).fs)
    BY <2>1, WriteBlockEven
  <2> QED BY <2>2, <2>3, <2>4
<1>4. S = Nat
  <2>1. S \in SUBSET Nat
    OBVIOUS
  <2> HIDE DEF S
  <2> QED BY <1>2, <1>3, <2>1, AllNumbers, Zenon
<1>5. Even(s, writeBlocks(s, i, off, src, ok).fs)
  BY <1>1, <1>4
<1>6. writei(s, i, off, src, ok) = writeBlocks(s, i, off, src, ok) \/ writei(s, i, off, src, ok) = [fs |-> s, n |-> -1]
  BY DEF writei
<1> QED BY <1>0, <1>5, <1>6

\* writei() of one entry into a directory.
LEMMA WriteEntryCalm ==
    ASSUME NEW s, NEW i \in Inum, NEW off, NEW e, NEW ok, Sound(s), IsListing(s.ino[i].data),
           off \in 0..Len(s.ino[i].data), e.inum \in 0..NINODES
    PROVE  Calm(s, writei(s, i, off, <<e>>, ok).fs)
<1>1. PICK src : src = <<e>>
  OBVIOUS
<1>2. Len(src) = 1 /\ Len(src) \in Nat /\ off \in Nat /\ off \in Int
  BY <1>1
<1>3. PICK g : /\ g[0] = [fs |-> s, n |-> 0, end |-> FALSE]
               /\ \A k \in Nat : k < Len(src) => g[k + 1] = writeBlock(g[k], i, off, src, ok)
               /\ writeBlocks(s, i, off, src, ok) = g[Len(src)]
  <2>1. Len(src) \in Nat
    BY <1>2
  <2> HIDE <1>1
  <2> QED BY <2>1, WriteBlocksTurns
<1>4. PICK w : w = [fs |-> s, n |-> 0, end |-> FALSE]
  OBVIOUS
<1>5. writeBlocks(s, i, off, src, ok) = writeBlock(w, i, off, src, ok)
  <2>1. 0 \in Nat /\ 0 < Len(src) /\ 0 + 1 = Len(src)
    BY <1>2
  <2> QED BY <1>3, <1>4, <2>1
<1>6. PICK b : b = bmap(s, i, (off + 0) \div BSIZE)
  OBVIOUS
<1>7. PICK t : t = b.fs
  OBVIOUS
<1>8. Lesser(Len(src) - 0, BSIZE - ((off + 0) % BSIZE)) = 1
  <2>1. BSIZE \in Nat \ {0} /\ off \in Nat
    BY <1>2, FsAssumption
  <2>2. (off + 0) % BSIZE \in 0..(BSIZE - 1)
    BY <2>1
  <2> QED BY <1>2, <2>1, <2>2 DEF Lesser
<1>9. SubSeq(src, 0 + 1, 0 + 1) = <<e>> /\ off + 0 = off
  <2>1. PICK E : E = {e}
    OBVIOUS
  <2>2. src \in Seq(E) /\ src[1] = e
    BY <1>1, <2>1
  <2>3. PICK q : q = SubSeq(src, 1, 1)
    OBVIOUS
  <2>4. q \in Seq(E) /\ Len(q) = 1 /\ q[1] = src[1]
    BY <1>2, <2>2, <2>3
  <2>5. q = <<e>>
    BY <2>2, <2>4
  <2>6. off + 0 = off
    BY <1>2
  <2>7. 0 + 1 = 1
    OBVIOUS
  <2>8. SubSeq(src, 0 + 1, 0 + 1) = q
    BY <2>3, <2>7
  <2> QED BY <2>5, <2>6, <2>8, Zenon
<1>10. PICK d : d = Overwrite(t.ino[i].data, off, <<e>>)
  OBVIOUS
<1>11. PICK u : u = WithIno(t, [t.ino EXCEPT ![i].data = d])
  OBVIOUS
<1>12. writeBlock(w, i, off, src, ok) =
         IF ~b.ok \/ ~ok THEN [w EXCEPT !.fs = t, !.end = TRUE] ELSE [w EXCEPT !.fs = u, !.n = @ + 1]
  <2>1. w.fs = s /\ w.n = 0 /\ w.end = FALSE /\ w.n # Len(src)
    BY <1>2, <1>4
  <2> QED BY <1>6, <1>7, <1>8, <1>9, <1>10, <1>11, <2>1 DEF writeBlock, WithIno
<1>13. Lends(s, t)
  BY <1>6, <1>7, BmapLends
<1>14. Sound(t) /\ IsListing(d)
  <2>1. t.ino[i].data = s.ino[i].data
    BY <1>13 DEF Lends
  <2> QED BY <1>10, <1>13, <2>1, ListingWrite DEF Lends, Calm, Steady
<1>15. Calm(t, u)
  BY <1>11, <1>14, DataSound
<1>16. Calm(s, t) /\ Calm(s, u) /\ Calm(s, s)
  BY <1>13, <1>15, CalmTrans, CalmSelf DEF Lends
<1>17. Calm(s, writeBlocks(s, i, off, src, ok).fs)
  BY <1>4, <1>5, <1>12, <1>16
<1>18. writei(s, i, off, src, ok) = writeBlocks(s, i, off, src, ok) \/ writei(s, i, off, src, ok) = [fs |-> s, n |-> -1]
  BY DEF writei
<1>19. PICK v : v = writeBlocks(s, i, off, src, ok)
  OBVIOUS
<1>20. writei(s, i, off, src, ok).fs = v.fs \/ writei(s, i, off, src, ok).fs = s
  BY <1>18, <1>19
<1> QED BY <1>1, <1>16, <1>17, <1>19, <1>20

\* What a lookup returns: an inode or None, and a file system that lost nothing.
Finds(s, r) == Calm(s, r.fs) /\ r.ip \in 0..NINODES

\* An inode that is not None is one.
LEMMA IsInode ==
    /\ \A ip \in 0..NINODES : ip # None => ip \in Inum
    /\ Inum \subseteq 0..NINODES /\ None \in 0..NINODES /\ ROOTINO \in Inum
BY FsAssumption DEF Inum, None, ROOTINO

\* The slot of a name is one of the directory, with an inode.
LEMMA DirSlotIs ==
    ASSUME NEW s, NEW dp, NEW name, IsListing(s.ino[dp].data), dirSlot(s, dp, name) # None
    PROVE  /\ dirSlot(s, dp, name) \in DOMAIN s.ino[dp].data
           /\ s.ino[dp].data[dirSlot(s, dp, name)].inum # None
<1> DEFINE d == s.ino[dp].data
           hits == {k \in DOMAIN d : d[k].inum # None /\ d[k].name = name}
<1>1. dirSlot(s, dp, name) = IF hits = {} THEN None ELSE CHOOSE k \in hits : \A t \in hits : k <= t
  BY Zenon DEF dirSlot
<1>2. PICK E : d \in Seq(E)
  BY DEF IsListing
<1>3. \A k \in hits : k \in DOMAIN d /\ d[k].inum # None
  OBVIOUS
<1>4. hits \in SUBSET Nat
  BY <1>2
<1> HIDE DEF hits
<1>5. hits # {}
  BY <1>1
<1>6. \E k \in hits : \A t \in hits : k <= t
  BY <1>4, <1>5, LeastNumber
<1>7. dirSlot(s, dp, name) \in hits
  BY <1>1, <1>5, <1>6
<1> QED BY <1>3, <1>7

\* dirlookup().
LEMMA DirlookupFinds ==
    ASSUME NEW s, NEW dp, NEW name, Sound(s), IsListing(s.ino[dp].data)
    PROVE  /\ Finds(s, dirlookup(s, dp, name))
           /\ dirSlot(s, dp, name) # None => dirlookup(s, dp, name).ip # None
<1>1. PICK sl : sl = dirSlot(s, dp, name)
  OBVIOUS
<1>2. PICK inum : inum = s.ino[dp].data[sl].inum
  OBVIOUS
<1>3. dirlookup(s, dp, name) = IF sl = None THEN [fs |-> s, ip |-> None] ELSE [fs |-> iget(s, inum), ip |-> inum]
  BY <1>1, <1>2 DEF dirlookup
<1>4. Calm(s, s) /\ Calm(s, iget(s, inum))
  BY CalmSelf, IgetCalm
<1>5. ASSUME sl # None PROVE inum \in 0..NINODES /\ inum # None
  BY <1>1, <1>2, <1>5, DirSlotIs, ListingHas
<1>6. CASE sl = None
  BY <1>1, <1>3, <1>4, <1>6, IsInode DEF Finds
<1>7. CASE sl # None
  BY <1>1, <1>3, <1>4, <1>5, <1>7 DEF Finds
<1> QED BY <1>6, <1>7

\* dirlink().
LEMMA DirlinkCalm ==
    ASSUME NEW s, NEW dp \in Inum, NEW name, NEW inum \in 0..NINODES, Sound(s), IsListing(s.ino[dp].data)
    PROVE  Calm(s, dirlink(s, dp, name, inum).fs)
<1>1. CASE dirSlot(s, dp, name) # None
  <2>1. PICK d : d = dirlookup(s, dp, name)
    OBVIOUS
  <2>2. Finds(s, d) /\ d.ip # None
    BY <1>1, <2>1, DirlookupFinds
  <2>3. d.ip \in Inum /\ Calm(s, d.fs) /\ Sound(d.fs)
    BY <2>2, IsInode DEF Finds, Calm, Steady
  <2>4. dirlink(s, dp, name, inum).fs = iput(d.fs, d.ip)
    BY <1>1, <2>1 DEF dirlink, Exists
  <2> QED BY <2>3, <2>4, IputCalm, CalmTrans
<1>2. CASE dirSlot(s, dp, name) = None
  <2>1. PICK e : e = Entry(name, inum)
    OBVIOUS
  <2>2. PICK off : off = firstFree(s.ino[dp].data)
    OBVIOUS
  <2>3. off \in 0..Len(s.ino[dp].data)
    BY <2>2, FirstFreeIs
  <2>4. e.inum \in 0..NINODES
    BY <2>1 DEF Entry
  <2>5. dirlink(s, dp, name, inum).fs = writei(s, dp, off, <<e>>, TRUE).fs
    BY <1>2, <2>1, <2>2 DEF dirlink, Written
  <2>6. Calm(s, writei(s, dp, off, <<e>>, TRUE).fs)
    BY <2>3, <2>4, WriteEntryCalm
  <2> QED BY <2>5, <2>6
<1> QED BY <1>1, <1>2

\* An element of a path; stopped before it, the inode is a directory.
LEMMA WalkElemFinds ==
    ASSUME NEW s, NEW w, NEW elem, NEW stop, Finds(s, w), Sound(w.fs)
    PROVE  /\ Finds(s, walkElem(w, elem, stop))
           /\ stop /\ walkElem(w, elem, stop).ip # None =>
                IsListing(walkElem(w, elem, stop).fs.ino[walkElem(w, elem, stop).ip].data)
<1>1. PICK t : t = ilock(w.fs, w.ip)
  OBVIOUS
<1>2. PICK d : d = dirlookup(t, w.ip, skipelem(elem))
  OBVIOUS
<1>3. walkElem(w, elem, stop) =
        IF w.ip = None THEN w
        ELSE IF t.panic # "" THEN [fs |-> t, ip |-> None]
        ELSE IF t.ino[w.ip].type # "dir" THEN [fs |-> iput(t, w.ip), ip |-> None]
        ELSE IF stop THEN [fs |-> t, ip |-> w.ip]
        ELSE IF d.ip = None THEN [fs |-> iput(t, w.ip), ip |-> None]
        ELSE [fs |-> iput(d.fs, w.ip), ip |-> d.ip]
  BY <1>1, <1>2 DEF walkElem
<1>4. PICK v : v = walkElem(w, elem, stop)
  OBVIOUS
<1>5. CASE w.ip = None
  BY <1>3, <1>5
<1>6. CASE w.ip # None
  <2>1. w.ip \in Inum /\ Calm(s, w.fs)
    BY <1>6, IsInode DEF Finds
  <2>2. Calm(s, t) /\ Sound(t)
    BY <1>1, <2>1, IlockCalm, CalmTrans DEF Calm, Steady
  <2>3. Calm(s, iput(t, w.ip))
    BY <2>1, <2>2, IputCalm, CalmTrans
  <2>4. ASSUME t.ino[w.ip].type = "dir"
        PROVE  IsListing(t.ino[w.ip].data) /\ Calm(s, iput(d.fs, w.ip)) /\ d.ip \in 0..NINODES
    <3>1. IsListing(t.ino[w.ip].data)
      BY <2>1, <2>2, <2>4 DEF Sound, IsNode
    <3>2. Finds(t, d)
      BY <1>2, <2>2, <3>1, DirlookupFinds
    <3>3. Calm(s, d.fs) /\ Sound(d.fs)
      BY <2>2, <3>2, CalmTrans DEF Finds, Calm, Steady
    <3> QED BY <2>1, <3>1, <3>2, <3>3, IputCalm, CalmTrans DEF Finds
  <2>5. \/ v.fs = t /\ v.ip = None
        \/ v.fs = iput(t, w.ip) /\ v.ip = None
        \/ v.fs = t /\ v.ip = w.ip /\ t.ino[w.ip].type = "dir"
        \/ v.fs = iput(d.fs, w.ip) /\ v.ip = d.ip /\ ~stop /\ t.ino[w.ip].type = "dir"
    <3>1. \/ v = [fs |-> t, ip |-> None]
          \/ v = [fs |-> iput(t, w.ip), ip |-> None]
          \/ v = [fs |-> t, ip |-> w.ip] /\ t.ino[w.ip].type = "dir"
          \/ v = [fs |-> iput(d.fs, w.ip), ip |-> d.ip] /\ ~stop /\ t.ino[w.ip].type = "dir"
      BY <1>3, <1>4, <1>6, Zenon
    <3>2. PICK t2 : t2 = iput(t, w.ip)
      OBVIOUS
    <3>3. PICK t3 : t3 = iput(d.fs, w.ip)
      OBVIOUS
    <3> QED BY <3>1, <3>2, <3>3
  <2>6. CASE v.fs = t /\ v.ip = None
    BY <1>4, <2>2, <2>6, IsInode DEF Finds
  <2>7. CASE v.fs = iput(t, w.ip) /\ v.ip = None
    BY <1>4, <2>3, <2>7, IsInode DEF Finds
  <2>8. CASE v.fs = t /\ v.ip = w.ip /\ t.ino[w.ip].type = "dir"
    BY <1>4, <2>1, <2>2, <2>4, <2>8, IsInode DEF Finds
  <2>9. CASE v.fs = iput(d.fs, w.ip) /\ v.ip = d.ip /\ ~stop /\ t.ino[w.ip].type = "dir"
    BY <1>4, <2>4, <2>9 DEF Finds
  <2> QED BY <2>5, <2>6, <2>7, <2>8, <2>9
<1> QED BY <1>5, <1>6

\* A path leads to an inode or to None; the parent of a name is a directory.
LEMMA WalkPathFinds ==
    ASSUME NEW s, NEW ip \in 0..NINODES, NEW elems, NEW parent, Sound(s), Len(elems) \in Nat
    PROVE  /\ Finds(s, walkPath(s, ip, elems, parent))
           /\ parent /\ Len(elems) # 0 /\ walkPath(s, ip, elems, parent).ip # None =>
                IsListing(walkPath(s, ip, elems, parent).fs.ino[walkPath(s, ip, elems, parent).ip].data)
<1>1. PICK m \in Nat : m = Len(elems)
  OBVIOUS
<1>2. PICK g : /\ g[0] = [fs |-> s, ip |-> ip]
               /\ \A k \in Nat : k < m => g[k + 1] = walkElem(g[k], elems[k + 1], parent /\ k + 1 = m)
               /\ walkPath(s, ip, elems, parent) = g[m]
  BY <1>1, WalkPathTurns
<1> DEFINE S == {k \in Nat : k <= m => Finds(s, g[k])}
<1>3. 0 \in S
  <2>1. Finds(s, [fs |-> s, ip |-> ip])
    BY CalmSelf DEF Finds
  <2> QED BY <1>2, <2>1
<1>4. ASSUME NEW k \in S PROVE k + 1 \in S
  <2> SUFFICES ASSUME k + 1 <= m PROVE Finds(s, g[k + 1])
    OBVIOUS
  <2>1. k \in Nat /\ k < m /\ Finds(s, g[k])
    BY <1>1
  <2>2. PICK stop : stop = (parent /\ k + 1 = m)
    OBVIOUS
  <2>3. g[k + 1] = walkElem(g[k], elems[k + 1], stop)
    BY <1>2, <2>1, <2>2
  <2>4. Sound(g[k].fs)
    BY <2>1 DEF Finds, Calm, Steady
  <2> QED BY <2>1, <2>3, <2>4, WalkElemFinds
<1>5. S = Nat
  <2>1. S \in SUBSET Nat
    OBVIOUS
  <2> HIDE DEF S
  <2> QED BY <1>3, <1>4, <2>1, AllNumbers, Zenon
<1>6. Finds(s, g[m])
  BY <1>1, <1>5
<1>7. ASSUME parent, m # 0, g[m].ip # None PROVE IsListing(g[m].fs.ino[g[m].ip].data)
  <2>1. PICK k \in Nat : m = k + 1
    <3>1. m - 1 \in Nat /\ m = (m - 1) + 1
      BY <1>7
    <3> QED BY <3>1
  <2>2. k < m /\ Finds(s, g[k])
    BY <1>5, <2>1
  <2>3. PICK stop : stop = (parent /\ k + 1 = m)
    OBVIOUS
  <2>4. g[m] = walkElem(g[k], elems[k + 1], stop) /\ stop
    BY <1>2, <1>7, <2>1, <2>2, <2>3
  <2>5. Sound(g[k].fs)
    BY <2>2 DEF Finds, Calm, Steady
  <2> QED BY <1>7, <2>2, <2>4, <2>5, WalkElemFinds
<1> QED BY <1>1, <1>2, <1>6, <1>7

\* A path has as many elements as it has.
LEMMA PathIs ==
    ASSUME NEW path, IsPath(path)
    PROVE  Len(path.elems) \in Nat /\ (path.elems # <<>> => Len(path.elems) # 0)
<1>1. PICK E : path.elems \in Seq(E)
  BY DEF IsPath
<1> QED BY <1>1

\* namex() from a directory of the disk.
LEMMA NamexFinds ==
    ASSUME NEW s, NEW cwd \in Inum, NEW path, NEW parent, Sound(s), IsPath(path)
    PROVE  /\ Finds(s, namex(s, cwd, path, parent))
           /\ parent /\ namex(s, cwd, path, parent).ip # None =>
                IsListing(namex(s, cwd, path, parent).fs.ino[namex(s, cwd, path, parent).ip].data)
<1>1. PICK start : start = IF path.abs THEN ROOTINO ELSE cwd
  OBVIOUS
<1>2. PICK t : t = iget(s, start)
  OBVIOUS
<1>3. start \in Inum
  BY <1>1, IsInode
<1>4. Calm(s, t) /\ Sound(t)
  BY <1>2, IgetCalm DEF Calm, Steady
<1>5. CASE parent /\ path.elems = <<>>
  <2>1. namex(s, cwd, path, parent) = [fs |-> iput(t, start), ip |-> None]
    BY <1>1, <1>2, <1>5 DEF namex
  <2>2. Calm(s, iput(t, start))
    BY <1>3, <1>4, IputCalm, CalmTrans
  <2> QED BY <2>1, <2>2, IsInode DEF Finds
<1>6. CASE ~(parent /\ path.elems = <<>>)
  <2>1. PICK r : r = walkPath(t, start, path.elems, parent)
    OBVIOUS
  <2>2. namex(s, cwd, path, parent) = r
    BY <1>1, <1>2, <1>6, <2>1 DEF namex
  <2>3. start \in 0..NINODES /\ Len(path.elems) \in Nat
    BY <1>3, IsInode, PathIs
  <2>4. Finds(t, r) /\ (parent /\ Len(path.elems) # 0 /\ r.ip # None => IsListing(r.fs.ino[r.ip].data))
    BY <1>4, <2>1, <2>3, WalkPathFinds
  <2>5. parent => Len(path.elems) # 0
    BY <1>6, PathIs
  <2>6. Finds(s, r)
    BY <1>4, <2>4, CalmTrans DEF Finds
  <2> QED BY <2>2, <2>4, <2>5, <2>6
<1> QED BY <1>5, <1>6

LEMMA NameiFinds ==
    ASSUME NEW s, NEW cwd \in Inum, NEW path, Sound(s), IsPath(path)
    PROVE  /\ Finds(s, namei(s, cwd, path)) /\ Finds(s, nameiparent(s, cwd, path))
           /\ nameiparent(s, cwd, path).ip # None =>
                IsListing(nameiparent(s, cwd, path).fs.ino[nameiparent(s, cwd, path).ip].data)
BY NamexFinds DEF namei, nameiparent

\* create(), from its last step to its first.
LEMMA CreateFailCalm ==
    ASSUME NEW s, NEW ip \in Inum, NEW dp \in Inum, Sound(s)
    PROVE  Calm(s, createFail(s, ip, dp).fs) /\ createFail(s, ip, dp).ip = None
<1>1. PICK t : t = WithIno(s, [s.ino EXCEPT ![ip].nlink = 0])
  OBVIOUS
<1>2. createFail(s, ip, dp) = [fs |-> iput(iput(t, ip), dp), ip |-> None]
  BY <1>1 DEF createFail, WithIno
<1>3. Calm(s, t) /\ Sound(t)
  BY <1>1, LinksCalm DEF Calm, Steady
<1>4. Calm(s, iput(t, ip)) /\ Sound(iput(t, ip))
  BY <1>3, IputCalm, CalmTrans DEF Calm, Steady
<1>5. Calm(s, iput(iput(t, ip), dp))
  BY <1>4, IputCalm, CalmTrans
<1> QED BY <1>2, <1>5

LEMMA CreateDoneCalm ==
    ASSUME NEW link, NEW ip \in Inum, NEW dp \in Inum, NEW type, Sound(link.fs)
    PROVE  Calm(link.fs, createDone(link, ip, dp, type).fs) /\ createDone(link, ip, dp, type).ip \in {ip, None}
<1>1. PICK s : s = link.fs
  OBVIOUS
<1>2. PICK n : n = IF type = "dir" THEN s.ino[dp].nlink + 1 ELSE s.ino[dp].nlink
  OBVIOUS
<1>3. PICK t : t = WithIno(s, [s.ino EXCEPT ![dp].nlink = n])
  OBVIOUS
<1>4. createDone(link, ip, dp, type) = IF ~link.ok THEN createFail(s, ip, dp) ELSE [fs |-> iput(t, dp), ip |-> ip]
  BY <1>1, <1>2, <1>3 DEF createDone, WithIno
<1>5. Calm(s, t) /\ Sound(t)
  BY <1>1, <1>3, LinksCalm DEF Calm, Steady
<1>6. Calm(s, iput(t, dp))
  BY <1>5, IputCalm, CalmTrans
<1>7. Calm(s, createFail(s, ip, dp).fs) /\ createFail(s, ip, dp).ip = None
  BY <1>1, CreateFailCalm
<1>8. PICK r : r = createDone(link, ip, dp, type)
  OBVIOUS
<1>9. r = createFail(s, ip, dp) \/ r = [fs |-> iput(t, dp), ip |-> ip]
  BY <1>4, <1>8
<1>10. Calm(s, r.fs) /\ r.ip \in {ip, None}
  BY <1>6, <1>7, <1>9
<1> QED BY <1>1, <1>8, <1>10

LEMMA CreateLinkCalm ==
    ASSUME NEW dots, NEW ip \in Inum, NEW dp \in Inum, NEW name, NEW type, Sound(dots.fs),
           IsListing(dots.fs.ino[dp].data)
    PROVE  /\ Calm(dots.fs, createLink(dots, ip, dp, name, type).fs)
           /\ createLink(dots, ip, dp, name, type).ip \in {ip, None}
<1>1. PICK l : l = dirlink(dots.fs, dp, name, ip)
  OBVIOUS
<1>2. createLink(dots, ip, dp, name, type) = IF ~dots.ok THEN createFail(dots.fs, ip, dp) ELSE createDone(l, ip, dp, type)
  BY <1>1 DEF createLink
<1>3. Calm(dots.fs, l.fs) /\ Sound(l.fs)
  BY <1>1, IsInode, DirlinkCalm DEF Calm, Steady
<1>4. Calm(dots.fs, createDone(l, ip, dp, type).fs) /\ createDone(l, ip, dp, type).ip \in {ip, None}
  BY <1>3, CreateDoneCalm, CalmTrans
<1>5. Calm(dots.fs, createFail(dots.fs, ip, dp).fs) /\ createFail(dots.fs, ip, dp).ip = None
  BY CreateFailCalm
<1> QED BY <1>2, <1>4, <1>5

LEMMA CreateDotsCalm ==
    ASSUME NEW s, NEW ip \in Inum, NEW dp \in Inum, NEW type, Sound(s), IsListing(s.ino[ip].data)
    PROVE  Calm(s, createDots(s, ip, dp, type).fs)
<1>1. PICK d : d = dirlink(s, ip, ".", ip)
  OBVIOUS
<1>2. PICK e : e = dirlink(d.fs, ip, "..", dp)
  OBVIOUS
<1>3. Calm(s, d.fs) /\ Sound(d.fs) /\ IsListing(d.fs.ino[ip].data)
  BY <1>1, IsInode, DirlinkCalm DEF Calm, Steady
<1>4. Calm(s, e.fs)
  BY <1>2, <1>3, IsInode, DirlinkCalm, CalmTrans
<1>5. createDots(s, ip, dp, type) = IF type = "dir" THEN (IF ~d.ok THEN d ELSE e) ELSE [fs |-> s, ok |-> TRUE]
  BY <1>1, <1>2 DEF createDots, dotdot
<1> QED BY <1>3, <1>4, <1>5, CalmSelf

LEMMA CreateNewCalm ==
    ASSUME NEW new, NEW dp \in Inum, NEW name, NEW type, Sound(new.fs), new.ip \in 0..NINODES,
           IsListing(new.fs.ino[dp].data), new.ip # None => IsListing(new.fs.ino[new.ip].data)
    PROVE  /\ Calm(new.fs, createNew(new, dp, name, type).fs)
           /\ createNew(new, dp, name, type).ip \in {new.ip, None}
<1>1. CASE new.ip = None
  <2>1. createNew(new, dp, name, type) = [fs |-> iput(new.fs, dp), ip |-> None]
    BY <1>1 DEF createNew
  <2> QED BY <2>1, IputCalm
<1>2. CASE new.ip # None
  <2>1. PICK ip : ip = new.ip
    OBVIOUS
  <2>2. PICK s : s = new.fs
    OBVIOUS
  <2>3. PICK t : t = WithIno(s, [s.ino EXCEPT ![ip].nlink = 1])
    OBVIOUS
  <2>4. PICK d : d = createDots(t, ip, dp, type)
    OBVIOUS
  <2>5. createNew(new, dp, name, type) = createLink(d, ip, dp, name, type)
    BY <1>2, <2>1, <2>2, <2>3, <2>4 DEF createNew, WithIno
  <2>6. ip \in Inum /\ IsListing(s.ino[ip].data) /\ IsListing(s.ino[dp].data) /\ Sound(s)
    BY <1>2, <2>1, <2>2, IsInode
  <2>7. Calm(s, t) /\ Sound(t) /\ IsListing(t.ino[ip].data)
    BY <2>3, <2>6, LinksCalm DEF Calm, Steady
  <2>8. Calm(s, d.fs)
    BY <2>4, <2>6, <2>7, CreateDotsCalm, CalmTrans
  <2>9. Sound(d.fs) /\ IsListing(d.fs.ino[dp].data)
    BY <2>6, <2>8 DEF Calm, Steady
  <2>10. PICK r : r = createLink(d, ip, dp, name, type)
    OBVIOUS
  <2>11. Calm(d.fs, r.fs) /\ r.ip \in {ip, None}
    BY <2>6, <2>9, <2>10, CreateLinkCalm
  <2>12. Calm(s, r.fs)
    BY <2>8, <2>11, CalmTrans
  <2> QED BY <2>1, <2>2, <2>5, <2>10, <2>11, <2>12
<1> QED BY <1>1, <1>2

LEMMA CreateOldCalm ==
    ASSUME NEW s, NEW ip \in Inum, NEW type, Sound(s)
    PROVE  /\ Calm(s, createOld(s, ip, type).fs) /\ createOld(s, ip, type).ip \in {ip, None}
           /\ createOld(s, ip, type).ip # None => createOld(s, ip, type).fs.ino[ip].type \in {"file", "dev"}
<1>1. CASE type = "file" /\ s.ino[ip].type \in {"file", "dev"}
  <2>1. createOld(s, ip, type) = [fs |-> s, ip |-> ip]
    BY <1>1 DEF createOld
  <2> QED BY <1>1, <2>1, CalmSelf
<1>2. CASE ~(type = "file" /\ s.ino[ip].type \in {"file", "dev"})
  <2>1. createOld(s, ip, type) = [fs |-> iput(s, ip), ip |-> None]
    BY <1>2 DEF createOld
  <2> QED BY <2>1, IputCalm
<1> QED BY <1>1, <1>2

\* What create() returns: an inode that is no directory when a file is wanted.
Makes(s, r, type) ==
    /\ Steady(s, r.fs) /\ r.ip \in 0..NINODES
    /\ type = "file" /\ r.ip # None => r.fs.ino[r.ip].type \in {"file", "dev", "free"}

LEMMA CreateNameMakes ==
    ASSUME NEW old, NEW dp \in Inum, NEW name, NEW type, Sound(old.fs), old.ip \in 0..NINODES,
           IsListing(old.fs.ino[dp].data)
    PROVE  Makes(old.fs, createName(old, dp, name, type), type)
<1>1. CASE old.ip = None
  <2>1. PICK new : new = ialloc(old.fs, type)
    OBVIOUS
  <2>2. PICK r : r = createNew(new, dp, name, type)
    OBVIOUS
  <2>3. createName(old, dp, name, type) = r
    BY <1>1, <2>1, <2>2 DEF createName
  <2>4. /\ Steady(old.fs, new.fs) /\ new.ip \in 0..NINODES
        /\ new.ip # None => IsListing(new.fs.ino[new.ip].data) /\ new.fs.ino[new.ip].type = type
    BY <2>1, IallocSteady
  <2>5. Sound(new.fs) /\ IsListing(new.fs.ino[dp].data)
    BY <2>4 DEF Steady
  <2>6. Calm(new.fs, r.fs) /\ r.ip \in {new.ip, None}
    BY <2>2, <2>4, <2>5, CreateNewCalm
  <2>7. Steady(old.fs, r.fs) /\ r.ip \in 0..NINODES
    BY <2>4, <2>6, SteadyTrans, IsInode DEF Calm
  <2>8. ASSUME type = "file", r.ip # None PROVE r.fs.ino[r.ip].type \in {"file", "dev", "free"}
    <3>1. r.ip \in Inum /\ r.ip = new.ip /\ new.fs.ino[r.ip].type = "file"
      BY <2>4, <2>6, <2>7, <2>8, IsInode
    <3> QED BY <2>6, <3>1 DEF Calm
  <2> QED BY <2>3, <2>7, <2>8 DEF Makes
<1>2. CASE old.ip # None
  <2>1. PICK t : t = ilock(iput(old.fs, dp), old.ip)
    OBVIOUS
  <2>2. PICK r : r = createOld(t, old.ip, type)
    OBVIOUS
  <2>3. createName(old, dp, name, type) = r
    BY <1>2, <2>1, <2>2 DEF createName
  <2>4. old.ip \in Inum
    BY <1>2, IsInode
  <2>5. Calm(old.fs, iput(old.fs, dp)) /\ Sound(iput(old.fs, dp))
    BY IputCalm DEF Calm, Steady
  <2>6. Calm(old.fs, t) /\ Sound(t)
    BY <2>1, <2>5, IlockCalm, CalmTrans DEF Calm, Steady
  <2>7. /\ Calm(t, r.fs) /\ r.ip \in {old.ip, None}
        /\ r.ip # None => r.fs.ino[old.ip].type \in {"file", "dev"}
    BY <2>2, <2>4, <2>6, CreateOldCalm
  <2>8. Steady(old.fs, r.fs) /\ r.ip \in 0..NINODES
    BY <2>6, <2>7, SteadyTrans, IsInode DEF Calm
  <2>9. r.ip # None => r.fs.ino[r.ip].type \in {"file", "dev", "free"}
    BY <2>7
  <2> QED BY <2>3, <2>8, <2>9 DEF Makes
<1> QED BY <1>1, <1>2

LEMMA CreateMakes ==
    ASSUME NEW s, NEW cwd \in Inum, NEW path, NEW type, Sound(s), IsPath(path)
    PROVE  Makes(s, create(s, cwd, path, type), type)
<1>1. PICK dir : dir = nameiparent(s, cwd, path)
  OBVIOUS
<1>2. PICK name : name = BaseName(path)
  OBVIOUS
<1>3. create(s, cwd, path, type) = createIn(dir, name, type)
  BY <1>1, <1>2 DEF create
<1>4. Finds(s, dir) /\ (dir.ip # None => IsListing(dir.fs.ino[dir.ip].data))
  BY <1>1, NameiFinds
<1>5. CASE dir.ip = None
  <2>1. create(s, cwd, path, type) = dir
    BY <1>3, <1>5 DEF createIn
  <2> QED BY <1>4, <1>5, <2>1 DEF Makes, Finds, Calm
<1>6. CASE dir.ip # None
  <2>1. PICK t : t = ilock(dir.fs, dir.ip)
    OBVIOUS
  <2>2. PICK old : old = dirlookup(t, dir.ip, name)
    OBVIOUS
  <2>3. PICK r : r = createName(old, dir.ip, name, type)
    OBVIOUS
  <2>4. create(s, cwd, path, type) = r
    BY <1>3, <1>6, <2>1, <2>2, <2>3 DEF createIn
  <2>5. dir.ip \in Inum /\ Calm(s, dir.fs) /\ Sound(dir.fs)
    BY <1>4, <1>6, IsInode DEF Finds, Calm, Steady
  <2>6. Calm(dir.fs, t) /\ Sound(t) /\ IsListing(t.ino[dir.ip].data)
    BY <1>4, <1>6, <2>1, <2>5, IlockCalm DEF Calm, Steady
  <2>7. Finds(t, old)
    BY <2>2, <2>6, DirlookupFinds
  <2>8. Sound(old.fs) /\ IsListing(old.fs.ino[dir.ip].data) /\ old.ip \in 0..NINODES
    BY <2>5, <2>6, <2>7 DEF Finds, Calm, Steady
  <2>9. Makes(old.fs, r, type)
    BY <2>3, <2>5, <2>8, CreateNameMakes
  <2>10. Steady(s, old.fs)
    BY <2>5, <2>6, <2>7, SteadyTrans DEF Finds, Calm
  <2>11. Makes(s, r, type)
    BY <2>9, <2>10, SteadyTrans DEF Makes
  <2> QED BY <2>4, <2>11
<1> QED BY <1>5, <1>6

\* One step after another, in several ways.
LEMMA CalmTwo ==
    ASSUME NEW s, NEW t, NEW u, Steady(s, t), Calm(t, u)
    PROVE  Steady(s, u) /\ Sound(u)
<1>1. Steady(t, u)
  BY DEF Calm
<1> QED BY <1>1, SteadyTrans DEF Steady

\* mkdir() and mknod() put the inode they made.
LEMMA MadeSteady ==
    ASSUME NEW s, NEW cwd \in Inum, NEW path, NEW type, Sound(s), IsPath(path)
    PROVE  Steady(s, Made(create(s, cwd, path, type)).fs)
<1>1. PICK c : c = create(s, cwd, path, type)
  OBVIOUS
<1>2. Steady(s, c.fs) /\ Sound(c.fs) /\ c.ip \in 0..NINODES
  BY <1>1, CreateMakes DEF Makes, Steady
<1>3. c.ip # None => Steady(s, iput(c.fs, c.ip))
  BY <1>2, IsInode, IputCalm, CalmTwo
<1>4. Made(c).fs = IF c.ip = None THEN c.fs ELSE iput(c.fs, c.ip)
  BY DEF Made, Ret
<1> QED BY <1>1, <1>2, <1>3, <1>4

LEMMA MkdirSteady ==
    ASSUME NEW s, NEW cwd \in Inum, NEW path, Sound(s), IsPath(path)
    PROVE  Steady(s, sys_mkdir(s, cwd, path).fs) /\ Steady(s, sys_mknod(s, cwd, path).fs)
<1>1. Steady(s, s)
  BY CalmSelf DEF Calm
<1>2. \A type : Steady(s, Made(create(s, cwd, path, type)).fs)
  BY MadeSteady
<1>3. sys_mkdir(s, cwd, path).fs = IF path.ok THEN Made(create(s, cwd, path, "dir")).fs ELSE s
  BY DEF sys_mkdir, Ret
<1>4. sys_mknod(s, cwd, path).fs = IF path.ok THEN Made(create(s, cwd, path, "dev")).fs ELSE s
  BY DEF sys_mknod, Ret
<1> QED BY <1>1, <1>2, <1>3, <1>4

\* The bad: path of sys_link().
LEMMA LinkBadCalm ==
    ASSUME NEW s, NEW ip \in Inum, Sound(s)
    PROVE  Calm(s, linkBad(s, ip).fs)
<1>1. PICK n : n = s.ino[ip].nlink - 1
  OBVIOUS
<1>2. PICK t : t = WithIno(s, [s.ino EXCEPT ![ip].nlink = n])
  OBVIOUS
<1>3. linkBad(s, ip).fs = iput(t, ip)
  BY <1>1, <1>2 DEF linkBad, Ret, WithIno
<1>4. Calm(s, t) /\ Sound(t)
  BY <1>2, LinksCalm DEF Calm, Steady
<1>5. Calm(t, iput(t, ip))
  BY <1>4, IputCalm
<1> QED BY <1>3, <1>4, <1>5, CalmTrans

\* sys_link() at the new name.
LEMMA LinkNameCalm ==
    ASSUME NEW dir, NEW ip \in Inum, NEW name, Sound(dir.fs), dir.ip \in 0..NINODES,
           dir.ip # None => IsListing(dir.fs.ino[dir.ip].data)
    PROVE  Calm(dir.fs, linkName(dir, ip, name).fs)
<1>1. CASE dir.ip = None
  <2>1. linkName(dir, ip, name) = linkBad(dir.fs, ip)
    BY <1>1 DEF linkName
  <2> QED BY <2>1, LinkBadCalm
<1>2. CASE dir.ip # None
  <2>1. PICK t : t = ilock(dir.fs, dir.ip)
    OBVIOUS
  <2>2. PICK l : l = dirlink(t, dir.ip, name, ip)
    OBVIOUS
  <2>3. PICK u : u = iput(l.fs, dir.ip)
    OBVIOUS
  <2>4. Calm(dir.fs, t) /\ Sound(t) /\ IsListing(t.ino[dir.ip].data) /\ dir.ip \in Inum
    BY <1>2, <2>1, IsInode, IlockCalm DEF Calm, Steady
  <2>5. Calm(t, l.fs) /\ Sound(l.fs)
    BY <2>2, <2>4, IsInode, DirlinkCalm DEF Calm, Steady
  <2>6. Calm(l.fs, u) /\ Sound(u)
    BY <2>3, <2>4, <2>5, IputCalm DEF Calm, Steady
  <2>7. Calm(dir.fs, u)
    BY <2>4, <2>5, <2>6, CalmTrans
  <2>8. Calm(u, iput(u, ip)) /\ Calm(u, linkBad(u, ip).fs)
    BY <2>6, IputCalm, LinkBadCalm
  <2>9. linkName(dir, ip, name) = IF l.ok THEN Ret(iput(u, ip), 0) ELSE linkBad(u, ip)
    BY <1>2, <2>1, <2>2, <2>3 DEF linkName, linkDone
  <2>10. Ret(iput(u, ip), 0).fs = iput(u, ip)
    BY DEF Ret
  <2> QED BY <2>7, <2>8, <2>9, <2>10, CalmTrans
<1> QED BY <1>1, <1>2

\* sys_link().
LEMMA LinkCalm ==
    ASSUME NEW s, NEW cwd \in Inum, NEW old, NEW new, Sound(s), IsPath(old), IsPath(new)
    PROVE  Calm(s, sys_link(s, cwd, old, new).fs)
<1>1. PICK o : o = namei(s, cwd, old)
  OBVIOUS
<1>2. PICK t : t = ilock(o.fs, o.ip)
  OBVIOUS
<1>3. PICK n : n = t.ino[o.ip].nlink + 1
  OBVIOUS
<1>4. PICK u : u = WithIno(t, [t.ino EXCEPT ![o.ip].nlink = n])
  OBVIOUS
<1>5. PICK dir : dir = nameiparent(u, cwd, new)
  OBVIOUS
<1>6. PICK name : name = BaseName(new)
  OBVIOUS
<1>7. Calm(s, o.fs) /\ Sound(o.fs) /\ o.ip \in 0..NINODES /\ Calm(s, s)
  BY <1>1, NameiFinds, CalmSelf DEF Finds, Calm, Steady
<1>8. Calm(s, t) /\ Sound(t)
  BY <1>2, <1>7, IlockCalm, CalmTrans DEF Calm, Steady
<1>9. Calm(s, u) /\ Sound(u)
  <2>1. Calm(t, u)
    BY <1>4, <1>8, LinksCalm
  <2> QED BY <1>8, <2>1, CalmTrans DEF Calm, Steady
<1>10. Finds(u, dir) /\ (dir.ip # None => IsListing(dir.fs.ino[dir.ip].data))
  BY <1>5, <1>9, NameiFinds
<1>11. Calm(s, dir.fs) /\ Sound(dir.fs) /\ dir.ip \in 0..NINODES
  BY <1>9, <1>10, CalmTrans DEF Finds, Calm, Steady
<1>12. ASSUME o.ip # None PROVE Calm(s, linkName(dir, o.ip, name).fs) /\ Calm(s, iput(t, o.ip))
  <2>1. o.ip \in Inum
    BY <1>7, <1>12, IsInode
  <2>2. Calm(dir.fs, linkName(dir, o.ip, name).fs) /\ Calm(t, iput(t, o.ip))
    BY <1>8, <1>10, <1>11, <2>1, LinkNameCalm, IputCalm
  <2> QED BY <1>8, <1>11, <2>2, CalmTrans
<1>13. sys_link(s, cwd, old, new) =
         IF old.ok /\ new.ok
         THEN IF o.ip = None THEN Ret(o.fs, -1)
              ELSE IF t.ino[o.ip].type = "dir" THEN Ret(iput(t, o.ip), -1) ELSE linkName(dir, o.ip, name)
         ELSE Ret(s, -1)
  BY <1>1, <1>2, <1>3, <1>4, <1>5, <1>6 DEF sys_link, linkOld, linkInode, WithIno
<1>14. \A v, k : Ret(v, k).fs = v
  BY DEF Ret
<1> QED BY <1>7, <1>12, <1>13, <1>14

\* sys_unlink() past the checks of the entry: the entry and the link are gone.
LEMMA UnlinkInodeCalm ==
    ASSUME NEW s, NEW ip \in Inum, NEW dp \in Inum, NEW name, Sound(s), IsListing(s.ino[dp].data)
    PROVE  Calm(s, unlinkInode(s, ip, dp, name).fs)
<1>1. CASE s.ino[ip].nlink < 1
  <2>1. PICK u : u = Panic(s, "unlink: nlink < 1")
    OBVIOUS
  <2>2. unlinkInode(s, ip, dp, name).fs = u
    BY <1>1, <2>1 DEF unlinkInode, Ret
  <2>3. IsFs(s) /\ IsFs(u)
    BY <2>1, PanicMoves DEF Sound
  <2>4. u.free = s.free /\ Alike(s.ino, u.ino)
    BY <2>1, <2>3 DEF Panic, Alike, IsFs
  <2> QED BY <2>2, <2>3, <2>4, AlikeCalm
<1>2. CASE ~(s.ino[ip].nlink < 1)
  <2>1. PICK t : t = iput(s, ip)
    OBVIOUS
  <2>2. Calm(s, t) /\ Sound(t)
    BY <2>1, IputCalm DEF Calm, Steady
  <2>3. Calm(s, iput(t, dp))
    BY <2>2, IputCalm, CalmTrans
  <2>4. PICK sl : sl = dirSlot(s, dp, name)
    OBVIOUS
  <2>5. PICK d : d = With(s.ino[dp].data, sl, Entry("", None))
    OBVIOUS
  <2>6. PICK v : v = WithIno(s, [s.ino EXCEPT ![dp].data = d])
    OBVIOUS
  <2>7. PICK n : n = IF s.ino[ip].type = "dir" THEN v.ino[dp].nlink - 1 ELSE v.ino[dp].nlink
    OBVIOUS
  <2>8. PICK w : w = WithIno(v, [v.ino EXCEPT ![dp].nlink = n])
    OBVIOUS
  <2>9. PICK u : u = iput(w, dp)
    OBVIOUS
  <2>10. PICK m : m = u.ino[ip].nlink - 1
    OBVIOUS
  <2>11. PICK y : y = WithIno(u, [u.ino EXCEPT ![ip].nlink = m])
    OBVIOUS
  <2>12. IsListing(d)
    <3>1. Entry("", None).inum \in 0..NINODES
      BY IsInode DEF Entry
    <3> QED BY <2>5, <3>1, ListingSet
  <2>13. Calm(s, v) /\ Sound(v)
    BY <2>6, <2>12, DataSound DEF Calm, Steady
  <2>14. Calm(v, w) /\ Sound(w)
    BY <2>8, <2>13, LinksCalm DEF Calm, Steady
  <2>15. Calm(w, u) /\ Sound(u)
    BY <2>9, <2>14, IputCalm DEF Calm, Steady
  <2>16. Calm(u, y) /\ Sound(y)
    BY <2>11, <2>15, LinksCalm DEF Calm, Steady
  <2>17. Calm(y, iput(y, ip))
    BY <2>16, IputCalm
  <2>18. Calm(s, iput(y, ip))
    BY <2>13, <2>14, <2>15, <2>16, <2>17, CalmTrans
  <2>19. w = [s EXCEPT !.ino[dp].data[sl] = Entry("", None),
                       !.ino[dp].nlink = IF s.ino[ip].type = "dir" THEN @ - 1 ELSE @]
    <3>1. IsFs(s) /\ Shaped(s.ino)
      BY DEF Sound, IsFs
    <3> QED BY <2>5, <2>6, <2>7, <2>8, <3>1 DEF WithIno, With, IsFs, Shaped, InodeFields
  <2>20. unlinkPut(u, ip).fs = iput(y, ip)
    BY <2>10, <2>11 DEF unlinkPut, Ret, WithIno
  <2>21. unlinkInode(s, ip, dp, name).fs = iput(t, dp) \/ unlinkInode(s, ip, dp, name).fs = iput(y, ip)
    <3>1. CASE s.ino[ip].type = "dir" /\ ~isdirempty(s, ip)
      BY <1>2, <2>1, <3>1 DEF unlinkInode, Ret
    <3>2. CASE ~(s.ino[ip].type = "dir" /\ ~isdirempty(s, ip))
      <4>1. unlinkInode(s, ip, dp, name) =
              unlinkPut(iput([s EXCEPT !.ino[dp].data[dirSlot(s, dp, name)] = Entry("", None),
                                       !.ino[dp].nlink = IF s.ino[ip].type = "dir" THEN @ - 1 ELSE @], dp), ip)
        BY <1>2, <3>2 DEF unlinkInode
      <4>2. unlinkInode(s, ip, dp, name) = unlinkPut(u, ip)
        BY <2>4, <2>9, <2>19, <4>1
      <4> QED BY <2>20, <4>2
    <3> QED BY <3>1, <3>2
  <2> QED BY <2>3, <2>18, <2>21
<1> QED BY <1>1, <1>2

\* sys_unlink().
LEMMA UnlinkCalm ==
    ASSUME NEW s, NEW cwd \in Inum, NEW path, Sound(s), IsPath(path)
    PROVE  Calm(s, sys_unlink(s, cwd, path).fs)
<1>1. PICK dir : dir = nameiparent(s, cwd, path)
  OBVIOUS
<1>2. PICK name : name = BaseName(path)
  OBVIOUS
<1>3. PICK t : t = ilock(dir.fs, dir.ip)
  OBVIOUS
<1>4. PICK hit : hit = dirlookup(t, dir.ip, name)
  OBVIOUS
<1>5. PICK u : u = ilock(hit.fs, hit.ip)
  OBVIOUS
<1>6. Finds(s, dir) /\ (dir.ip # None => IsListing(dir.fs.ino[dir.ip].data)) /\ Calm(s, s)
  BY <1>1, NameiFinds, CalmSelf
<1>7. sys_unlink(s, cwd, path) =
         IF ~path.ok THEN Ret(s, -1)
         ELSE IF dir.ip = None THEN Ret(dir.fs, -1)
         ELSE IF name \in {".", ".."} THEN Ret(iput(t, dir.ip), -1)
         ELSE IF hit.ip = None THEN Ret(iput(hit.fs, dir.ip), -1)
         ELSE unlinkInode(u, hit.ip, dir.ip, name)
  BY <1>1, <1>2, <1>3, <1>4, <1>5 DEF sys_unlink, unlinkIn, unlinkName
<1>8. \A v, n : Ret(v, n).fs = v
  BY DEF Ret
<1>9. CASE dir.ip = None
  BY <1>6, <1>7, <1>8, <1>9 DEF Finds
<1>10. CASE dir.ip # None
  <2>1. Calm(s, dir.fs) /\ Sound(dir.fs) /\ dir.ip \in Inum
    BY <1>6, <1>10, IsInode DEF Finds, Calm, Steady
  <2>2. Calm(s, t) /\ Sound(t) /\ IsListing(t.ino[dir.ip].data)
    BY <1>3, <1>6, <1>10, <2>1, IlockCalm, CalmTrans DEF Calm, Steady
  <2>3. Calm(s, iput(t, dir.ip))
    BY <2>1, <2>2, IputCalm, CalmTrans
  <2>4. Finds(t, hit)
    BY <1>4, <2>2, DirlookupFinds
  <2>5. Calm(s, hit.fs) /\ Sound(hit.fs) /\ IsListing(hit.fs.ino[dir.ip].data) /\ hit.ip \in 0..NINODES
    BY <2>1, <2>2, <2>4, CalmTrans DEF Finds, Calm, Steady
  <2>6. Calm(s, iput(hit.fs, dir.ip))
    BY <2>1, <2>5, IputCalm, CalmTrans
  <2>7. Calm(s, u) /\ Sound(u) /\ IsListing(u.ino[dir.ip].data)
    BY <1>5, <2>1, <2>5, IlockCalm, CalmTrans DEF Calm, Steady
  <2>8. ASSUME hit.ip # None PROVE Calm(s, unlinkInode(u, hit.ip, dir.ip, name).fs)
    <3>1. hit.ip \in Inum
      BY <2>5, <2>8, IsInode
    <3> QED BY <2>1, <2>7, <3>1, UnlinkInodeCalm, CalmTrans
  <2> QED BY <1>6, <1>7, <1>8, <1>10, <2>3, <2>6, <2>8
<1> QED BY <1>9, <1>10

\* chdir() enters a directory of the disk.
LEMMA ChdirCalm ==
    ASSUME NEW s, NEW cwd \in Inum, NEW path, Sound(s), IsPath(path)
    PROVE  Calm(s, sys_chdir(s, cwd, path).fs) /\ sys_chdir(s, cwd, path).cwd \in Inum
<1>1. PICK n : n = namei(s, cwd, path)
  OBVIOUS
<1>2. PICK t : t = ilock(n.fs, n.ip)
  OBVIOUS
<1>3. PICK c : c = sys_chdir(s, cwd, path)
  OBVIOUS
<1>4. c = IF ~path.ok THEN Moved(s, -1, cwd)
          ELSE IF n.ip = None THEN Moved(n.fs, -1, cwd)
          ELSE IF t.ino[n.ip].type # "dir" THEN Moved(iput(t, n.ip), -1, cwd)
          ELSE Moved(iput(t, cwd), 0, n.ip)
  BY <1>1, <1>2, <1>3 DEF sys_chdir, chdirFound, chdirTo
<1>5. \A v, k, w : Moved(v, k, w).fs = v /\ Moved(v, k, w).cwd = w
  BY DEF Moved
<1>6. Calm(s, n.fs) /\ Sound(n.fs) /\ n.ip \in 0..NINODES /\ Calm(s, s)
  BY <1>1, NameiFinds, CalmSelf DEF Finds, Calm, Steady
<1>7. Calm(s, t) /\ Sound(t)
  BY <1>2, <1>6, IlockCalm, CalmTrans DEF Calm, Steady
<1>8. Calm(s, iput(t, cwd))
  BY <1>7, IputCalm, CalmTrans
<1>9. n.ip # None => n.ip \in Inum /\ Calm(s, iput(t, n.ip))
  BY <1>6, <1>7, IsInode, IputCalm, CalmTrans
<1>10. Calm(s, c.fs) /\ c.cwd \in Inum
  BY <1>4, <1>5, <1>6, <1>8, <1>9
<1> QED BY <1>3, <1>10

---------------------------------------------------------------------------
(* The blocks of the kernel.                                               *)

\* An entry of the file table for an inode has one, and what is written to is an inode, a device or a pipe.
IsOpen(r) == /\ r.ip \in 0..NINODES
             /\ r.type \in {"inode", "device"} => r.ip # None
             /\ r.w => r.type \in {"inode", "device", "pipe"}
OpensOk(fl) == \A f \in File : IsOpen(fl[f])

\* No directory can be written to, nor an inode that is free.
Writable(s, fl) ==
    s.panic = "" => \A f \in File : fl[f].w /\ fl[f].ip # None => s.ino[fl[f].ip].type \notin {"dir", "free"}

\* A live process has a directory.
Rooted(tab) == \A p \in Proc : tab[p].st = "live" => tab[p].cwd \in Inum

BlockInv == /\ Sound(fs) /\ Stock(fs) = total.blocks
            /\ OpensOk(file) /\ Writable(fs, file) /\ Rooted(pr)

\* What is open for writing was so before.
NoWider(r, r2) == IsOpen(r2) /\ (r2.w /\ r2.ip # None => r.w /\ r.ip = r2.ip)
FewerOpen(fl, fl2) == \A f \in File : NoWider(fl[f], fl2[f])
StaysRooted(tab, tab2) ==
    \A p \in Proc : tab2[p].st = "live" => (tab[p].st = "live" /\ tab2[p].cwd = tab[p].cwd) \/ tab2[p].cwd \in Inum

\* Nothing changed.
LEMMA StaysSelf ==
    /\ \A fl : OpensOk(fl) => FewerOpen(fl, fl)
    /\ \A tab : StaysRooted(tab, tab)
BY DEF OpensOk, FewerOpen, NoWider, StaysRooted

LEMMA RootedStays ==
    ASSUME NEW tab, NEW tab2, Rooted(tab), StaysRooted(tab, tab2)
    PROVE  Rooted(tab2)
BY DEF Rooted, StaysRooted

\* A count that is not zero.
LEMMA SumPositive ==
    ASSUME NEW m \in Nat, NEW n \in Nat, m # 0
    PROVE  m + n > 0
OBVIOUS

\* An inode that is held keeps its type, so that what could be written can be.
LEMMA WritableKept ==
    ASSUME NEW s, NEW t, NEW fl, NEW fl2, NEW C, NEW D,
           InosExact(s, Ips(fl), C), InosExact(t, Ips(fl2), D), Writable(s, fl), FewerOpen(fl, fl2),
           t.panic = "" => s.panic = "" /\ Retypes(s, t)
    PROVE  Writable(t, fl2)
<1> SUFFICES ASSUME t.panic = "", NEW f \in File, fl2[f].w, fl2[f].ip # None
             PROVE  t.ino[fl2[f].ip].type \notin {"dir", "free"}
  BY DEF Writable
<1>1. s.panic = "" /\ Retypes(s, t)
  OBVIOUS
<1>2. fl[f].w /\ fl[f].ip = fl2[f].ip /\ fl2[f].ip \in 0..NINODES
  BY DEF FewerOpen, NoWider, IsOpen
<1>3. PICK i \in Inum : i = fl2[f].ip
  BY <1>2, IsInode
<1>4. s.ino[i].type \notin {"dir", "free"}
  BY <1>1, <1>2, <1>3 DEF Writable
<1>5. ASSUME NEW u, NEW h, NEW E, InosExact(u, Ips(h), E), u.panic = "", h[f].ip = i
      PROVE  u.ref[i] > 0
  <2>1. u.ref[i] = Cardinality(At_(Ips(h), File, i)) + Cardinality(At_(E, Proc, i))
    BY <1>5 DEF InosExact
  <2>2. f \in At_(Ips(h), File, i)
    BY <1>5 DEF At_, Ips
  <2>3. /\ IsFiniteSet(At_(Ips(h), File, i)) /\ Cardinality(At_(Ips(h), File, i)) \in Nat
        /\ Cardinality(At_(E, Proc, i)) \in Nat
    BY Slots, CountIsNat
  <2>4. Cardinality(At_(Ips(h), File, i)) # 0
    BY <2>2, <2>3, FS_EmptySet
  <2>5. Cardinality(At_(Ips(h), File, i)) + Cardinality(At_(E, Proc, i)) > 0
    BY <2>3, <2>4, SumPositive, Zenon
  <2> QED BY <2>1, <2>5, Zenon
<1>6. s.ref[i] > 0 /\ t.ref[i] > 0
  BY <1>1, <1>2, <1>3, <1>5
<1>7. t.ino[i].type = s.ino[i].type
  BY <1>1, <1>4, <1>6 DEF Retypes
<1> QED BY <1>3, <1>4, <1>7

\* A step that keeps the blocks and opens no file for writing.
LEMMA StillBlocks ==
    ASSUME RefInv, BlockInv, RefInv', Steady(fs, fs'), fs'.panic = "" => fs.panic = "" /\ Retypes(fs, fs'),
           FewerOpen(file, file'), StaysRooted(pr, pr'), total' = total
    PROVE  BlockInv'
<1>1. Sound(fs') /\ Stock(fs') = total'.blocks
  BY DEF BlockInv, Steady
<1>2. OpensOk(file')
  BY DEF FewerOpen, NoWider, OpensOk
<1>3. Writable(fs', file')
  <2>1. InosExact(fs, Ips(file), Cwds(pr)) /\ InosExact(fs', Ips(file'), Cwds(pr'))
    BY DEF RefInv
  <2>2. Writable(fs, file)
    BY DEF BlockInv
  <2> QED BY <2>1, <2>2, WritableKept
<1>4. Rooted(pr')
  BY RootedStays DEF BlockInv
<1> QED BY <1>1, <1>2, <1>3, <1>4 DEF BlockInv

\* A step that leaves the file system alone.
LEMMA IdleBlocks ==
    ASSUME BlockInv, fs' = fs, FewerOpen(file, file'), StaysRooted(pr, pr'), total' = total
    PROVE  BlockInv'
<1>1. OpensOk(file')
  BY DEF FewerOpen, NoWider, OpensOk
<1>2. Writable(fs', file')
  BY DEF BlockInv, Writable, FewerOpen, NoWider
<1>3. Rooted(pr')
  BY RootedStays DEF BlockInv
<1> QED BY <1>1, <1>2, <1>3 DEF BlockInv

\* The types of the inodes that are held.
LEMMA RetypesOf ==
    ASSUME NEW s, NEW t
    PROVE  /\ Neutral(s, t) => (t.panic = "" => s.panic = "" /\ Retypes(s, t))
           /\ \A i : Holds(s, t, None, i, None) => (t.panic = "" => s.panic = "" /\ Retypes(s, t))
           /\ \A a, b, c : Moves(s, t, a, b, c) => (t.panic = "" => s.panic = "" /\ Retypes(s, t))
           /\ Same(s, t) => (t.panic = "" => s.panic = "" /\ Retypes(s, t))
BY DEF Neutral, Holds, Moves, Same, SameTypes, Retypes

\* The first lines of a call on names.
LEMMA NamesBlocks ==
    ASSUME RefInv, BlockInv, RefInv', NEW p \in Proc, IsPath(I(p).path), total' = total,
           \/ SysLink(p) /\ IsPath(I(p).new)
           \/ SysUnlink(p)
           \/ SysMkdir(p)
           \/ SysMknod(p)
    PROVE  BlockInv'
<1>1. file' = file /\ pr' = pr /\ pr[p].st = "live"
  BY DEF SysLink, SysUnlink, SysMkdir, SysMknod, NameCall, Alive, At
<1>2. IsFs(fs) /\ Sound(fs) /\ pr[p].cwd \in Inum
  BY <1>1 DEF RefInv, BlockInv, Rooted
<1>3. Neutral(fs, fs') /\ Steady(fs, fs')
  <2>1. CASE SysLink(p) /\ IsPath(I(p).new)
    <3>1. fs' = sys_link(fs, pr[p].cwd, I(p).path, I(p).new).fs
      BY <2>1 DEF SysLink, NameCall
    <3> QED BY <1>2, <2>1, <3>1, LinkNeutral, LinkCalm DEF Calm
  <2>2. CASE SysUnlink(p)
    <3>1. fs' = sys_unlink(fs, pr[p].cwd, I(p).path).fs
      BY <2>2 DEF SysUnlink, NameCall
    <3> QED BY <1>2, <3>1, UnlinkNeutral, UnlinkCalm DEF Calm
  <2>3. CASE SysMkdir(p)
    <3>1. fs' = sys_mkdir(fs, pr[p].cwd, I(p).path).fs
      BY <2>3 DEF SysMkdir, NameCall
    <3> QED BY <1>2, <3>1, MkdirNeutral, MkdirSteady
  <2>4. CASE SysMknod(p)
    <3>1. fs' = sys_mknod(fs, pr[p].cwd, I(p).path).fs
      BY <2>4 DEF SysMknod, NameCall
    <3> QED BY <1>2, <3>1, MkdirNeutral, MkdirSteady
  <2> QED BY <2>1, <2>2, <2>3, <2>4
<1>4. FewerOpen(file, file') /\ StaysRooted(pr, pr')
  BY <1>1, StaysSelf DEF BlockInv
<1> QED BY <1>3, <1>4, RetypesOf, StillBlocks

\* chdir().
LEMMA ChdirBlocks ==
    ASSUME RefInv, BlockInv, RefInv', NEW p \in Proc, IsPath(I(p).path), SysChdir(p), total' = total
    PROVE  BlockInv'
<1>1. PICK c : c = sys_chdir(fs, pr[p].cwd, I(p).path)
  OBVIOUS
<1>2. file' = file /\ fs' = c.fs /\ pr' = [pr EXCEPT ![p].cwd = c.cwd] /\ pr[p].st = "live"
  BY <1>1 DEF SysChdir, NameCall, Alive, At
<1>3. IsFs(fs) /\ Sound(fs) /\ pr[p].cwd \in Inum
  BY <1>2 DEF RefInv, BlockInv, Rooted
<1>4. Calm(fs, c.fs) /\ c.cwd \in Inum /\ Moves(fs, c.fs, c.cwd, pr[p].cwd, None)
  BY <1>1, <1>3, ChdirCalm, ChdirMoves
<1>5. StaysRooted(pr, pr')
  <2> SUFFICES ASSUME NEW q \in Proc, pr'[q].st = "live"
               PROVE  (pr[q].st = "live" /\ pr'[q].cwd = pr[q].cwd) \/ pr'[q].cwd \in Inum
    BY DEF StaysRooted
  <2>1. DOMAIN pr = Proc /\ DOMAIN pr[q] = ProcFields
    BY DEF RefInv, ProcsOk, IsProc
  <2>2. CASE q = p
    BY <1>2, <1>4, <2>1, <2>2 DEF ProcFields
  <2>3. CASE q # p
    BY <1>2, <2>1, <2>3
  <2> QED BY <2>2, <2>3
<1>6. FewerOpen(file, file') /\ Steady(fs, fs')
  BY <1>2, <1>4, StaysSelf DEF BlockInv, Calm
<1>7. fs'.panic = "" => fs.panic = "" /\ Retypes(fs, fs')
  BY <1>2, <1>4, RetypesOf
<1> QED BY <1>5, <1>6, <1>7, StillBlocks

\* One entry of the file table.
LEMMA EntryFewer ==
    ASSUME NEW fl, NEW f, NEW r, FilesOk(fl), OpensOk(fl), f \in File => NoWider(fl[f], r)
    PROVE  FewerOpen(fl, With(fl, f, r))
<1>1. PICK t : t = With(fl, f, r)
  OBVIOUS
<1>2. \A g \in File : t[g] = IF g = f THEN r ELSE fl[g]
  BY <1>1 DEF With, FilesOk
<1>3. \A g \in File : NoWider(fl[g], fl[g])
  BY DEF OpensOk, NoWider
<1>4. FewerOpen(fl, t)
  BY <1>2, <1>3 DEF FewerOpen
<1> QED BY <1>1, <1>4

LEMMA FewerTrans ==
    ASSUME NEW fl, NEW fl2, NEW fl3, FewerOpen(fl, fl2), FewerOpen(fl2, fl3)
    PROVE  FewerOpen(fl, fl3)
BY DEF FewerOpen, NoWider

\* The count and the offset of an open file.
LEMMA RecountFewer ==
    ASSUME NEW r, NEW n, IsFile(r), IsOpen(r)
    PROVE  NoWider(r, [r EXCEPT !.ref = n]) /\ NoWider(r, [r EXCEPT !.off = n])
BY DEF IsFile, FileFields, IsOpen, NoWider

LEMMA OffFewer ==
    ASSUME NEW fl, NEW f, NEW x, FilesOk(fl), OpensOk(fl)
    PROVE  FewerOpen(fl, WithOff(fl, f, x))
<1>1. PICK r : r = [fl[f] EXCEPT !.off = x]
  OBVIOUS
<1>2. WithOff(fl, f, x) = With(fl, f, r)
  BY <1>1 DEF WithOff, With
<1>3. f \in File => NoWider(fl[f], r)
  BY <1>1, RecountFewer DEF FilesOk, OpensOk
<1> QED BY <1>2, <1>3, EntryFewer

\* A descriptor is no directory, nor is the memory.
LEMMA WithFdStays ==
    ASSUME NEW tab, NEW p, NEW fd, NEW f, NEW a, NEW b, ProcsOk(tab)
    PROVE  /\ StaysRooted(tab, WithFd(tab, p, fd, f))
           /\ StaysRooted(tab, WithMem(tab, p, a, b))
<1>1. DOMAIN tab = Proc /\ \A q \in Proc : DOMAIN tab[q] = ProcFields
  BY DEF ProcsOk, IsProc
<1> QED BY <1>1 DEF StaysRooted, WithFd, WithMem, ProcFields

\* dup().
LEMMA DupBlocks ==
    ASSUME RefInv, BlockInv, NEW p \in Proc, SysDup(p), total' = total
    PROVE  BlockInv'
<1>1. PICK f : f = argfd(p, I(p).fd)
  OBVIOUS
<1>2. PICK fd : fd = Smallest(freeFds(p))
  OBVIOUS
<1>3. fs' = fs
  BY DEF SysDup
<1>4. FilesOk(file) /\ ProcsOk(pr) /\ OpensOk(file)
  BY DEF RefInv, BlockInv
<1>5. CASE f = None \/ freeFds(p) = {}
  <2>1. file' = file /\ pr' = pr
    BY <1>1, <1>5 DEF SysDup
  <2> QED BY <1>3, <1>4, <2>1, StaysSelf, IdleBlocks
<1>6. CASE f # None /\ freeFds(p) # {}
  <2>1. PICK r : r = [file[f] EXCEPT !.ref = @ + 1]
    OBVIOUS
  <2>2. pr' = WithFd(pr, p, fd, f) /\ file' = With(file, f, r)
    BY <1>1, <1>2, <1>6, <2>1 DEF SysDup, filedup, With, WithFd
  <2>3. f \in File => NoWider(file[f], r)
    BY <1>4, <2>1, RecountFewer DEF FilesOk, OpensOk
  <2> QED BY <1>3, <1>4, <2>2, <2>3, EntryFewer, WithFdStays, IdleBlocks
<1> QED BY <1>5, <1>6

\* read().
LEMMA ReadBlocks ==
    ASSUME RefInv, BlockInv, NEW p \in Proc, SysRead(p), total' = total
    PROVE  BlockInv'
<1>1. PICK f : f = argfd(p, I(p).fd)
  OBVIOUS
<1>2. fs' = fs /\ pr' = pr
  BY DEF SysRead
<1>3. file' = file \/ readInode(p, f)
  BY <1>1 DEF SysRead
<1>4. ASSUME readInode(p, f) PROVE file' = file \/ \E x : file' = WithOff(file, f, x)
  <2>1. PICK k : k = Len(readi(fs, file[f].ip, file[f].off, I(p).n))
    OBVIOUS
  <2>2. file' = file \/ file' = [file EXCEPT ![f].off = @ + k]
    BY <1>4, <2>1 DEF readInode
  <2>3. PICK x : x = file[f].off + k
    OBVIOUS
  <2>4. [file EXCEPT ![f].off = @ + k] = WithOff(file, f, x)
    BY <2>3 DEF WithOff
  <2> QED BY <2>2, <2>4
<1>5. FewerOpen(file, file')
  BY <1>3, <1>4, OffFewer, StaysSelf DEF RefInv, BlockInv
<1> QED BY <1>2, <1>5, StaysSelf, IdleBlocks

\* pipe(): the ends are for a pipe, which is no inode.
LEMMA PipeBlocks ==
    ASSUME RefInv, BlockInv, NEW p \in Proc, SysPipe(p), total' = total
    PROVE  BlockInv'
<1>1. PICK f0, d0 : f0 = Smallest(freeFiles) /\ d0 = Smallest(freeFds(p))
  OBVIOUS
<1>2. PICK f1, d1 : f1 = Smallest(freeFiles \ {f0}) /\ d1 = Smallest(freeFds(p) \ {d0})
  OBVIOUS
<1>3. PICK q : q = Smallest({x \in Pipe : ~pipe[x].open})
  OBVIOUS
<1>4. PICK e0, e1 : /\ e0 = [ref |-> 1, type |-> "pipe", r |-> TRUE, w |-> FALSE, ip |-> None, off |-> 0, pipe |-> q]
                    /\ e1 = [ref |-> 1, type |-> "pipe", r |-> FALSE, w |-> TRUE, ip |-> None, off |-> 0, pipe |-> q]
  OBVIOUS
<1>5. fs' = fs
  BY DEF SysPipe
<1>6. FilesOk(file) /\ ProcsOk(pr) /\ OpensOk(file)
  BY DEF RefInv, BlockInv
<1>7. (file' = file /\ pr' = pr)
      \/ (/\ file' = [file EXCEPT ![f0] = e0, ![f1] = e1]
          /\ pr' = [pr EXCEPT ![p].ofile[d0] = f0, ![p].ofile[d1] = f1])
  BY <1>1, <1>2, <1>3, <1>4 DEF SysPipe, pipealloc
<1>8. CASE file' = file /\ pr' = pr
  BY <1>5, <1>6, <1>8, StaysSelf, IdleBlocks
<1>9. CASE /\ file' = [file EXCEPT ![f0] = e0, ![f1] = e1]
           /\ pr' = [pr EXCEPT ![p].ofile[d0] = f0, ![p].ofile[d1] = f1]
  <2>1. \A r : NoWider(r, e0) /\ NoWider(r, e1)
    <3>1. e0.ip = None /\ e1.ip = None /\ e0.type = "pipe" /\ e1.type = "pipe"
      BY <1>4
    <3> QED BY <3>1, IsInode DEF NoWider, IsOpen
  <2>2. FewerOpen(file, file')
    <3>1. DOMAIN file = File
      BY <1>6 DEF FilesOk
    <3>2. \A g \in File : file'[g] \in {file[g], e0, e1}
      BY <1>9, <3>1
    <3>3. \A g \in File : NoWider(file[g], file[g])
      BY <1>6 DEF OpensOk, NoWider
    <3> QED BY <2>1, <3>2, <3>3 DEF FewerOpen
  <2>3. StaysRooted(pr, pr')
    <3>1. DOMAIN pr = Proc /\ \A x \in Proc : DOMAIN pr[x] = ProcFields
      BY <1>6 DEF ProcsOk, IsProc
    <3> QED BY <1>9, <3>1 DEF StaysRooted, ProcFields
  <2> QED BY <1>5, <2>2, <2>3, IdleBlocks
<1> QED BY <1>7, <1>8, <1>9

\* wait(), kill() and sbrk().
LEMMA ProcBlocks ==
    ASSUME RefInv, BlockInv, NEW p \in Proc, SysWait(p) \/ SysKill(p) \/ SysSbrk(p), total' = total
    PROVE  BlockInv'
<1>1. fs' = fs /\ file' = file
  BY DEF SysWait, SysKill, SysSbrk
<1>2. ProcsOk(pr) /\ DOMAIN pr = Proc /\ \A q \in Proc : DOMAIN pr[q] = ProcFields
  BY DEF RefInv, ProcsOk, IsProc
<1>3. StaysRooted(pr, pr')
  <2>1. CASE SysWait(p)
    <3>1. PICK q : q = Smallest({x \in {y \in Proc : pr[y].st # "unused" /\ pr[y].parent = p} : pr[x].st = "zombie"})
      OBVIOUS
    <3>2. pr' = pr \/ pr' = [pr EXCEPT ![q] = NoProc]
      BY <2>1, <3>1 DEF SysWait
    <3>3. NoProc.st = "unused"
      BY DEF NoProc
    <3> QED BY <1>2, <3>2, <3>3 DEF StaysRooted
  <2>2. CASE SysKill(p)
    <3>1. pr' = pr \/ \E q : pr' = [pr EXCEPT ![q].killed = TRUE]
      BY <2>2 DEF SysKill
    <3> QED BY <1>2, <3>1 DEF StaysRooted, ProcFields
  <2>3. CASE SysSbrk(p)
    <3>1. \E a, b : pr' = WithMem(pr, p, a, b)
      BY <2>3 DEF SysSbrk, WithMem
    <3> QED BY <1>2, <3>1, WithFdStays
  <2> QED BY <2>1, <2>2, <2>3
<1> QED BY <1>1, <1>3, StaysSelf, IdleBlocks DEF BlockInv

\* ilock() stops at a free inode.
LEMMA IlockIs ==
    ASSUME NEW s, NEW i, IsFs(s)
    PROVE  /\ ilock(s, i).ino = s.ino
           /\ ilock(s, i).panic = "" => s.ino[i].type # "free"
BY DEF ilock, Panic, IsFs

\* open(): what is opened for writing is neither free nor a directory.
LEMMA OpenBlocks ==
    ASSUME RefInv, BlockInv, RefInv', NEW p \in Proc, SysOpen(p), IsPath(I(p).path), total' = total
    PROVE  BlockInv'
<1>1. PICK i : i = I(p)
  OBVIOUS
<1>2. PICK c : c = IF "CREATE" \in i.mode THEN create(fs, pr[p].cwd, i.path, "file")
                   ELSE namei(fs, pr[p].cwd, i.path)
  OBVIOUS
<1>3. PICK fs1 : fs1 = IF c.ip = None THEN c.fs ELSE ilock(c.fs, c.ip)
  OBVIOUS
<1>4. PICK type : type = fs1.ino[c.ip].type
  OBVIOUS
<1>5. PICK f : f = Smallest(freeFiles)
  OBVIOUS
<1>6. PICK fd : fd = Smallest(freeFds(p))
  OBVIOUS
<1>7. PICK fs2 : fs2 = IF "TRUNC" \in i.mode /\ type = "file" THEN itrunc(fs1, c.ip) ELSE fs1
  OBVIOUS
<1>8. PICK r : r = [ref |-> 1, type |-> IF type = "dev" THEN "device" ELSE "inode",
                    r |-> "WRONLY" \notin i.mode, w |-> i.mode \cap {"WRONLY", "RDWR"} # {},
                    ip |-> c.ip, off |-> 0, pipe |-> None]
  OBVIOUS
<1>9. PICK error : error = (\/ "CREATE" \notin i.mode /\ type = "dir" /\ i.mode # {}
                            \/ freeFiles = {} \/ freeFds(p) = {})
  OBVIOUS
<1>10. \/ fs' = fs /\ file' = file /\ pr' = pr
       \/ c.ip = None /\ fs' = c.fs /\ file' = file /\ pr' = pr
       \/ c.ip # None /\ fs' = iput(fs1, c.ip) /\ file' = file /\ pr' = pr
       \/ /\ c.ip # None /\ ~error /\ fs' = fs2 /\ file' = With(file, f, r) /\ pr' = WithFd(pr, p, fd, f)
  BY <1>1, <1>2, <1>3, <1>4, <1>5, <1>6, <1>7, <1>8, <1>9 DEF SysOpen, With, WithFd
<1>11. IsFs(fs) /\ FilesOk(file) /\ ProcsOk(pr) /\ Sound(fs) /\ OpensOk(file) /\ Rooted(pr)
  BY DEF RefInv, BlockInv
<1>12. pr[p].cwd \in Inum
  BY <1>11 DEF SysOpen, Alive, At, Rooted
<1>13. Holds(fs, c.fs, None, c.ip, None)
  BY <1>1, <1>2, <1>11, CreateHolds, NameiHolds
<1>14. /\ Steady(fs, c.fs) /\ c.ip \in 0..NINODES
       /\ "CREATE" \in i.mode /\ c.ip # None => c.fs.ino[c.ip].type \in {"file", "dev", "free"}
  <2>1. CASE "CREATE" \in i.mode
    <3>1. Makes(fs, c, "file")
      BY <1>1, <1>2, <1>11, <1>12, <2>1, CreateMakes
    <3> QED BY <3>1 DEF Makes
  <2>2. CASE "CREATE" \notin i.mode
    <3>1. Finds(fs, c)
      BY <1>1, <1>2, <1>11, <1>12, <2>2, NameiFinds
    <3> QED BY <2>2, <3>1 DEF Finds, Calm
  <2> QED BY <2>1, <2>2
<1>15. Sound(c.fs) /\ IsFs(c.fs)
  BY <1>14 DEF Steady, Sound
<1>16. Steady(fs, fs1) /\ Sound(fs1) /\ IsFs(fs1)
  <2>1. Steady(c.fs, ilock(c.fs, c.ip))
    BY <1>15, IlockCalm DEF Calm
  <2>2. Steady(fs, fs1)
    BY <1>3, <1>14, <2>1, SteadyTrans
  <2> QED BY <2>2 DEF Steady, Sound
<1>17. Holds(fs, fs1, None, c.ip, None)
  BY <1>3, <1>13, IlockHolds
<1>18. CASE fs' = fs /\ file' = file /\ pr' = pr
  BY <1>11, <1>18, StaysSelf, IdleBlocks
<1>19. CASE c.ip = None /\ fs' = c.fs /\ file' = file /\ pr' = pr
  <2>1. Neutral(fs, fs')
    BY <1>13, <1>19 DEF Neutral
  <2> QED BY <1>11, <1>14, <1>19, <2>1, RetypesOf, StaysSelf, StillBlocks
<1>20. CASE c.ip # None /\ fs' = iput(fs1, c.ip) /\ file' = file /\ pr' = pr
  <2>1. Holds(fs, iput(fs1, c.ip), None, None, None)
    BY <1>11, <1>17, HoldsSwap, IputHolds
  <2>2. Neutral(fs, fs')
    BY <1>20, <2>1 DEF Neutral
  <2>3. Steady(fs1, fs')
    BY <1>14, <1>16, <1>20, IsInode, IputCalm DEF Calm
  <2>4. Steady(fs, fs')
    BY <1>16, <2>3, SteadyTrans
  <2> QED BY <1>11, <1>20, <2>2, <2>4, RetypesOf, StaysSelf, StillBlocks
<1>21. CASE c.ip # None /\ ~error /\ fs' = fs2 /\ file' = With(file, f, r) /\ pr' = WithFd(pr, p, fd, f)
  <2>1. c.ip \in Inum
    BY <1>14, <1>21, IsInode
  <2>2. Same(fs1, fs2)
    BY <1>7, <1>16, ItruncSame, SameSelf
  <2>3. Steady(fs1, fs2)
    <3>1. Steady(fs1, itrunc(fs1, c.ip)) /\ Steady(fs1, fs1)
      BY <1>16, <2>1, ItruncCalm, CalmSelf DEF Calm
    <3> QED BY <1>7, <3>1
  <2>4. Steady(fs, fs')
    BY <1>16, <1>21, <2>3, SteadyTrans
  <2>5. fs'.panic = "" => fs.panic = "" /\ Retypes(fs, fs')
    BY <1>17, <1>21, <2>2, HoldsSame, RetypesOf
  <2>6. f \in File
    BY <1>5, <1>6, <1>9, <1>21, FreeSlots
  <2>7. PICK r2 : r2 = [r EXCEPT !.w = FALSE]
    OBVIOUS
  <2>8. PICK fl : fl = With(file, f, r2)
    OBVIOUS
  <2>9. r2.w = FALSE /\ r2.ip = c.ip /\ r.ip = c.ip /\ IsOpen(r2) /\ IsOpen(r)
    <3>1. r2.w = FALSE /\ r2.ip = c.ip /\ r.ip = c.ip /\ r2.type = r.type
      BY <1>8, <2>7
    <3>2. r.type \in {"inode", "device"}
      BY <1>8
    <3> QED BY <1>14, <1>21, <3>1, <3>2 DEF IsOpen
  <2>10. FewerOpen(file, fl)
    BY <1>11, <2>8, <2>9, EntryFewer DEF NoWider
  <2>11. /\ \A g \in File : fl[g] = IF g = f THEN r2 ELSE file[g]
         /\ \A g \in File : file'[g] = IF g = f THEN r ELSE file[g]
    BY <1>11, <1>21, <2>8 DEF With, FilesOk
  <2>12. Writable(fs', fl)
    <3>1. Ips(fl) = Ips(file')
      BY <2>9, <2>11 DEF Ips
    <3>2. InosExact(fs, Ips(file), Cwds(pr)) /\ InosExact(fs', Ips(fl), Cwds(pr'))
      BY <3>1 DEF RefInv
    <3>3. Writable(fs, file)
      BY DEF BlockInv
    <3> QED BY <2>5, <2>10, <3>2, <3>3, WritableKept
  <2>13. fs'.panic = "" /\ r.w => fs'.ino[c.ip].type \notin {"dir", "free"}
    <3> SUFFICES ASSUME fs'.panic = "", r.w PROVE fs'.ino[c.ip].type \notin {"dir", "free"}
      OBVIOUS
    <3>1. fs1.panic = "" /\ fs'.ino[c.ip].type = type
      BY <1>4, <1>21, <2>1, <2>2 DEF Same, SameTypes
    <3>2. fs1 = ilock(c.fs, c.ip)
      BY <1>3, <1>21
    <3>3. type # "free" /\ type = c.fs.ino[c.ip].type
      <4>1. fs1.ino = c.fs.ino /\ (fs1.panic = "" => c.fs.ino[c.ip].type # "free")
        BY <1>15, <3>2, IlockIs, Zenon
      <4> QED BY <1>4, <3>1, <4>1, Zenon
    <3>4. i.mode # {}
      BY <1>8
    <3>5. type # "dir"
      BY <1>9, <1>14, <1>21, <3>3, <3>4
    <3> QED BY <3>1, <3>3, <3>5
  <2>14. Writable(fs', file')
    BY <2>9, <2>11, <2>12, <2>13 DEF Writable
  <2>15. OpensOk(file')
    BY <1>11, <2>9, <2>11 DEF OpensOk
  <2>16. Rooted(pr')
    BY <1>11, <1>21, WithFdStays, RootedStays
  <2>17. Sound(fs') /\ Stock(fs') = total'.blocks
    BY <2>4 DEF BlockInv, Steady
  <2> QED BY <2>14, <2>15, <2>16, <2>17 DEF BlockInv
<1> QED BY <1>10, <1>18, <1>19, <1>20, <1>21

\* write(): to an inode that is neither free nor a directory.
LEMMA WriteBlocks ==
    ASSUME RefInv, BlockInv, NEW p \in Proc, SysWrite(p), IsSource(I(p)), total' = total
    PROVE  BlockInv'
<1>1. PICK f : f = argfd(p, I(p).fd)
  OBVIOUS
<1>2. PICK w : w = writei(fs, file[f].ip, file[f].off, Part(p, MAXWRITE), SourceOk(p))
  OBVIOUS
<1>3. pr' = pr /\ fs.panic = ""
  BY DEF SysWrite, At
<1>4. /\ FilesOk(file) /\ ProcsOk(pr) /\ Sound(fs) /\ OpensOk(file) /\ Writable(fs, file)
      /\ Rooted(pr) /\ Stock(fs) = total.blocks
  BY DEF RefInv, BlockInv
<1>5. \/ fs' = fs /\ file' = file
      \/ f # None /\ file[f].w /\ file[f].type # "device" /\ file[f].type # "pipe" /\ writeInode(p, f, w)
  BY <1>1, <1>2 DEF SysWrite
<1>6. CASE fs' = fs /\ file' = file
  BY <1>3, <1>4, <1>6, StaysSelf, IdleBlocks
<1>7. CASE f # None /\ file[f].w /\ file[f].type # "device" /\ file[f].type # "pipe" /\ writeInode(p, f, w)
  <2>1. f \in File
    BY <1>1, <1>4, <1>7, ArgfdIs
  <2>2. file[f].ip # None /\ file[f].ip \in 0..NINODES
    BY <1>4, <1>7, <2>1 DEF OpensOk, IsOpen
  <2>3. PICK i \in Inum : i = file[f].ip
    BY <2>2, IsInode
  <2>4. fs.ino[i].type \notin {"dir", "free"}
    BY <1>3, <1>4, <1>7, <2>1, <2>2, <2>3 DEF Writable
  <2>5. Even(fs, w.fs)
    <3>1. Len(Part(p, MAXWRITE)) \in Nat
      BY KernelAssumption, PartIs
    <3> QED BY <1>2, <1>4, <2>3, <2>4, <3>1, WriteiEven
  <2>6. fs' = w.fs
    BY <1>7 DEF writeInode
  <2>7. \E x : file' = WithOff(file, f, x)
    <3>1. PICK x : x = IF w.n > 0 THEN file[f].off + w.n ELSE file[f].off
      OBVIOUS
    <3>2. file' = [file EXCEPT ![f].off = IF w.n > 0 THEN @ + w.n ELSE @]
      BY <1>7 DEF writeInode
    <3>3. [file EXCEPT ![f].off = IF w.n > 0 THEN @ + w.n ELSE @] = WithOff(file, f, x)
      BY <3>1 DEF WithOff
    <3> QED BY <3>2, <3>3
  <2>8. FewerOpen(file, file')
    BY <1>4, <2>7, OffFewer
  <2>9. OpensOk(file')
    BY <2>8 DEF FewerOpen, NoWider, OpensOk
  <2>10. Writable(fs', file')
    <3> SUFFICES ASSUME NEW g \in File, file'[g].w, file'[g].ip # None
                 PROVE  fs'.ino[file'[g].ip].type \notin {"dir", "free"}
      BY DEF Writable
    <3>1. file[g].w /\ file[g].ip = file'[g].ip /\ file'[g].ip \in 0..NINODES
      BY <2>8 DEF FewerOpen, NoWider, IsOpen
    <3>2. PICK j \in Inum : j = file'[g].ip
      BY <3>1, IsInode
    <3>3. fs.ino[j].type \notin {"dir", "free"}
      BY <1>3, <1>4, <3>1, <3>2 DEF Writable
    <3> QED BY <2>5, <2>6, <3>2, <3>3 DEF Even, SameTypes
  <2>11. Sound(fs') /\ Stock(fs') = total'.blocks
    BY <1>4, <2>5, <2>6 DEF Even
  <2> QED BY <1>3, <1>4, <2>9, <2>10, <2>11 DEF BlockInv
<1> QED BY <1>5, <1>6, <1>7

\* fork(): the child holds the directory of its parent.
LEMMA ForkBlocks ==
    ASSUME RefInv, BlockInv, RefInv', NEW p \in Proc, SysFork(p), total' = total
    PROVE  BlockInv'
<1>1. PICK unused : unused = {q \in Proc : pr[q].st = "unused"}
  OBVIOUS
<1>2. PICK q : q = Smallest(unused)
  OBVIOUS
<1>3. PICK m : m = forkMem(free, pr[p].sz)
  OBVIOUS
<1>4. PICK error : error = (unused = {} \/ ~m.ok)
  OBVIOUS
<1>5. /\ FilesOk(file) /\ ProcsOk(pr) /\ Sound(fs) /\ IsFs(fs) /\ OpensOk(file) /\ Rooted(pr)
      /\ pr[p].st = "live"
  BY DEF RefInv, BlockInv, SysFork, Alive, At
<1>6. CASE error
  <2>1. fs' = fs /\ file' = file /\ pr' = pr
    BY <1>1, <1>3, <1>4, <1>6 DEF SysFork
  <2> QED BY <1>5, <2>1, StaysSelf, IdleBlocks
<1>7. CASE ~error
  <2> DEFINE copies(f) == Cardinality({fd \in Fd : pr[p].ofile[fd] = f})
  <2>1. PICK r : r = [pr[p] EXCEPT !.parent = p, !.low = m.low, !.killed = FALSE, !.xst = 0]
    OBVIOUS
  <2>2. /\ file' = [f \in File |-> [file[f] EXCEPT !.ref = @ + copies(f)]]
        /\ fs' = iget(fs, pr[p].cwd)
        /\ pr' = With(pr, q, r)
    BY <1>1, <1>2, <1>3, <1>4, <1>7, <2>1 DEF SysFork, With
  <2>3. FewerOpen(file, file')
    <3> SUFFICES ASSUME NEW f \in File PROVE NoWider(file[f], file'[f])
      BY DEF FewerOpen
    <3>1. PICK k : k = file[f].ref + copies(f)
      OBVIOUS
    <3>2. file'[f] = [file[f] EXCEPT !.ref = k]
      BY <2>2, <3>1
    <3>3. IsFile(file[f]) /\ IsOpen(file[f])
      BY <1>5 DEF FilesOk, OpensOk
    <3>4. NoWider(file[f], [file[f] EXCEPT !.ref = k])
      BY <3>3, RecountFewer, Zenon
    <3> QED BY <3>2, <3>4, Zenon
  <2>4. r.cwd \in Inum
    BY <1>5, <2>1 DEF ProcsOk, IsProc, ProcFields, Rooted
  <2>5. \A a \in Proc : pr'[a] = IF a = q THEN r ELSE pr[a]
    BY <1>5, <2>2 DEF With, ProcsOk
  <2>6. StaysRooted(pr, pr')
    BY <2>4, <2>5 DEF StaysRooted
  <2>7. Steady(fs, fs')
    BY <1>5, <2>2, IgetCalm DEF Calm
  <2>8. Moves(fs, fs', pr[p].cwd, None, None)
    BY <1>5, <2>2, IgetMoves
  <2>9. fs'.panic = "" => fs.panic = "" /\ Retypes(fs, fs')
    BY <2>8, RetypesOf
  <2> QED BY <2>3, <2>6, <2>7, <2>9, StillBlocks
<1> QED BY <1>6, <1>7

\* exec(): the program that is read is put back.
LEMMA ExecBlocks ==
    ASSUME RefInv, BlockInv, RefInv', NEW p \in Proc, IsPath(I(p).path), SysExec(p), total' = total
    PROVE  BlockInv'
<1>1. PICK n : n = namei(fs, pr[p].cwd, I(p).path)
  OBVIOUS
<1>2. file' = file
  BY DEF SysExec
<1>3. fs' = fs \/ (n.ip = None /\ fs' = n.fs) \/ (n.ip # None /\ fs' = iput(ilock(n.fs, n.ip), n.ip))
  BY <1>1 DEF SysExec
<1>4. pr' = pr \/ \E a, b : pr' = WithMem(pr, p, a, b)
  BY SMTT(30) DEF SysExec, WithMem
<1>5. /\ ProcsOk(pr) /\ Sound(fs) /\ IsFs(fs) /\ OpensOk(file) /\ Rooted(pr)
      /\ pr[p].st = "live"
  BY DEF RefInv, BlockInv, SysExec, Alive, At
<1>6. FewerOpen(file, file') /\ StaysRooted(pr, pr')
  BY <1>2, <1>4, <1>5, StaysSelf, WithFdStays
<1>7. pr[p].cwd \in Inum
  BY <1>5 DEF Rooted
<1>8. Calm(fs, n.fs) /\ Sound(n.fs) /\ n.ip \in 0..NINODES
  <2>1. Finds(fs, n)
    BY <1>1, <1>5, <1>7, NameiFinds, Zenon
  <2> QED BY <2>1 DEF Finds, Calm, Steady
<1>9. Calm(fs, ilock(n.fs, n.ip)) /\ Sound(ilock(n.fs, n.ip))
  BY <1>8, IlockCalm, CalmTrans DEF Calm, Steady
<1>10. n.ip # None => Calm(fs, iput(ilock(n.fs, n.ip), n.ip))
  BY <1>8, <1>9, IsInode, IputCalm, CalmTrans
<1>11. Steady(fs, fs')
  BY <1>3, <1>5, <1>8, <1>10, CalmSelf DEF Calm
<1>12. Neutral(fs, fs')
  <2>1. Holds(fs, n.fs, None, n.ip, None)
    BY <1>1, SameTables, NameiHolds
  <2>2. Holds(fs, ilock(n.fs, n.ip), None, n.ip, None)
    BY <2>1, IlockHolds
  <2>3. Holds(fs, iput(ilock(n.fs, n.ip), n.ip), None, None, None)
    BY <2>2, SameTables, HoldsSwap, IputHolds
  <2> QED BY <1>3, <2>1, <2>3, SameTables DEF Neutral
<1> QED BY <1>6, <1>11, <1>12, RetypesOf, StillBlocks

\* The calls that touch none of the tables.
LEMMA OthersBlocks ==
    ASSUME BlockInv, UNCHANGED <<file, pr, fs>>, total' = total
    PROVE  BlockInv'
<1>1. OpensOk(file)
  BY DEF BlockInv
<1> QED BY <1>1, StaysSelf, IdleBlocks

\* What fileclose() is given, and gives back: the blocks are all there.
Stocked(st, B) == Sound(st.fs) /\ Stock(st.fs) = B /\ OpensOk(st.file) /\ Writable(st.fs, st.file)

\* What fileclose() does to the file table and to the file system.
LEMMA FilecloseDoes ==
    ASSUME NEW st, NEW f \in File, DOMAIN st = {"file", "pipe", "fs", "free"}, FilesOk(st.file), OpensOk(st.file)
    PROVE  \E r : /\ fileclose(st, f).file = With(st.file, f, r) /\ NoWider(st.file[f], r)
                  /\ \/ fileclose(st, f).fs = st.fs
                     \/ st.file[f].ip \in Inum /\ fileclose(st, f).fs = iput(st.fs, st.file[f].ip)
<1>1. PICK ff : ff = st.file[f]
  OBVIOUS
<1>2. PICK s1 : s1 = [st EXCEPT !.file[f] = NoFile]
  OBVIOUS
<1>3. IsFile(ff) /\ IsOpen(ff)
  BY <1>1 DEF FilesOk, OpensOk
<1>4. DOMAIN s1 = DOMAIN st /\ s1.file = With(st.file, f, NoFile) /\ s1.fs = st.fs
  BY <1>2 DEF With
<1>5. NoWider(ff, NoFile)
  BY IsInode DEF NoWider, IsOpen, NoFile
<1>6. CASE ff.ref > 1
  <2>1. PICK n : n = ff.ref - 1
    OBVIOUS
  <2>2. PICK r : r = [ff EXCEPT !.ref = n]
    OBVIOUS
  <2>3. NoWider(ff, r)
    BY <1>3, <2>2, RecountFewer
  <2>4. fileclose(st, f) = [st EXCEPT !.file = With(st.file, f, r)]
    <3>1. fileclose(st, f) = [st EXCEPT !.file[f].ref = @ - 1]
      BY <1>1, <1>6 DEF fileclose
    <3> QED BY <1>1, <2>1, <2>2, <3>1 DEF With
  <2> QED BY <1>1, <2>3, <2>4
<1>7. CASE ~(ff.ref > 1)
  <2>1. CASE ff.type = "pipe"
    <3>1. fileclose(st, f) = pipeclose(s1, ff.pipe, ff.w)
      BY <1>1, <1>2, <1>7, <2>1 DEF fileclose
    <3>2. PICK s2 : s2 = IF ff.w THEN [s1 EXCEPT !.pipe[ff.pipe].writeopen = FALSE]
                         ELSE [s1 EXCEPT !.pipe[ff.pipe].readopen = FALSE]
      OBVIOUS
    <3>3. s2.file = s1.file /\ s2.fs = s1.fs /\ DOMAIN s2 = DOMAIN s1
      BY <1>4, <3>2
    <3>4. fileclose(st, f) = s2 \/ fileclose(st, f) = [s2 EXCEPT !.pipe[ff.pipe] = NoPipe, !.free = @ + 1]
      BY <3>1, <3>2 DEF pipeclose
    <3>5. fileclose(st, f).file = s1.file /\ fileclose(st, f).fs = s1.fs
      BY <1>4, <3>3, <3>4
    <3> QED BY <1>1, <1>4, <1>5, <3>5
  <2>2. CASE ff.type \in {"inode", "device"}
    <3>1. fileclose(st, f) = [s1 EXCEPT !.fs = iput(@, ff.ip)]
      BY <1>1, <1>2, <1>7, <2>2 DEF fileclose
    <3>2. fileclose(st, f) = [s1 EXCEPT !.fs = iput(st.fs, ff.ip)]
      BY <1>4, <3>1
    <3>3. fileclose(st, f).file = s1.file /\ fileclose(st, f).fs = iput(st.fs, ff.ip)
      BY <1>4, <3>2
    <3>4. ff.ip \in Inum
      BY <1>3, <2>2, IsInode DEF IsOpen
    <3> QED BY <1>1, <1>4, <1>5, <3>3, <3>4
  <2>3. CASE ff.type \notin {"inode", "device", "pipe"}
    <3>1. fileclose(st, f) = s1
      BY <1>1, <1>2, <1>7, <2>3 DEF fileclose
    <3> QED BY <1>1, <1>4, <1>5, <3>1
  <2> QED BY <2>1, <2>2, <2>3
<1> QED BY <1>6, <1>7

\* A descriptor is closed.
LEMMA FilecloseStocked ==
    ASSUME NEW st, NEW D, NEW C, NEW V, NEW B, NEW x \in Proc \X Fd, Ready(st, D, C, V), D[x] \in File, Stocked(st, B)
    PROVE  Stocked(fileclose(st, D[x]), B) /\ FewerOpen(st.file, fileclose(st, D[x]).file)
<1>1. PICK f \in File : f = D[x]
  OBVIOUS
<1>2. PICK t : t = fileclose(st, f)
  OBVIOUS
<1>3. DOMAIN st = {"file", "pipe", "fs", "free"} /\ FilesOk(st.file) /\ OpensOk(st.file) /\ Sound(st.fs) /\ IsFs(st.fs)
  BY DEF Ready, Stocked
<1>4. PICK r : /\ t.file = With(st.file, f, r) /\ NoWider(st.file[f], r)
               /\ t.fs = st.fs \/ (st.file[f].ip \in Inum /\ t.fs = iput(st.fs, st.file[f].ip))
  <2>1. \E r : /\ fileclose(st, f).file = With(st.file, f, r) /\ NoWider(st.file[f], r)
               /\ \/ fileclose(st, f).fs = st.fs
                  \/ st.file[f].ip \in Inum /\ fileclose(st, f).fs = iput(st.fs, st.file[f].ip)
    BY <1>3, FilecloseDoes, ZenonT(40)
  <2> QED BY <1>2, <2>1, Zenon
<1>5. FewerOpen(st.file, t.file)
  BY <1>3, <1>4, EntryFewer
<1>6. PICK E : E = [D EXCEPT ![x] = None]
  OBVIOUS
<1>7. Ready(t, E, C, V)
  BY <1>1, <1>2, <1>6, FilecloseReady
<1>8. Calm(st.fs, t.fs)
  BY <1>3, <1>4, CalmSelf, IputCalm
<1>9. t.fs.panic = "" => st.fs.panic = "" /\ Retypes(st.fs, t.fs)
  <2>1. CASE t.fs = st.fs
    BY <2>1 DEF Retypes
  <2>2. CASE t.fs = iput(st.fs, st.file[f].ip)
    <3>1. Moves(st.fs, t.fs, None, st.file[f].ip, None)
      BY <1>3, <2>2, IputMoves
    <3> QED BY <3>1, RetypesOf
  <2> QED BY <1>4, <2>1, <2>2
<1>10. Writable(t.fs, t.file)
  <2>1. InosExact(st.fs, Ips(st.file), C) /\ InosExact(t.fs, Ips(t.file), C)
    BY <1>7 DEF Ready
  <2>2. Writable(st.fs, st.file)
    BY DEF Stocked
  <2> QED BY <1>5, <1>9, <2>1, <2>2, WritableKept
<1>11. Sound(t.fs) /\ Stock(t.fs) = B
  BY <1>8 DEF Calm, Steady, Stocked
<1>12. OpensOk(t.file)
  BY <1>5 DEF FewerOpen, NoWider, OpensOk
<1>13. Stocked(t, B)
  BY <1>10, <1>11, <1>12 DEF Stocked
<1> QED BY <1>1, <1>2, <1>5, <1>13

\* The tables as a step finds them.
LEMMA HereStocked ==
    ASSUME BlockInv
    PROVE  Stocked(Here, total.blocks)
<1>1. Here.file = file /\ Here.fs = fs
  BY DEF Here
<1> QED BY <1>1 DEF BlockInv, Stocked

\* close().
LEMMA CloseBlocks ==
    ASSUME RefInv, PipeInv, BlockInv, NEW p \in Proc, SysClose(p), total' = total
    PROVE  BlockInv'
<1>1. PICK f : f = argfd(p, I(p).fd)
  OBVIOUS
<1>2. PICK fd : fd = us[p].reg[I(p).fd]
  OBVIOUS
<1>3. ProcsOk(pr) /\ OpensOk(file) /\ Rooted(pr)
  BY DEF RefInv, BlockInv
<1>4. CASE f = None
  <2>1. fs' = fs /\ file' = file /\ pr' = pr
    BY <1>1, <1>4 DEF SysClose
  <2> QED BY <1>3, <2>1, StaysSelf, IdleBlocks
<1>5. CASE f # None
  <2>1. pr' = WithFd(pr, p, fd, None) /\ Becomes(fileclose(Here, f))
    BY <1>1, <1>2, <1>5 DEF SysClose, WithFd
  <2>2. f \in File /\ fd \in Fd /\ pr[p].ofile[fd] = f
    BY <1>1, <1>2, <1>5, ArgfdIs
  <2>3. PICK x \in Proc \X Fd : x = <<p, fd>>
    BY <2>2
  <2>4. Table(pr)[x] = f
    BY <1>3, <2>2, <2>3, TableOk
  <2>5. Stocked(fileclose(Here, Table(pr)[x]), total.blocks)
    BY <2>2, <2>4, HereReady, HereStocked, FilecloseStocked, Zenon
  <2>6. PICK s : s = fileclose(Here, f)
    OBVIOUS
  <2>7. Stocked(s, total.blocks)
    BY <2>4, <2>5, <2>6
  <2>8. file' = s.file /\ fs' = s.fs
    BY <2>1, <2>6 DEF Becomes
  <2>9. Rooted(pr')
    BY <1>3, <2>1, WithFdStays, RootedStays
  <2> QED BY <2>7, <2>8, <2>9 DEF Stocked, BlockInv
<1> QED BY <1>4, <1>5

\* One turn of the loop of exit().
LEMMA CloseOneStocked ==
    ASSUME NEW st, NEW D, NEW C, NEW V, NEW B, NEW p \in Proc, NEW k \in Fd, D \in [Proc \X Fd -> 0..NFILE],
           Ready(st, Left(D, p, k), C, V), Stocked(st, B)
    PROVE  Stocked(CloseOne(st, D[<<p, k>>]), B)
<1>1. PICK f : f = D[<<p, k>>]
  OBVIOUS
<1>2. CASE f = None
  BY <1>1, <1>2 DEF CloseOne
<1>3. CASE f # None
  <2>1. f \in File /\ <<p, k>> \in Proc \X Fd
    BY <1>1, <1>3, KernelAssumption DEF File, None
  <2>2. Left(D, p, k)[<<p, k>>] = f
    <3>1. ~(k < k)
      BY KernelAssumption DEF Fd
    <3> QED BY <1>1, <2>1, <3>1 DEF Left
  <2>3. PICK x \in Proc \X Fd : x = <<p, k>>
    BY <2>1
  <2>4. PICK E : E = Left(D, p, k)
    OBVIOUS
  <2>5. E[x] = f /\ Ready(st, E, C, V)
    BY <2>2, <2>3, <2>4
  <2>6. Stocked(fileclose(st, E[x]), B)
    BY <2>1, <2>5, FilecloseStocked
  <2> QED BY <1>1, <1>3, <2>5, <2>6 DEF CloseOne
<1> QED BY <1>2, <1>3

\* The loop of exit() over the descriptors.
LEMMA CloseAllStocked ==
    ASSUME NEW st, NEW D, NEW C, NEW V, NEW B, NEW p \in Proc, NEW o, Ready(st, D, C, V), Stocked(st, B),
           \A fd \in Fd : D[<<p, fd>>] = o[fd]
    PROVE  Stocked(closeAll(st, o), B)
<1>0. D \in [Proc \X Fd -> 0..NFILE] /\ NOFILE \in Nat
  BY KernelAssumption DEF Ready
<1>1. PICK g : /\ g[0] = st
               /\ \A k \in Nat : k < NOFILE => g[k + 1] = CloseOne(g[k], o[k])
               /\ closeAll(st, o) = g[NOFILE]
  BY CloseAllTurns
<1> DEFINE S == {k \in Nat : k <= NOFILE => Ready(g[k], Left(D, p, k), C, V) /\ Stocked(g[k], B)}
<1>2. 0 \in S
  <2>1. \A x \in Proc \X Fd : x[2] \in Nat /\ ~(x[2] < 0)
    BY KernelAssumption DEF Fd
  <2>2. Left(D, p, 0) = D
    BY <1>0, <2>1 DEF Left
  <2> QED BY <1>1, <2>2
<1>3. ASSUME NEW k \in S PROVE k + 1 \in S
  <2> SUFFICES ASSUME k + 1 <= NOFILE
               PROVE  Ready(g[k + 1], Left(D, p, k + 1), C, V) /\ Stocked(g[k + 1], B)
    OBVIOUS
  <2>1. k \in Nat /\ k < NOFILE /\ k \in Fd /\ Ready(g[k], Left(D, p, k), C, V) /\ Stocked(g[k], B)
    BY <1>0 DEF Fd
  <2>2. g[k + 1] = CloseOne(g[k], D[<<p, k>>])
    BY <1>1, <2>1
  <2>3. Ready(CloseOne(g[k], D[<<p, k>>]), Left(D, p, k + 1), C, V)
    BY <1>0, <2>1, CloseOneReady, Zenon
  <2>4. Stocked(CloseOne(g[k], D[<<p, k>>]), B)
    BY <1>0, <2>1, CloseOneStocked, Zenon
  <2> QED BY <2>2, <2>3, <2>4
<1>4. S = Nat
  <2>1. S \in SUBSET Nat
    OBVIOUS
  <2> HIDE DEF S
  <2> QED BY <1>2, <1>3, <2>1, AllNumbers, Zenon
<1> QED BY <1>0, <1>1, <1>4

\* exit(): the directory goes with the descriptors.
LEMMA ExitBlocks ==
    ASSUME RefInv, PipeInv, BlockInv, NEW p \in Proc, NEW status, exit(p, status), pr[p].st = "live", total' = total
    PROVE  BlockInv'
<1>1. PICK s : s = closeAll(Here, pr[p].ofile)
  OBVIOUS
<1>2. ProcsOk(pr) /\ DOMAIN pr = Proc /\ Rooted(pr) /\ pr[p].cwd \in Inum
  BY DEF RefInv, ProcsOk, BlockInv, Rooted
<1>3. \A fd \in Fd : Table(pr)[<<p, fd>>] = pr[p].ofile[fd]
  BY <1>2, TableOk
<1>4. Ready(s, Left(Table(pr), p, NOFILE), Cwds(pr), Pool(free, pipe))
  BY <1>1, <1>3, HereReady, CloseAllReady
<1>5. Stocked(s, total.blocks)
  BY <1>1, <1>3, HereReady, HereStocked, CloseAllStocked
<1>6. file' = s.file /\ fs' = iput(s.fs, pr[p].cwd)
  <2>1. Becomes([s EXCEPT !.fs = iput(@, pr[p].cwd)])
    BY <1>1 DEF exit
  <2>2. DOMAIN s = {"file", "pipe", "fs", "free"}
    BY <1>4 DEF Ready
  <2> QED BY <2>1, <2>2 DEF Becomes
<1>7. Sound(s.fs) /\ IsFs(s.fs) /\ Stock(s.fs) = total.blocks /\ OpensOk(s.file) /\ Writable(s.fs, s.file)
  BY <1>5 DEF Stocked, Sound
<1>8. Calm(s.fs, fs')
  BY <1>2, <1>6, <1>7, IputCalm
<1>9. fs'.panic = "" => s.fs.panic = "" /\ Retypes(s.fs, fs')
  <2>1. Moves(s.fs, fs', None, pr[p].cwd, None)
    BY <1>6, <1>7, IputMoves
  <2> QED BY <2>1, RetypesOf
<1>10. Writable(fs', file')
  <2>1. InosExact(s.fs, Ips(s.file), Cwds(pr))
    BY <1>4 DEF Ready
  <2>2. InosExact(fs', Ips(file'), Cwds(pr'))
    BY ExitKeeps DEF RefInv
  <2>3. FewerOpen(s.file, file')
    BY <1>6, <1>7, StaysSelf
  <2> QED BY <1>7, <1>9, <2>1, <2>2, <2>3, WritableKept
<1>11. Rooted(pr')
  <2>1. PICK tab : tab = reparent(pr, p)
    OBVIOUS
  <2>2. PICK r : r = [tab[p] EXCEPT !.st = "zombie", !.xst = status, !.cwd = None, !.ofile = [fd \in Fd |-> None]]
    OBVIOUS
  <2>3. pr' = [tab EXCEPT ![p] = r]
    <3>1. pr' = [reparent(pr, p) EXCEPT ![p] = [@ EXCEPT !.st = "zombie", !.xst = status, !.cwd = None,
                                                        !.ofile = [fd \in Fd |-> None]]]
      BY DEF exit
    <3> QED BY <2>1, <2>2, <3>1
  <2>4. ProcsOk(tab) /\ \A q \in Proc : tab[q].cwd = pr[q].cwd /\ tab[q].st = pr[q].st
    BY <1>2, <2>1, ReparentOk
  <2>5. r.st = "zombie"
    BY <2>2, <2>4 DEF ProcsOk, IsProc, ProcFields
  <2>6. \A q \in Proc : pr'[q] = IF q = p THEN r ELSE tab[q]
    BY <2>3, <2>4 DEF ProcsOk
  <2> QED BY <1>2, <2>4, <2>5, <2>6 DEF Rooted
<1>12. Sound(fs') /\ Stock(fs') = total'.blocks
  BY <1>7, <1>8 DEF Calm, Steady
<1>13. OpensOk(file')
  BY <1>6, <1>7
<1> QED BY <1>10, <1>11, <1>12, <1>13 DEF BlockInv

\* The ways to exit().
LEMMA EndsBlocks ==
    ASSUME RefInv, PipeInv, BlockInv, NEW p \in Proc, total' = total,
           \/ SysExit(p)
           \/ SysExitReg(p)
           \/ Die(p)
           \/ UserTouch(p)
    PROVE  BlockInv'
<1>1. pr[p].st = "live" /\ ((\E status : exit(p, status)) \/ UNCHANGED <<file, pr, fs>>)
  BY DEF SysExit, SysExitReg, Die, UserTouch, Alive, At
<1> QED BY <1>1, ExitBlocks, OthersBlocks

\* An inode of mkfs, with as many blocks as its contents need.
LEMMA InodeIs ==
    ASSUME NEW type, NEW n, NEW data, Len(data) \in Nat
    PROVE  /\ Inode(type, n, data).type = type /\ Inode(type, n, data).data = data
           /\ Inode(type, n, data).ind = 0 /\ Inode(type, n, data).nb \in Int
<1>1. PICK a : a = Len(data) + BSIZE - 1
  OBVIOUS
<1>2. a \in Int /\ BSIZE \in Nat \ {0}
  BY <1>1, FsAssumption
<1>3. a \div BSIZE \in Int
  BY <1>2, DivMod
<1> QED BY <1>1, <1>3 DEF Inode, CeilDiv

\* The root directory of mkfs.
LEMMA RootListing ==
    ASSUME NEW S, NEW names \in Seq(S), Len(names) + 2 <= NINODES, NEW c \in {<<>>, <<Entry("console", 2)>>}
    PROVE  LET d == <<Entry(".", 1), Entry("..", 1)>> \o c \o [k \in DOMAIN names |-> Entry(names[k], k + 2)]
           IN  IsListing(d) /\ Len(d) \in Nat
<1>1. PICK E : E = {e \in {Entry(".", 1), Entry("..", 1), Entry("console", 2)}
                          \cup {Entry(names[k], k + 2) : k \in DOMAIN names} : e.inum \in 0..NINODES}
  OBVIOUS
<1>2. PICK n \in Nat : n = Len(names)
  OBVIOUS
<1>3. DOMAIN names = 1..n /\ NINODES \in Nat /\ 2 <= NINODES /\ n + 2 <= NINODES
  BY <1>2, FsAssumption
<1>4. \A a, i : Entry(a, i).inum = i
  BY DEF Entry
<1>5. Entry(".", 1) \in E /\ Entry("..", 1) \in E /\ Entry("console", 2) \in E
  BY <1>1, <1>3, <1>4
<1>6. ASSUME NEW k \in 1..n PROVE Entry(names[k], k + 2) \in E
  <2>1. k + 2 \in 0..NINODES
    BY <1>3
  <2> QED BY <1>1, <1>3, <1>4, <2>1
<1>7. PICK h : h = [k \in 1..n |-> Entry(names[k], k + 2)]
  OBVIOUS
<1>8. h \in Seq(E)
  BY <1>6, <1>7
<1>9. <<Entry(".", 1), Entry("..", 1)>> \in Seq(E) /\ c \in Seq(E)
  <2>1. PICK a, b, e : a = Entry(".", 1) /\ b = Entry("..", 1) /\ e = Entry("console", 2)
    OBVIOUS
  <2>2. a \in E /\ b \in E /\ e \in E /\ c \in {<<>>, <<e>>}
    BY <1>5, <2>1
  <2>3. <<a, b>> \in Seq(E)
    BY <2>2
  <2>4. c \in Seq(E)
    <3>1. <<>> \in Seq(E) /\ <<e>> \in Seq(E)
      BY <2>2
    <3> QED BY <2>2, <3>1
  <2> QED BY <2>1, <2>3, <2>4
<1>10. PICK d : d = <<Entry(".", 1), Entry("..", 1)>> \o c \o h
  OBVIOUS
<1>11. d \in Seq(E)
  BY <1>8, <1>9, <1>10
<1>12. IsListing(d) /\ Len(d) \in Nat
  BY <1>1, <1>11 DEF IsListing
<1> QED BY <1>3, <1>7, <1>10, <1>12

\* The disk that mkfs makes.
LEMMA DiskIs ==
    ASSUME NEW machine, IsMachine(machine)
    PROVE  /\ \A j \in Inum : IsNode(Disk(machine)[j]) /\ Disk(machine)[j].ind = 0
           /\ 2 \in Inum /\ (~machine.fresh => Disk(machine)[2].type = "dev")
<1>1. PICK names : names = machine.names
  OBVIOUS
<1>2. PICK c : c = IF machine.fresh THEN <<>> ELSE <<Entry("console", 2)>>
  OBVIOUS
<1>3. PICK d : d = <<Entry(".", 1), Entry("..", 1)>> \o c \o [k \in DOMAIN names |-> Entry(names[k], k + 2)]
  OBVIOUS
<1>4. PICK x : x = Disk(machine)
  OBVIOUS
<1>5. x = [i \in Inum |->
             IF i = ROOTINO THEN Inode("dir", 1, d)
             ELSE IF i = 2 THEN IF machine.fresh THEN NoInode ELSE Inode("dev", 1, <<>>)
             ELSE IF i - 2 \in DOMAIN names THEN Inode("file", 1, machine.files[i - 2])
             ELSE NoInode]
  BY <1>1, <1>2, <1>3, <1>4 DEF Disk
<1>6. names \in Seq(ToSet(names)) /\ Len(names) + 2 <= NINODES
  BY <1>1 DEF IsMachine
<1>7. IsListing(d) /\ Len(d) \in Nat
  <2>1. c \in {<<>>, <<Entry("console", 2)>>}
    BY <1>2
  <2> QED BY <1>3, <1>6, <2>1, RootListing
<1>8. 2 \in Inum /\ ROOTINO = 1
  <2>1. Len(names) \in Nat /\ NINODES \in Nat
    BY <1>6, FsAssumption
  <2> QED BY <1>6, <2>1 DEF Inum, ROOTINO
<1>9. IsNode(Inode("dir", 1, d)) /\ Inode("dir", 1, d).ind = 0
  BY <1>7, InodeIs DEF IsNode
<1>10. IsNode(NoInode) /\ NoInode.ind = 0
  BY ListingEmpty DEF NoInode, IsNode
<1>11. IsNode(Inode("dev", 1, <<>>)) /\ Inode("dev", 1, <<>>).ind = 0 /\ Inode("dev", 1, <<>>).type = "dev"
  <2>1. Len(<<>>) \in Nat
    OBVIOUS
  <2> QED BY <2>1, InodeIs DEF IsNode
<1>12. ASSUME NEW k \in DOMAIN names
       PROVE  IsNode(Inode("file", 1, machine.files[k])) /\ Inode("file", 1, machine.files[k]).ind = 0
  <2>1. Len(machine.files[k]) \in Nat
    BY <1>1 DEF IsMachine
  <2> QED BY <2>1, InodeIs DEF IsNode
<1>13. ASSUME NEW j \in Inum PROVE IsNode(x[j]) /\ x[j].ind = 0
  <2>1. CASE j = ROOTINO
    BY <1>5, <1>9, <2>1
  <2>2. CASE j # ROOTINO /\ j = 2
    BY <1>5, <1>10, <1>11, <2>2
  <2>3. CASE j # ROOTINO /\ j # 2 /\ j - 2 \in DOMAIN names
    BY <1>5, <1>12, <2>3
  <2>4. CASE j # ROOTINO /\ j # 2 /\ j - 2 \notin DOMAIN names
    BY <1>5, <1>10, <2>4
  <2> QED BY <2>1, <2>2, <2>3, <2>4
<1>14. ~machine.fresh => x[2].type = "dev"
  BY <1>5, <1>8, <1>11
<1> QED BY <1>4, <1>8, <1>13, <1>14

\* A machine boots with every block free or of an inode.
LEMMA BootBlocks ==
    ASSUME NEW machine, IsMachine(machine), Boot(machine)
    PROVE  BlockInv
<1> DEFINE n == IF machine.fresh THEN 1 ELSE 2
<1>1. PICK x : x = Disk(machine)
  OBVIOUS
<1>2. PICK c : c = [NoFile EXCEPT !.ref = 6, !.type = "device", !.r = TRUE, !.w = TRUE, !.ip = 2]
  OBVIOUS
<1>3. /\ fs.ino = x /\ fs.free = machine.blocks
      /\ file = [f \in File |-> IF f = 1 /\ n = 2 THEN c ELSE NoFile]
      /\ total.blocks = machine.blocks + Summed([i \in Inum |-> x[i].nb], NINODES)
  BY <1>1, <1>2 DEF Boot
<1>4. /\ \A j \in Inum : IsNode(x[j]) /\ x[j].ind = 0
      /\ 2 \in Inum /\ (~machine.fresh => x[2].type = "dev")
  BY <1>1, DiskIs
<1>5. n = 2 => ~machine.fresh
  OBVIOUS
<1> HIDE DEF n
<1>6. RefInv
  BY BootRefs
<1>7. Sound(fs)
  BY <1>3, <1>4, <1>6 DEF Sound, RefInv, IsMachine
<1>8. Stock(fs) = total.blocks
  <2>1. PICK g, h : g = [i \in Inum |-> x[i].nb] /\ h = Owned(x)
    OBVIOUS
  <2>2. \A k \in 1..NINODES : g[k] \in Int /\ h[k] = g[k]
    <3> SUFFICES ASSUME NEW k \in Inum PROVE g[k] \in Int /\ h[k] = g[k]
      BY DEF Inum
    <3>1. g[k] = x[k].nb /\ h[k] = x[k].nb + x[k].ind
      BY <2>1 DEF Owned
    <3>2. x[k].nb \in Int /\ x[k].ind = 0
      BY <1>4 DEF IsNode
    <3> QED BY <3>1, <3>2
  <2>3. Summed(h, NINODES) = Summed(g, NINODES)
    BY <2>2, FsAssumption, SummedSame
  <2> QED BY <1>3, <2>1, <2>3 DEF Stock
<1>9. c.ip = 2 /\ c.type = "device" /\ c.w
  BY <1>2 DEF NoFile
<1>10. NoFile.ip = None /\ ~NoFile.w /\ NoFile.type = "none" /\ None \in 0..NINODES /\ 2 \in 0..NINODES /\ 2 # None
  <2>1. NoFile.ip = None /\ ~NoFile.w /\ NoFile.type = "none"
    BY DEF NoFile
  <2>2. 2 \in 0..NINODES /\ None \in 0..NINODES
    BY <1>4, IsInode
  <2>3. 2 # None
    BY DEF None
  <2> QED BY <2>1, <2>2, <2>3
<1>11. IsOpen(c) /\ IsOpen(NoFile)
  BY <1>9, <1>10 DEF IsOpen
<1>12. OpensOk(file)
  BY <1>3, <1>11 DEF OpensOk
<1>13. Writable(fs, file)
  <2> SUFFICES ASSUME NEW f \in File, file[f].w, file[f].ip # None PROVE fs.ino[file[f].ip].type \notin {"dir", "free"}
    BY DEF Writable
  <2>1. n = 2 /\ file[f] = c
    BY <1>3, <1>10
  <2> QED BY <1>3, <1>4, <1>5, <1>9, <2>1
<1>14. Rooted(pr)
  <2>1. \A p \in Proc : pr[p].cwd \in {ROOTINO, None} /\ (pr[p].st = "live" => pr[p].cwd = ROOTINO)
    <3>1. PICK O : O = [fd \in Fd |-> IF fd <= 2 /\ n = 2 THEN 1 ELSE None]
      OBVIOUS
    <3>2. PICK p0 : p0 = [NoProc EXCEPT !.st = "live", !.cwd = ROOTINO, !.sz = ImageSize, !.low = ImageTables, !.ofile = O]
      OBVIOUS
    <3>3. PICK p1 : p1 = [p0 EXCEPT !.parent = INIT]
      OBVIOUS
    <3>4. pr = [p \in Proc |-> CASE p = INIT -> p0 [] p = n /\ n # INIT -> p1 [] OTHER -> NoProc]
      BY <3>1, <3>2, <3>3 DEF Boot, n
    <3>5. p0.cwd = ROOTINO /\ p1.cwd = ROOTINO /\ NoProc.cwd = None /\ NoProc.st = "unused"
      BY <3>2, <3>3 DEF NoProc
    <3>6. \A p \in Proc : pr[p] \in {p0, p1, NoProc}
      BY <3>4
    <3> QED BY <3>5, <3>6
  <2> QED BY <2>1, IsInode DEF Rooted
<1> QED BY <1>7, <1>8, <1>12, <1>13, <1>14 DEF BlockInv

\* What the invariant says of the blocks.
LEMMA BlockInvKept ==
    ASSUME BlockInv
    PROVE  BlocksKept
<1>1. [i \in Inum |-> fs.ino[i].nb + fs.ino[i].ind] = Owned(fs.ino)
  BY DEF Owned
<1> QED BY <1>1 DEF BlockInv, Stock, BlocksKept

---------------------------------------------------------------------------
(* The whole kernel.                                                       *)

StepKinds(p) ==
    \/ SysDup(p) \/ SysClose(p) \/ SysRead(p) \/ SysPipe(p) \/ SysFork(p) \/ SysWait(p) \/ SysKill(p) \/ SysSbrk(p)

\* Every step of the kernel.
LEMMA StepKeeps ==
    ASSUME RefInv, PipeInv, ArgumentsTyped, NEW p \in Proc, Step(p)
    PROVE  RefInv'
<1>1. ASSUME NEW op, At(p, op) PROVE TypedCall(I(p)) /\ I(p).op = op
  BY <1>1 DEF At, I, ArgumentsTyped
<1>2. SysOpen(p) => IsPath(I(p).path)
  BY <1>1 DEF SysOpen, Alive, TypedCall, PathCalls
<1>3. SysLink(p) => IsPath(I(p).path) /\ IsPath(I(p).new)
  BY <1>1 DEF SysLink, Alive, TypedCall, PathCalls
<1>4. SysUnlink(p) \/ SysMkdir(p) \/ SysMknod(p) => IsPath(I(p).path)
  BY <1>1 DEF SysUnlink, SysMkdir, SysMknod, Alive, TypedCall, PathCalls
<1>5. SysChdir(p) \/ SysExec(p) => IsPath(I(p).path)
  BY <1>1 DEF SysChdir, SysExec, Alive, TypedCall, PathCalls
<1>6. SysWrite(p) => IsSource(I(p))
  BY <1>1 DEF SysWrite, TypedCall
<1>7. MAXWRITE \in Nat
  BY KernelAssumption
<1>8. CASE StepKinds(p)
  BY <1>8, DupKeeps, CloseKeeps, ReadKeeps, PipeKeeps, ForkKeeps, WaitKeeps, KillKeeps, SbrkKeeps DEF StepKinds
<1>9. CASE SysOpen(p)
  BY <1>2, <1>9, OpenKeeps
<1>10. CASE SysWrite(p)
  BY <1>6, <1>7, <1>10, WriteKeeps
<1>11. CASE SysLink(p) \/ SysUnlink(p) \/ SysMkdir(p) \/ SysMknod(p)
  BY <1>3, <1>4, <1>11, NamesKeep
<1>12. CASE SysChdir(p) \/ SysExec(p)
  BY <1>5, <1>12, ChdirKeeps, ExecKeeps
<1>13. CASE SysFstat(p) \/ SysSleep(p) \/ SysGetpid(p) \/ UserChoose(p)
  BY <1>13, OthersKeep
<1>14. CASE SysExit(p) \/ SysExitReg(p) \/ Die(p) \/ UserTouch(p)
  BY <1>14, EndsKeep
<1> QED BY <1>8, <1>9, <1>10, <1>11, <1>12, <1>13, <1>14 DEF Step, StepKinds

\* Every step of the kernel.
LEMMA StepBlocks ==
    ASSUME RefInv, PipeInv, BlockInv, ArgumentsTyped, NEW p \in Proc, Step(p), total' = total
    PROVE  BlockInv'
<1>0. RefInv'
  BY StepKeeps
<1>1. ASSUME NEW op, At(p, op) PROVE TypedCall(I(p)) /\ I(p).op = op
  BY <1>1 DEF At, I, ArgumentsTyped
<1>2. SysOpen(p) => IsPath(I(p).path)
  BY <1>1 DEF SysOpen, Alive, TypedCall, PathCalls
<1>3. SysLink(p) => IsPath(I(p).path) /\ IsPath(I(p).new)
  BY <1>1 DEF SysLink, Alive, TypedCall, PathCalls
<1>4. SysUnlink(p) \/ SysMkdir(p) \/ SysMknod(p) => IsPath(I(p).path)
  BY <1>1 DEF SysUnlink, SysMkdir, SysMknod, Alive, TypedCall, PathCalls
<1>5. SysChdir(p) \/ SysExec(p) => IsPath(I(p).path)
  BY <1>1 DEF SysChdir, SysExec, Alive, TypedCall, PathCalls
<1>6. SysWrite(p) => IsSource(I(p))
  BY <1>1 DEF SysWrite, TypedCall
<1>7. CASE SysDup(p) \/ SysClose(p) \/ SysRead(p) \/ SysPipe(p)
  BY <1>7, DupBlocks, CloseBlocks, ReadBlocks, PipeBlocks
<1>8. CASE SysFork(p) \/ SysWait(p) \/ SysKill(p) \/ SysSbrk(p)
  BY <1>0, <1>8, ForkBlocks, ProcBlocks
<1>9. CASE SysOpen(p)
  BY <1>0, <1>2, <1>9, OpenBlocks
<1>10. CASE SysWrite(p)
  BY <1>6, <1>10, WriteBlocks
<1>11. CASE SysLink(p) \/ SysUnlink(p) \/ SysMkdir(p) \/ SysMknod(p)
  BY <1>0, <1>3, <1>4, <1>11, NamesBlocks
<1>12. CASE SysChdir(p) \/ SysExec(p)
  BY <1>0, <1>5, <1>12, ChdirBlocks, ExecBlocks
<1>13. CASE SysFstat(p) \/ SysSleep(p) \/ SysGetpid(p) \/ UserChoose(p)
  <2>1. UNCHANGED <<file, pr, fs>>
    BY <1>13 DEF SysFstat, SysSleep, SysGetpid, UserChoose
  <2> QED BY <2>1, OthersBlocks
<1>14. CASE SysExit(p) \/ SysExitReg(p) \/ Die(p) \/ UserTouch(p)
  BY <1>14, EndsBlocks
<1> QED BY <1>7, <1>8, <1>9, <1>10, <1>11, <1>12, <1>13, <1>14 DEF Step

\* A step of the kernel keeps its invariant.
LEMMA NextKeeps ==
    ASSUME KernelInv, ArgumentsTyped, [Next]_vars
    PROVE  KernelInv'
<1>1. RefInv /\ PipeInv /\ PageInv
  BY DEF KernelInv
<1>2. CASE \E p \in Proc : Step(p) /\ UNCHANGED total
  <2>1. PICK p \in Proc : Step(p) /\ UNCHANGED total
    BY <1>2
  <2>2. RefInv'
    BY <1>1, <2>1, StepKeeps
  <2>3. PipeInv' /\ PageInv'
    BY <1>1, <2>1, StepPages
  <2> QED BY <2>2, <2>3 DEF KernelInv
<1>3. CASE UNCHANGED vars
  <2>1. UNCHANGED <<file, pipe, free, pr, fs, total>>
    BY <1>3 DEF vars
  <2>2. RefInv'
    BY <1>1, <2>1, Unmoved
  <2>3. PipeInv' /\ PageInv'
    BY <1>1, <2>1, NamesPages
  <2> QED BY <2>2, <2>3 DEF KernelInv
<1> QED BY <1>2, <1>3 DEF Next, Halted

\* What the kernel starts in.
LEMMA BootKeeps ==
    ASSUME NEW machine, machine.pages \in Nat, Boot(machine)
    PROVE  KernelInv
BY BootRefs, BootPages DEF KernelInv

\* What the invariant says of the pages and of the pipes.
LEMMA KernelInvPages ==
    ASSUME KernelInv
    PROVE  PagesKept /\ PipesHeld
<1>1. PipeInv /\ PageInv
  BY DEF KernelInv
<1>2. [p \in Proc |-> PagesOf(p)] = Kept(pr)
  BY DEF PagesOf, Kept, Keeps
<1>3. PagesKept
  BY <1>1, <1>2 DEF PagesKept, PageInv, Pool, OpenPipes
<1>4. ASSUME NEW q \in Pipe, pipe[q].open PROVE \E f \in File : file[f].pipe = q
  <2>1. q # None
    BY KernelAssumption DEF Pipe, None
  <2>2. PICK f \in File : Readers(file)[f] = q \/ Writers(file)[f] = q
    BY <1>1, <1>4 DEF PipeInv, PipesOk
  <2>3. file[f].pipe = q
    BY <2>1, <2>2 DEF Readers, Writers
  <2> QED BY <2>3
<1> QED BY <1>3, <1>4 DEF PipesHeld

(* The reference counts are exact in every state of every run: the count of an entry of the file
   table is the number of descriptors that dup(), open(), pipe() and fork() have made of it and close()
   and exit() have not taken back, and the count of an inode the number of open files and of current
   directories that hold it, whatever calls the user programs make, in any order, and on whichever path
   a call of kernel/sysfile.c fails.  The hypotheses are about the machine and the programs, not the
   kernel: the machine has a number of pages, and the paths, the buffers and the sizes of the calls are
   of the types that the calls read. *)
THEOREM RefsExactHolds ==
    ASSUME NEW machine, machine.pages \in Nat
    PROVE  KernelSpec(machine) /\ []ArgumentsTyped => []RefsExact
<1>1. Boot(machine) => KernelInv
  BY BootKeeps
<1>2. KernelInv /\ ArgumentsTyped /\ [Next]_vars => KernelInv'
  BY NextKeeps
<1>3. KernelInv => RefsExact
  BY RefInvExact DEF KernelInv
<1> QED BY <1>1, <1>2, <1>3, PTL DEF KernelSpec

\* A step of the kernel keeps its blocks.
LEMMA NextBlocks ==
    ASSUME KernelInv, BlockInv, ArgumentsTyped, [Next]_vars
    PROVE  BlockInv'
<1>1. RefInv /\ PipeInv
  BY DEF KernelInv
<1>2. CASE \E p \in Proc : Step(p) /\ UNCHANGED total
  BY <1>1, <1>2, StepBlocks
<1>3. CASE UNCHANGED vars
  <2>1. UNCHANGED <<file, pr, fs>> /\ total' = total
    BY <1>3 DEF vars
  <2> QED BY <2>1, OthersBlocks
<1> QED BY <1>2, <1>3 DEF Next, Halted

(* Nothing leaks: in every state of every run each page of the machine is on the free list of kalloc(),
   in the page table or the frame of one process, or the buffer of one open pipe; a pipe that is open
   has an end in the file table; and, in a kernel that has not panicked, each block of the disk is
   clear in the bitmap or one of one inode.  fork(), exec() and sbrk() give back what they have taken
   when the memory ends half way, exit() and wait() what the process had, sys_pipe() both ends when
   there is no descriptor or no memory for them, and bmap(), create(), unlink() and the last close()
   of an unlinked file every block, in whatever order the programs make their calls and on whichever
   path a call fails.  The machine is one that mkfs makes, IsMachine; TLC checks it of those it runs. *)
THEOREM NothingLeaksHolds ==
    ASSUME NEW machine, IsMachine(machine)
    PROVE  KernelSpec(machine) /\ []ArgumentsTyped => []NothingLeaks
<1>1. Boot(machine) => KernelInv /\ BlockInv
  BY BootKeeps, BootBlocks DEF IsMachine
<1>2. KernelInv /\ BlockInv /\ ArgumentsTyped /\ [Next]_vars => KernelInv' /\ BlockInv'
  BY NextKeeps, NextBlocks
<1>3. KernelInv /\ BlockInv => NothingLeaks
  BY KernelInvPages, BlockInvKept DEF NothingLeaks
<1> QED BY <1>1, <1>2, <1>3, PTL DEF KernelSpec
=============================================================================
