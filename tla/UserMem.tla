------------------------------ MODULE UserMem ------------------------------
(***************************************************************************)
(* User memory (kernel/vm.c), the page allocator (kernel/kalloc.c) and the *)
(* parts of proc.c and exec.c that build and free address spaces.          *)
(*                                                                         *)
(* A page is PGSIZE units long; the physical pages are interchangeable, so *)
(* the free list is its length.  An address space is the size of the user  *)
(* memory, sz units from address 0, and low, the page-table pages that     *)
(* walk() has allocated below it: one of the middle level, and a leaf for  *)
(* every PTES pages, kept until the whole table is freed.  On top come the *)
(* root and the two tables of the trampoline and the trapframe.            *)
(***************************************************************************)
EXTENDS Integers, Sequences

CONSTANTS PGSIZE,     \* units of a page
          PTES,       \* pages that a leaf of the page table maps
          IMAGE,      \* pages of the segments of a program: text, then data
          MAXARG      \* arguments of exec()

ASSUME MemAssumption == {PGSIZE, PTES, IMAGE, MAXARG} \subseteq Nat \ {0}

TRAPFRAMEPAGES == 1
TOPTABLES == 3
PGROUNDUP(n) == ((n + PGSIZE - 1) \div PGSIZE) * PGSIZE
Pages(sz) == PGROUNDUP(sz) \div PGSIZE

\* The pages that a process with this address space keeps from the allocator.
Footprint(sz, low) == TRAPFRAMEPAGES + TOPTABLES + low + Pages(sz)

\* freeproc(): the trapframe, and with proc_freepagetable() all the rest.
freeproc(free, sz, low) == free + Footprint(sz, low)

\* walk() with alloc: the tables needed to map a page of user memory.
tablesFor(page) == 2 + page \div PTES

\* mappages() of a page, after a kalloc() of its own, as in the loops of
\* uvmalloc() and uvmcopy(), which end when a page is missing (~m.ok); got
\* counts the pages mapped.
mapPage(m, page) ==
    LET short == IF tablesFor(page) > m.low THEN tablesFor(page) - m.low ELSE 0
    IN  IF ~m.ok THEN m
        ELSE IF m.free = 0 THEN [m EXCEPT !.ok = FALSE]
        ELSE IF m.free - 1 < short          \* kfree(mem) after the tables ran out
        THEN [m EXCEPT !.ok = FALSE, !.low = @ + m.free - 1, !.free = 1]
        ELSE [m EXCEPT !.free = @ - 1 - short, !.low = @ + short, !.got = @ + 1]

\* Pages from .. top - 1.
mapPages(free, low, from, top) ==
    LET map[k \in 0..(top - from)] ==
            IF k = 0 THEN [free |-> free, low |-> low, got |-> 0, ok |-> TRUE]
            ELSE mapPage(map[k - 1], from + k - 1)
    IN  map[top - from]

\* A bug: a failure in the middle keeps the pages it got.
uvmallocKeeps(free, low, oldsz, newsz) ==
    LET m == mapPages(free, low, Pages(oldsz), Pages(newsz))
    IN  [free |-> m.free, low |-> m.low, ok |-> m.ok, sz |-> IF m.ok THEN newsz ELSE oldsz]

\* uvmalloc(): all the pages up to newsz or, after giving back the ones it
\* got, none of them; the tables stay.
uvmalloc(free, low, oldsz, newsz) ==
    LET m == mapPages(free, low, Pages(oldsz), Pages(newsz))
    IN  IF newsz < oldsz THEN [free |-> free, low |-> low, ok |-> TRUE, sz |-> oldsz]
        ELSE IF m.ok THEN [free |-> m.free, low |-> m.low, ok |-> TRUE, sz |-> newsz]
        ELSE [free |-> m.free + m.got, low |-> m.low, ok |-> FALSE, sz |-> oldsz]

\* uvmdealloc(); a newsz below zero has wrapped around and is larger than oldsz.
uvmdealloc(free, low, oldsz, newsz) ==
    IF newsz < 0 \/ newsz >= oldsz
    THEN [free |-> free, low |-> low, ok |-> TRUE, sz |-> oldsz]
    ELSE [free |-> free + (Pages(oldsz) - Pages(newsz)), low |-> low, ok |-> TRUE, sz |-> newsz]

growproc(free, low, sz, n) ==
    IF n > 0 THEN uvmalloc(free, low, sz, sz + n)
    ELSE IF n < 0 THEN uvmdealloc(free, low, sz, sz + n)
    ELSE [free |-> free, low |-> low, ok |-> TRUE, sz |-> sz]

\* The memory part of fork(): trapframe and page table from allocproc(), then
\* uvmcopy(); when a page is missing freeproc() returns all of them.
forkMem(free, sz) ==
    LET base == TRAPFRAMEPAGES + TOPTABLES
        m == mapPages(free - base, 0, 0, Pages(sz))
    IN  IF free < base \/ ~m.ok THEN [free |-> free, low |-> 0, ok |-> FALSE]
        ELSE [free |-> m.free, low |-> m.low, ok |-> TRUE]

\* The memory part of sys_exec() and exec(): a page per argument, a new page
\* table, the segments of the program, guard and stack.  The stack holds argc
\* argument strings of one unit each and argc + 1 pointers (one unit in all);
\* a failure frees everything new, success everything old.
execMem(free, sz, low, args, argsOk) ==
    LET n == Len(args)
        avail == free - n - TOPTABLES
        m == mapPages(avail, 0, 0, IMAGE + 2)
        newsz == (IMAGE + 2) * PGSIZE
        fits == n < MAXARG /\ n + 1 <= PGSIZE
    IN  IF ~argsOk \/ avail < 0 \/ ~m.ok \/ ~fits
        THEN [free |-> free, low |-> low, sz |-> sz, ok |-> FALSE]
        ELSE [free |-> m.free + n + TOPTABLES + low + Pages(sz), low |-> m.low,
              sz |-> newsz, ok |-> TRUE]

\* walkaddr() of every page of n units from va: copyin(), copyout() and
\* copyinstr() fail when one of them is not mapped for the user.  The guard
\* page is the one below the stack of the program.
userPage(sz, page) == page >= 0 /\ page < Pages(sz) /\ page # IMAGE
userRange(sz, va, n) ==
    \A page \in (va \div PGSIZE)..((va + (IF n = 0 THEN 1 ELSE n) - 1) \div PGSIZE) : userPage(sz, page)

\* A load or a store of the program itself; the text, page 0, is read only.
userAccess(sz, va, store) == userRange(sz, va, 1) /\ (store => va \div PGSIZE # 0)
=============================================================================
