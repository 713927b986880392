------------------------------ MODULE Umalloc ------------------------------
(***************************************************************************)
(* malloc() and free() of the user programs (user/umalloc.c): a ring of    *)
(* free blocks in the order of their addresses, with base, an empty block  *)
(* below the heap, in it for good.  Memory is counted in units, the size   *)
(* of a Header; a block of n units is its header and n - 1 units for the   *)
(* program.  The heap is what sbrk() has given the program; the program    *)
(* may call sbrk() itself, so the heap of malloc() has gaps.               *)
(***************************************************************************)
EXTENDS Naturals

CONSTANTS NALLOC,       \* units that morecore() asks for at least (4096)
          LIMIT,        \* sbrk() fails when the heap would pass this address
          Sizes,        \* units that the program asks for
          Gaps          \* units that the program takes with sbrk() itself

NULL == 0
base == 1
HEAP == 3               \* the heap begins here, not next to base
Addr == base..LIMIT

VARIABLES heap,         \* ptr and size of the headers, freep, brk
          mine,         \* the blocks the program has: address and units asked for
          gaps          \* units of the heap that are not malloc()'s

mvars == <<heap, mine, gaps>>

MallocInit ==
    /\ heap = [ptr |-> [a \in Addr |-> NULL], size |-> [a \in Addr |-> 0], freep |-> NULL, brk |-> HEAP]
    /\ mine = {} /\ gaps = {}

---------------------------------------------------------------------------
\* free(): the first p from freep on such that bp lies between p and the next
\* block, or beyond the end of the ring.
Between(h, p, bp) ==
    LET next == h.ptr[p] IN \/ bp > p /\ bp < next
                            \/ p >= next /\ (bp > p \/ bp < next)
RECURSIVE place(_, _, _)
place(h, p, bp) == IF Between(h, p, bp) THEN p ELSE place(h, h.ptr[p], bp)

\* bp joins the next block if it touches it, then the one before.
joinNext(h, p, bp) ==
    LET next == h.ptr[p] IN
    IF bp + h.size[bp] = next
    THEN [h EXCEPT !.size[bp] = @ + h.size[next], !.ptr[bp] = h.ptr[next]]
    ELSE [h EXCEPT !.ptr[bp] = next]
\* A bug: the block that grew still points to the one that joined bp.
joinPrevKeepsPtr(h, p, bp) ==
    IF p + h.size[p] = bp THEN [h EXCEPT !.size[p] = @ + h.size[bp]] ELSE [h EXCEPT !.ptr[p] = bp]
joinPrev(h, p, bp) ==
    IF p + h.size[p] = bp THEN [h EXCEPT !.size[p] = @ + h.size[bp], !.ptr[p] = h.ptr[bp]]
    ELSE [h EXCEPT !.ptr[p] = bp]
free(h, bp) ==
    LET p == place(h, h.freep, bp) IN [joinPrev(joinNext(h, p, bp), p, bp) EXCEPT !.freep = p]

\* morecore(): a new block at the end of the heap is freed; nothing when
\* sbrk() fails.
Core(nu) == IF nu < NALLOC THEN NALLOC ELSE nu
CanGrow(h, nu) == h.brk + Core(nu) <= LIMIT + 1
morecore(h, nu) == free([h EXCEPT !.size[h.brk] = Core(nu), !.brk = @ + Core(nu)], h.brk)

\* The search of malloc(), from the block after prevp to freep: the block
\* before the first that has enough units, or NULL.
RECURSIVE search(_, _, _)
search(h, prevp, nunits) ==
    LET p == h.ptr[prevp] IN
    IF h.size[p] >= nunits THEN prevp
    ELSE IF p = h.freep THEN NULL ELSE search(h, p, nunits)

\* The block gives its tail, or leaves the ring.
take(h, prevp, nunits) ==
    LET p == h.ptr[prevp]
        q == p + h.size[p] - nunits
    IN  IF h.size[p] = nunits
        THEN [h |-> [h EXCEPT !.ptr[prevp] = h.ptr[p], !.freep = prevp], ap |-> p]
        ELSE [h |-> [h EXCEPT !.size[p] = @ - nunits, !.size[q] = nunits, !.freep = prevp], ap |-> q]

\* What is left of a header that is no longer one is NULL and 0 here: the
\* code does not read it before it has written it.
RECURSIVE RingFrom(_, _)
RingFrom(h, p) == IF h.ptr[p] = base THEN {p} ELSE {p} \cup RingFrom(h, h.ptr[p])
FreeBlocks(h) == IF h.freep = NULL THEN {} ELSE RingFrom(h, base)
Tidy(h, blocks) ==
    LET ring == FreeBlocks(h)
        headers == ring \cup {b.a : b \in blocks}
    IN  [h EXCEPT !.ptr = [a \in Addr |-> IF a \in ring THEN h.ptr[a] ELSE NULL],
                  !.size = [a \in Addr |-> IF a \in headers THEN h.size[a] ELSE 0]]
Becomes(h, blocks) == heap' = Tidy(h, blocks) /\ mine' = blocks

WithBase(h) == IF h.freep # NULL THEN h
               ELSE [h EXCEPT !.ptr[base] = base, !.size[base] = 0, !.freep = base]

malloc(n) ==
    LET nunits == n + 1
        h == WithBase(heap)
        more == morecore(h, nunits)
        found == search(h, h.freep, nunits)
        got == IF found # NULL THEN take(h, found, nunits)
               ELSE take(more, search(more, more.freep, nunits), nunits)
    IN  /\ IF found = NULL /\ ~CanGrow(h, nunits) THEN Becomes(h, mine)
           ELSE Becomes(got.h, mine \cup {[a |-> got.ap, n |-> n]})
        /\ UNCHANGED gaps

Free(b) == b \in mine /\ Becomes(free(heap, b.a), mine \ {b}) /\ UNCHANGED gaps

\* sbrk() by the program.
Sbrk(n) ==
    /\ heap.brk + n <= LIMIT + 1
    /\ heap' = [heap EXCEPT !.brk = @ + n]
    /\ gaps' = gaps \cup (heap.brk..(heap.brk + n - 1))
    /\ UNCHANGED mine

MallocNext ==
    \/ \E n \in Sizes : malloc(n)
    \/ \E b \in mine : Free(b)
    \/ \E n \in Gaps : Sbrk(n)

MallocSpec == MallocInit /\ [][MallocNext]_mvars

---------------------------------------------------------------------------
Ring == FreeBlocks(heap)
Units(a) == a..(a + heap.size[a] - 1)
Blocks == (Ring \ {base}) \cup {b.a : b \in mine}

\* Every unit of the heap is in one free block, in one block of the program
\* or in a gap: no two blocks overlap and nothing is lost, after any sequence
\* of malloc(), free() and sbrk().  The blocks of the program have the units
\* it asked for.  The ring is in the order of the addresses, freep is in it,
\* and no two free blocks touch: free() has joined them.
HeapPartition ==
    /\ \A a, b \in Blocks : a # b => Units(a) \cap Units(b) = {}
    /\ UNION {Units(a) : a \in Blocks} = (HEAP..(heap.brk - 1)) \ gaps
    /\ \A b \in mine : b.a \notin Ring /\ heap.size[b.a] = b.n + 1
    /\ heap.freep \in Ring \cup {NULL}
    /\ \A a \in Ring : /\ heap.ptr[a] > a \/ heap.ptr[a] = base
                       /\ a # base => a + heap.size[a] \notin Ring
=============================================================================
