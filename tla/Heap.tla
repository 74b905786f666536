-------------------------------- MODULE Heap --------------------------------
(***************************************************************************)
(* The kernel heap: kernel/mm/heap.c.                                      *)
(*                                                                         *)
(* Small blocks are runs of units in arenas of ARENA_PAGES pages, large    *)
(* ones have pages of their own.  A canary follows every block.  Sizes are *)
(* constants so that small instances keep the proportions of the code,     *)
(* where a page has 4096 bytes, a unit 64, a canary 8, an arena 16 pages,  *)
(* and a small block takes at most half an arena.                          *)
(*                                                                         *)
(* heap_lock makes each call one step.  The page allocator is what         *)
(* PageOwnership says of it: it hands out any free run of pages, or none.  *)
(* Contents are left out but for the canaries that callers overwrote.      *)
(***************************************************************************)
EXTENDS Naturals, FiniteSets, KernelInternal

CONSTANTS PAGE, UNIT, CANARY, ARENA_PAGES, MIN_ALIGN,
          ARENAS, LARGE,        \* lengths of arenas[] and large[]
          PAGES,                \* page numbers of the machine's memory
          HeapRequests,         \* the pairs <<bytes, alignment>> asked for
          MAX_OVERRUNS          \* bound on the blocks that are overrun

HeapAssumption ==
    /\ {PAGE, UNIT, CANARY, ARENA_PAGES, MIN_ALIGN} \subseteq Nat \ {0}
    /\ ARENAS \in Nat /\ LARGE \in Nat /\ MAX_OVERRUNS \in Nat
    /\ PAGES \subseteq Nat \ {0}
    /\ HeapRequests \subseteq (Nat \ {0}) \X (Nat \ {0})

ARENA == ARENA_PAGES * PAGE
UNITS == ARENA \div UNIT

VARIABLES
    base,           \* base[i]: first page of arena i, 0 when it has none
    blocks,         \* blocks[i]: unit |-> [length, requested] in arena i
    occupied,       \* occupied[i]: the units of arena i marked in its used[]
    live,           \* live[i]: its number of blocks
    large,          \* large[i]: [base, pointer, requested, pages]
    free,           \* the pages the page allocator has
    smashed,        \* the pointers whose canary was overwritten
    live_bytes, committed_bytes

heapVars == <<base, blocks, occupied, live, large, free, smashed, live_bytes, committed_bytes>>

EMPTY == [base |-> 0, pointer |-> 0, requested |-> 0, pages |-> 0]
None == [u \in {} |-> 0]

HeapInit ==
    /\ base = [i \in 1..ARENAS |-> 0]
    /\ blocks = [i \in 1..ARENAS |-> None]
    /\ occupied = [i \in 1..ARENAS |-> {}]
    /\ live = [i \in 1..ARENAS |-> 0]
    /\ large = [i \in 1..LARGE |-> EMPTY]
    /\ free = PAGES
    /\ smashed = {}
    /\ live_bytes = 0 /\ committed_bytes = 0

Run(p, n) == p..(p + n - 1)

\* k_pmm_alloc_pages and k_pmm_free_pages.
Runs(n) == {p \in free : Run(p, n) \subseteq free}
-----------------------------------------------------------------------------
(***************************************************************************)
(* k_heap_alloc.                                                           *)
(***************************************************************************)
Alignment(a) == IF a < MIN_ALIGN THEN MIN_ALIGN ELSE a
IsSmall(bytes, a) == bytes + CANARY <= ARENA \div 2 /\ a <= PAGE

LargePages(bytes, a) == (bytes + a + CANARY - 1 + PAGE - 1) \div PAGE

\* The first free entry of large[] takes a run of pages.
AllocLarge(bytes, a) ==
    LET n == LargePages(bytes, a)
    IN  /\ ~IsSmall(bytes, a)
        /\ \E i \in 1..LARGE, p \in Runs(n) :
            /\ large[i].base = 0 /\ \A j \in 1..(i - 1) : large[j].base # 0
            /\ large' = [large EXCEPT ![i] = [base |-> p, pointer |-> ALIGN_UP(p * PAGE, a),
                                              requested |-> bytes, pages |-> n]]
            /\ free' = free \ Run(p, n)
            /\ live_bytes' = live_bytes + bytes
            /\ committed_bytes' = committed_bytes + n * PAGE
        /\ UNCHANGED <<base, blocks, occupied, live, smashed>>

Needed_NoCanary(bytes) == (bytes + UNIT - 1) \div UNIT

Needed(bytes) == (bytes + CANARY + UNIT - 1) \div UNIT

\* The units of arena i, based at page p, where n units fit, and the first
\* of them, which the scan of k_heap_alloc finds.
Room(i, p, n, a) ==
    {u \in 0..(UNITS - n) : /\ (p * PAGE + u * UNIT) % a = 0
                            /\ Run(u, n) \cap occupied[i] = {}}
FirstFit(i, p, n, a) == {u \in Room(i, p, n, a) : \A v \in Room(i, p, n, a) : u <= v}

\* A block of n units at unit u of arena i, whose base is page p.
Place(i, p, u, n, bytes) ==
    /\ base' = [base EXCEPT ![i] = p]
    /\ occupied' = [occupied EXCEPT ![i] = @ \cup Run(u, n)]
    /\ blocks' = [blocks EXCEPT ![i] =
                    [v \in DOMAIN @ \cup {u} |->
                        IF v = u THEN [length |-> n, requested |-> bytes] ELSE @[v]]]
    /\ live' = [live EXCEPT ![i] = @ + 1]
    /\ live_bytes' = live_bytes + bytes
    /\ UNCHANGED <<large, smashed>>

\* The first arena that has room, or a new one in the first entry without
\* an arena: the scan commits an arena rather than look past it.
AllocSmall(bytes, a) ==
    LET n == Needed(bytes)
        Full(i) == base[i] # 0 /\ Room(i, base[i], n, a) = {}
    IN  /\ IsSmall(bytes, a)
        /\ \E i \in 1..ARENAS :
            /\ \A j \in 1..(i - 1) : Full(j)
            /\ ~Full(i)
            /\ IF base[i] # 0
               THEN /\ \E u \in FirstFit(i, base[i], n, a) : Place(i, base[i], u, n, bytes)
                    /\ UNCHANGED <<free, committed_bytes>>
               ELSE \E p \in Runs(ARENA_PAGES) :
                    /\ \E u \in FirstFit(i, p, n, a) : Place(i, p, u, n, bytes)
                    /\ free' = free \ Run(p, ARENA_PAGES)
                    /\ committed_bytes' = committed_bytes + ARENA

k_heap_alloc(bytes, a) == AllocLarge(bytes, Alignment(a)) \/ AllocSmall(bytes, Alignment(a))
-----------------------------------------------------------------------------
(***************************************************************************)
(* k_heap_free.  A pointer that is not the start of a block, or whose      *)
(* canary is gone, is an error and changes nothing.                        *)
(***************************************************************************)
Returned(b) == b.pages * PAGE

FreeLarge(i) ==
    LET b == large[i]
    IN  /\ b.base # 0 /\ b.pointer \notin smashed
        /\ large' = [large EXCEPT ![i] = EMPTY]
        /\ free' = free \cup Run(b.base, b.pages)
        /\ live_bytes' = live_bytes - b.requested
        /\ committed_bytes' = committed_bytes - Returned(b)
        /\ UNCHANGED <<base, blocks, occupied, live, smashed>>

Pointer(i, u) == base[i] * PAGE + u * UNIT

\* What is left of arena i when it loses block u: the last block takes the
\* arena with it.
LastBlock_Never(i) == FALSE

LastBlock(i) == live[i] = 1

FreeSmall(i, u) ==
    LET b == blocks[i][u]
    IN  /\ Pointer(i, u) \notin smashed
        /\ Run(u, b.length) \subseteq occupied[i]
        /\ occupied' = [occupied EXCEPT ![i] = IF LastBlock(i) THEN {} ELSE @ \ Run(u, b.length)]
        /\ blocks' = [blocks EXCEPT ![i] =
                        IF LastBlock(i) THEN None ELSE [v \in DOMAIN @ \ {u} |-> @[v]]]
        /\ live' = [live EXCEPT ![i] = @ - 1]
        /\ live_bytes' = live_bytes - b.requested
        /\ base' = [base EXCEPT ![i] = IF LastBlock(i) THEN 0 ELSE @]
        /\ free' = IF LastBlock(i) THEN free \cup Run(base[i], ARENA_PAGES) ELSE free
        /\ committed_bytes' = IF LastBlock(i) THEN committed_bytes - ARENA ELSE committed_bytes
        /\ UNCHANGED <<large, smashed>>

\* The blocks in the hands of callers.
Small == UNION {{[pointer |-> Pointer(i, u), bytes |-> blocks[i][u].requested] :
                    u \in DOMAIN blocks[i]} : i \in 1..ARENAS}
Large == {[pointer |-> large[i].pointer, bytes |-> large[i].requested] :
                    i \in {j \in 1..LARGE : large[j].base # 0}}
Blocks == Small \cup Large

\* A caller writes past the end of its block.
Overrun(b) ==
    /\ Cardinality(smashed) < MAX_OVERRUNS
    /\ smashed' = smashed \cup {b.pointer}
    /\ UNCHANGED <<base, blocks, occupied, live, large, free, live_bytes, committed_bytes>>

\* The rest of the kernel takes and returns a page.
OtherUse(p) ==
    /\ p \in PAGES
    /\ \/ p \in free /\ free' = free \ {p}
       \/ /\ p \notin free
          /\ \A i \in 1..ARENAS : base[i] # 0 => p \notin Run(base[i], ARENA_PAGES)
          /\ \A i \in 1..LARGE : p \notin Run(large[i].base, large[i].pages)
          /\ free' = free \cup {p}
    /\ UNCHANGED <<base, blocks, occupied, live, large, smashed, live_bytes, committed_bytes>>

HeapNext ==
    \/ \E r \in HeapRequests : k_heap_alloc(r[1], r[2])
    \/ \E i \in 1..LARGE : FreeLarge(i)
    \/ \E i \in 1..ARENAS : \E u \in DOMAIN blocks[i] : FreeSmall(i, u)
    \/ \E b \in Blocks : Overrun(b)
    \/ \E p \in PAGES : OtherUse(p)

HeapSpec == HeapInit /\ [][HeapNext]_heapVars
-----------------------------------------------------------------------------
HeapTypeOK ==
    /\ base \in [1..ARENAS -> PAGES \cup {0}]
    /\ occupied \in [1..ARENAS -> SUBSET (0..(UNITS - 1))]
    /\ \A i \in 1..ARENAS :
        /\ DOMAIN blocks[i] \subseteq 0..(UNITS - 1)
        /\ \A u \in DOMAIN blocks[i] : blocks[i][u] \in [length : 1..UNITS, requested : 1..ARENA]
    /\ live \in [1..ARENAS -> 0..UNITS]
    /\ large \in [1..LARGE -> [base : Nat, pointer : Nat, requested : Nat, pages : Nat]]
    /\ free \subseteq PAGES
    /\ smashed \subseteq Nat
    /\ live_bytes \in Nat /\ committed_bytes \in Nat

\* The bytes a block occupies with its canary, and the pages they lie in.
Extent(b) == Run(b.pointer, b.bytes + CANARY)
PagesOf(b) == {x \div PAGE : x \in Extent(b)}

\* No two callers share a byte, no canary lies in another's block, and what
\* a caller holds is memory the page allocator has not got.
BlocksDisjoint ==
    /\ \A b, c \in Blocks : b # c => Extent(b) \cap Extent(c) = {}
    /\ \A b \in Blocks : PagesOf(b) \cap free = {} /\ PagesOf(b) \subseteq PAGES
    /\ \A i, j \in 1..ARENAS : i # j /\ base[i] # 0 => base[i] # base[j]

\* Memory goes back: an arena is committed while, and only while, it has a
\* block, and its occupied units are those of its blocks, so that a caller
\* that keeps the rules is never refused by k_heap_free with K_EFAULT.
NoIdleArena ==
    \A i \in 1..ARENAS :
        /\ (base[i] # 0) <=> (live[i] # 0)
        /\ live[i] = Cardinality(DOMAIN blocks[i])
        /\ occupied[i] = UNION {Run(u, blocks[i][u].length) : u \in DOMAIN blocks[i]}
=============================================================================
