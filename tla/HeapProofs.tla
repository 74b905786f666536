----------------------------- MODULE HeapProofs -----------------------------
(***************************************************************************)
(* Proofs about Heap for any page, unit, canary and arena size, any number *)
(* of arenas and large blocks and any memory.                              *)
(*                                                                         *)
(* BlocksDisjoint speaks of bytes, the code of units and pages.  The       *)
(* inductive invariant therefore says that the runs of units of an arena   *)
(* are apart and stay inside it, that every block fits in its units or     *)
(* pages with its canary, and that the pages of arenas and large blocks    *)
(* are apart; the bytes follow by arithmetic.                              *)
(***************************************************************************)
EXTENDS Heap, Arithmetic, FiniteSetTheorems, TLAPS

ArenaRun(i) == IF base[i] = 0 THEN {} ELSE Run(base[i], ARENA_PAGES)
LargeRun(i) == IF large[i].base = 0 THEN {} ELSE Run(large[i].base, large[i].pages)
BlockRun(i, u) == Run(u, blocks[i][u].length)

\* Every array has an entry for each arena or large block.
Shape ==
    /\ base \in [1..ARENAS -> Nat]
    /\ blocks = [i \in 1..ARENAS |-> blocks[i]]
    /\ occupied = [i \in 1..ARENAS |-> occupied[i]]
    /\ live = [i \in 1..ARENAS |-> live[i]]
    /\ large \in [1..LARGE -> [base : Nat, pointer : Nat, requested : Nat, pages : Nat]]
    /\ free \subseteq PAGES

\* Pages: an arena and a large block hold pages the allocator has not got,
\* and share none.
PagesApart ==
    /\ \A i \in 1..ARENAS : ArenaRun(i) \subseteq PAGES \ free
    /\ \A i \in 1..LARGE : LargeRun(i) \subseteq PAGES \ free
    /\ \A i, j \in 1..ARENAS : i # j => ArenaRun(i) \cap ArenaRun(j) = {}
    /\ \A i, j \in 1..LARGE : i # j => LargeRun(i) \cap LargeRun(j) = {}
    /\ \A i \in 1..ARENAS, j \in 1..LARGE : ArenaRun(i) \cap LargeRun(j) = {}

\* A block of an arena fits in its units with its canary.
BlockFits(i, u) ==
    /\ u \in Nat
    /\ blocks[i][u].length \in Nat \ {0} /\ blocks[i][u].requested \in Nat \ {0}
    /\ u + blocks[i][u].length <= UNITS
    /\ blocks[i][u].requested + CANARY <= blocks[i][u].length * UNIT

\* Units: the blocks of an arena are apart and mark exactly their units.
UnitsApart(i) ==
    /\ \A u \in DOMAIN blocks[i] : BlockFits(i, u)
    /\ \A u, v \in DOMAIN blocks[i] : u # v => BlockRun(i, u) \cap BlockRun(i, v) = {}
    /\ occupied[i] = UNION {BlockRun(i, u) : u \in DOMAIN blocks[i]}

\* The count of an arena's blocks, and the arena that goes with it.
LiveCounts(i) ==
    /\ IsFiniteSet(DOMAIN blocks[i])
    /\ live[i] = Cardinality(DOMAIN blocks[i])
    /\ (base[i] # 0) <=> (live[i] # 0)

\* A large block fits in its pages with its canary.
LargeFits(i) ==
    large[i].base # 0 =>
        /\ large[i].base * PAGE <= large[i].pointer
        /\ large[i].pointer + large[i].requested + CANARY
               <= (large[i].base + large[i].pages) * PAGE

IInv ==
    /\ Shape /\ PagesApart
    /\ \A i \in 1..ARENAS : UnitsApart(i) /\ LiveCounts(i)
    /\ \A i \in 1..LARGE : LargeFits(i)
-----------------------------------------------------------------------------
\* The sizes of the code's constants and of what they determine.
LEMMA Sizes ==
    ASSUME HeapAssumption
    PROVE  /\ PAGE \in Nat \ {0} /\ UNIT \in Nat \ {0} /\ CANARY \in Nat \ {0}
           /\ ARENA_PAGES \in Nat \ {0} /\ MIN_ALIGN \in Nat \ {0}
           /\ PAGES \subseteq Nat \ {0}
           /\ ARENA \in Nat /\ UNITS \in Nat
           /\ UNITS * UNIT <= ARENA /\ UNITS * UNIT \in Nat
<1>1. /\ PAGE \in Nat \ {0} /\ UNIT \in Nat \ {0} /\ CANARY \in Nat \ {0}
      /\ ARENA_PAGES \in Nat \ {0} /\ MIN_ALIGN \in Nat \ {0}
      /\ PAGES \subseteq Nat \ {0}
    BY DEF HeapAssumption
<1>2. ARENA \in Nat
    BY <1>1 DEF ARENA
<1>3. UNITS \in Nat /\ UNITS * UNIT <= ARENA
    BY <1>1, <1>2, DivBounds DEF UNITS
<1>4. UNITS * UNIT \in Nat
    BY <1>1, <1>3
<1> QED BY <1>1, <1>2, <1>3, <1>4

\* The units k_heap_alloc asks for hold the block and its canary.
LEMMA NeededHolds ==
    ASSUME HeapAssumption, NEW bytes \in Nat \ {0}
    PROVE  /\ Needed(bytes) \in Nat \ {0}
           /\ bytes + CANARY <= Needed(bytes) * UNIT
<1> DEFINE x == bytes + CANARY
           n == (x + UNIT - 1) \div UNIT
<1>1. x \in Nat \ {0} /\ UNIT \in Nat \ {0}
    BY Sizes
<1>2. n \in Nat /\ x <= n * UNIT
    BY <1>1, RoundUp
<1>3. n = Needed(bytes)
    BY DEF Needed
<1> HIDE DEF n
<1>4. n # 0
    BY <1>1, <1>2
<1> QED BY <1>2, <1>3, <1>4

\* The pages it asks for hold the block, its canary and what alignment
\* may skip.
LEMMA LargePagesHold ==
    ASSUME HeapAssumption, NEW bytes \in Nat \ {0}, NEW a \in Nat \ {0}, NEW p \in Nat
    PROVE  /\ LargePages(bytes, a) \in Nat
           /\ ALIGN_UP(p * PAGE, a) \in Nat
           /\ p * PAGE <= ALIGN_UP(p * PAGE, a)
           /\ ALIGN_UP(p * PAGE, a) + bytes + CANARY <= (p + LargePages(bytes, a)) * PAGE
<1> DEFINE x == bytes + a + CANARY - 1
           n == (x + PAGE - 1) \div PAGE
           b == p * PAGE
           y == ALIGN_UP(b, a)
<1>1. x \in Nat /\ PAGE \in Nat \ {0} /\ CANARY \in Nat \ {0} /\ b \in Nat
    BY Sizes
<1>2. n \in Nat /\ x <= n * PAGE /\ n * PAGE \in Nat
    BY <1>1, RoundUp
<1>3. n = LargePages(bytes, a)
    BY DEF LargePages
<1> HIDE DEF n, b
<1>4. y \in Nat /\ b <= y /\ y <= b + a - 1
    BY <1>1, RoundUp DEF ALIGN_UP
<1> HIDE DEF y
<1>5. y + bytes + CANARY <= b + n * PAGE
    BY <1>1, <1>2, <1>4
<1>6. (p + n) * PAGE = b + n * PAGE
    BY <1>1, <1>2 DEF b
<1> QED BY <1>2, <1>3, <1>4, <1>5, <1>6 DEF b, y
-----------------------------------------------------------------------------
LEMMA InitInv == ASSUME HeapAssumption, HeapInit PROVE IInv
<1> USE DEF HeapInit
<1>1. Shape
    BY DEF Shape, EMPTY
<1>2. PagesApart
    BY DEF PagesApart, ArenaRun, LargeRun, EMPTY
<1>3. ASSUME NEW i \in 1..ARENAS PROVE UnitsApart(i) /\ LiveCounts(i)
  <2>1. DOMAIN blocks[i] = {} /\ occupied[i] = {} /\ live[i] = 0 /\ base[i] = 0
      BY DEF None
  <2> QED BY <2>1, FS_EmptySet DEF UnitsApart, LiveCounts
<1>4. ASSUME NEW i \in 1..LARGE PROVE LargeFits(i)
    BY DEF LargeFits, EMPTY
<1> QED BY <1>1, <1>2, <1>3, <1>4 DEF IInv

\* An arena that a call leaves alone keeps its part of the invariant.
LEMMA SameArena ==
    ASSUME NEW k \in 1..ARENAS, UnitsApart(k), LiveCounts(k),
           base'[k] = base[k], blocks'[k] = blocks[k],
           occupied'[k] = occupied[k], live'[k] = live[k]
    PROVE  UnitsApart(k)' /\ LiveCounts(k)'
<1>1. \A u : BlockRun(k, u)' = BlockRun(k, u) /\ BlockFits(k, u)' = BlockFits(k, u)
    BY DEF BlockRun, BlockFits
<1> QED BY Zenon, <1>1 DEF UnitsApart, LiveCounts

\* k_heap_alloc marks units of an arena that were free.
LEMMA PlaceStep ==
    ASSUME HeapAssumption, IInv, NEW i \in 1..ARENAS, NEW p \in Nat \ {0},
           NEW bytes \in Nat \ {0}, NEW a,
           NEW u \in Room(i, p, Needed(bytes), a),
           Place(i, p, u, Needed(bytes), bytes)
    PROVE  \A k \in 1..ARENAS : UnitsApart(k)' /\ LiveCounts(k)'
<1> DEFINE n == Needed(bytes)
           D == DOMAIN blocks[i]
<1>1. /\ n \in Nat \ {0} /\ bytes + CANARY <= n * UNIT
      /\ UNITS \in Nat
    BY NeededHolds, Sizes
<1>2. u \in Nat /\ u + n <= UNITS /\ Run(u, n) \cap occupied[i] = {}
    BY <1>1 DEF Room
<1>3. ASSUME NEW k \in 1..ARENAS, k # i
      PROVE  /\ base'[k] = base[k] /\ blocks'[k] = blocks[k]
             /\ occupied'[k] = occupied[k] /\ live'[k] = live[k]
    BY <1>3 DEF IInv, Shape, Place
<1>4. /\ base'[i] = p /\ occupied'[i] = occupied[i] \cup Run(u, n) /\ live'[i] = live[i] + 1
      /\ DOMAIN (blocks'[i]) = D \cup {u}
      /\ blocks'[i][u] = [length |-> n, requested |-> bytes]
      /\ \A v \in D : v # u => blocks'[i][v] = blocks[i][v]
    BY DEF IInv, Shape, Place
<1>5. u \notin D
  <2>1. SUFFICES ASSUME u \in D PROVE FALSE
      OBVIOUS
  <2>2. u \in BlockRun(i, u) /\ u \in Run(u, n)
      BY <1>1, <1>2, <2>1 DEF IInv, UnitsApart, BlockFits, BlockRun, Run
  <2> QED BY <1>2, <2>1, <2>2 DEF IInv, UnitsApart
<1>6. UnitsApart(i)'
  <2>1. ASSUME NEW v \in D \cup {u} PROVE BlockFits(i, v)'
    <3>1. CASE v = u
        BY <1>1, <1>2, <1>4, <3>1 DEF BlockFits
    <3>2. CASE v \in D
        BY <1>4, <1>5, <3>2 DEF IInv, UnitsApart, BlockFits
    <3> QED BY <3>1, <3>2
  <2>2. BlockRun(i, u)' = Run(u, n) /\ \A v \in D : BlockRun(i, v)' = BlockRun(i, v)
      BY <1>4, <1>5 DEF BlockRun
  <2>3. \A v \in D : BlockRun(i, v) \subseteq occupied[i]
      BY DEF IInv, UnitsApart
  <2>4. ASSUME NEW v \in D \cup {u}, NEW w \in D \cup {u}, v # w
        PROVE  BlockRun(i, v)' \cap BlockRun(i, w)' = {}
    <3>1. CASE v = u
        BY Zenon, <1>2, <2>2, <2>3, <2>4, <3>1
    <3>2. CASE w = u
        BY Zenon, <1>2, <2>2, <2>3, <2>4, <3>2
    <3>3. CASE v # u /\ w # u
        BY Zenon, <2>2, <2>4, <3>3 DEF IInv, UnitsApart
    <3> QED BY <3>1, <3>2, <3>3
  <2>5. occupied'[i] = UNION {BlockRun(i, v)' : v \in D \cup {u}}
    <3>1. occupied[i] = UNION {BlockRun(i, v) : v \in D}
        BY DEF IInv, UnitsApart
    <3> QED BY <1>4, <2>2, <3>1
  <2> QED BY <1>4, <2>1, <2>4, <2>5 DEF UnitsApart
<1>7. LiveCounts(i)'
  <2>1. IsFiniteSet(D) /\ live[i] = Cardinality(D) /\ Cardinality(D) \in Nat
      BY FS_CardinalityType DEF IInv, LiveCounts
  <2>2. IsFiniteSet(D \cup {u}) /\ Cardinality(D \cup {u}) = Cardinality(D) + 1
      BY <1>5, <2>1, FS_AddElement
  <2> QED BY <1>4, <2>1, <2>2 DEF LiveCounts
<1>8. ASSUME NEW k \in 1..ARENAS, k # i PROVE UnitsApart(k)' /\ LiveCounts(k)'
    BY Zenon, <1>3, <1>8, SameArena DEF IInv
<1> QED BY <1>6, <1>7, <1>8

\* k_heap_free of a small block clears its units and, with the last block,
\* gives up the arena.
LEMMA FreeSmallStep ==
    ASSUME HeapAssumption, IInv, NEW i \in 1..ARENAS, NEW u \in DOMAIN blocks[i],
           FreeSmall(i, u)
    PROVE  \A k \in 1..ARENAS : UnitsApart(k)' /\ LiveCounts(k)'
<1> DEFINE D == DOMAIN blocks[i]
<1>1. ASSUME NEW k \in 1..ARENAS, k # i PROVE UnitsApart(k)' /\ LiveCounts(k)'
  <2>1. /\ base'[k] = base[k] /\ blocks'[k] = blocks[k]
        /\ occupied'[k] = occupied[k] /\ live'[k] = live[k]
      BY <1>1 DEF IInv, Shape, FreeSmall
  <2> QED BY Zenon, <2>1, SameArena DEF IInv
<1>2. IsFiniteSet(D) /\ live[i] = Cardinality(D) /\ Cardinality(D) \in Nat
    BY FS_CardinalityType DEF IInv, LiveCounts
<1>3. CASE LastBlock(i)
  <2>1. /\ base'[i] = 0 /\ occupied'[i] = {} /\ blocks'[i] = None
        /\ live'[i] = live[i] - 1 /\ live[i] = 1
      BY <1>3 DEF IInv, Shape, FreeSmall, LastBlock
  <2>2. DOMAIN (blocks'[i]) = {} /\ live'[i] = 0
      BY <2>1 DEF None
  <2>3. UnitsApart(i)' /\ LiveCounts(i)'
      BY <2>1, <2>2, FS_EmptySet DEF UnitsApart, LiveCounts
  <2> QED BY <1>1, <2>3
<1>4. CASE ~LastBlock(i)
  <2>1. /\ base'[i] = base[i] /\ occupied'[i] = occupied[i] \ BlockRun(i, u)
        /\ DOMAIN (blocks'[i]) = D \ {u}
        /\ \A v \in D \ {u} : blocks'[i][v] = blocks[i][v]
        /\ live'[i] = live[i] - 1
      BY <1>4 DEF IInv, Shape, FreeSmall, BlockRun
  <2>2. \A v \in D \ {u} : BlockRun(i, v)' = BlockRun(i, v) /\ BlockFits(i, v)' = BlockFits(i, v)
      BY <2>1 DEF BlockRun, BlockFits
  <2>3. occupied'[i] = UNION {BlockRun(i, v)' : v \in D \ {u}}
    <3>1. occupied[i] = UNION {BlockRun(i, v) : v \in D}
        BY DEF IInv, UnitsApart
    <3>2. \A v \in D \ {u} : BlockRun(i, v) \cap BlockRun(i, u) = {}
        BY Zenon DEF IInv, UnitsApart
    <3>3. occupied[i] \ BlockRun(i, u) = UNION {BlockRun(i, v) : v \in D \ {u}}
        BY <3>1, <3>2
    <3> QED BY <2>1, <2>2, <3>3
  <2>4. UnitsApart(i)'
    <3>1. \A v \in D \ {u} : BlockFits(i, v)'
        BY Zenon, <2>2 DEF IInv, UnitsApart
    <3>2. \A v, w \in D \ {u} : v # w => BlockRun(i, v)' \cap BlockRun(i, w)' = {}
        BY Zenon, <2>2 DEF IInv, UnitsApart
    <3> QED BY <2>1, <2>3, <3>1, <3>2 DEF UnitsApart
  <2>5. LiveCounts(i)'
    <3>1. IsFiniteSet(D \ {u}) /\ Cardinality(D \ {u}) = Cardinality(D) - 1
        BY <1>2, FS_RemoveElement
    <3>2. Cardinality(D) # 0 /\ Cardinality(D) # 1
        BY <1>2, <1>4, FS_EmptySet DEF LastBlock
    <3>3. base[i] # 0
        BY <1>2, <3>2 DEF IInv, LiveCounts
    <3>4. live'[i] # 0 /\ base'[i] # 0
        BY <1>2, <2>1, <3>2, <3>3
    <3> QED BY Zenon, <1>2, <2>1, <3>1, <3>4 DEF LiveCounts
  <2> QED BY <1>1, <2>4, <2>5
<1> QED BY <1>3, <1>4

\* Pages that come from the allocator go to one holder.
LEMMA AllocLargeStep ==
    ASSUME HeapAssumption, IInv, NEW bytes \in Nat \ {0}, NEW a \in Nat \ {0},
           AllocLarge(bytes, a)
    PROVE  IInv'
<1> DEFINE n == LargePages(bytes, a)
<1>1. PICK i \in 1..LARGE, p \in Runs(n) :
        /\ large[i].base = 0
        /\ large' = [large EXCEPT ![i] = [base |-> p, pointer |-> ALIGN_UP(p * PAGE, a),
                                          requested |-> bytes, pages |-> n]]
        /\ free' = free \ Run(p, n)
    BY DEF AllocLarge
<1>2. UNCHANGED <<base, blocks, occupied, live>>
    BY DEF AllocLarge
<1>3. p \in PAGES /\ p \in Nat \ {0} /\ Run(p, n) \subseteq free /\ free \subseteq PAGES
    BY Sizes DEF Runs, IInv, Shape
<1>4. /\ n \in Nat /\ ALIGN_UP(p * PAGE, a) \in Nat
      /\ p * PAGE <= ALIGN_UP(p * PAGE, a)
      /\ ALIGN_UP(p * PAGE, a) + bytes + CANARY <= (p + n) * PAGE
    BY <1>3, LargePagesHold
<1> HIDE DEF n
<1>5. /\ large'[i] = [base |-> p, pointer |-> ALIGN_UP(p * PAGE, a),
                      requested |-> bytes, pages |-> n]
      /\ \A k \in 1..LARGE : k # i => large'[k] = large[k]
    BY <1>1 DEF IInv, Shape
<1>6. Shape'
    BY <1>1, <1>2, <1>3, <1>4 DEF IInv, Shape
<1>7. PagesApart'
  <2>1. LargeRun(i)' = Run(p, n) /\ \A k \in 1..LARGE : k # i => LargeRun(k)' = LargeRun(k)
      BY <1>3, <1>5 DEF LargeRun
  <2>2. \A k : ArenaRun(k)' = ArenaRun(k)
      BY <1>2 DEF ArenaRun
  <2>3. /\ \A k \in 1..ARENAS : ArenaRun(k) \subseteq PAGES \ free
        /\ \A k \in 1..LARGE : LargeRun(k) \subseteq PAGES \ free
      BY Zenon DEF IInv, PagesApart
  <2>4. free' \subseteq free /\ Run(p, n) \subseteq PAGES \ free'
      BY <1>1, <1>3
  <2>5. \A k \in 1..ARENAS : ArenaRun(k)' \subseteq PAGES \ free'
      BY <2>2, <2>3, <2>4
  <2>6. \A k \in 1..LARGE : LargeRun(k)' \subseteq PAGES \ free'
      BY <2>1, <2>3, <2>4
  <2>7. \A k, l \in 1..LARGE : k # l => LargeRun(k)' \cap LargeRun(l)' = {}
      BY <1>3, <2>1, <2>3 DEF IInv, PagesApart
  <2>8. \A k \in 1..ARENAS, l \in 1..LARGE : ArenaRun(k)' \cap LargeRun(l)' = {}
      BY <1>3, <2>1, <2>2, <2>3 DEF IInv, PagesApart
  <2>9. \A k, l \in 1..ARENAS : k # l => ArenaRun(k)' \cap ArenaRun(l)' = {}
      BY Zenon, <2>2 DEF IInv, PagesApart
  <2> QED BY Zenon, <2>5, <2>6, <2>7, <2>8, <2>9 DEF PagesApart
<1>8. ASSUME NEW k \in 1..ARENAS PROVE UnitsApart(k)' /\ LiveCounts(k)'
    BY Zenon, <1>2, SameArena DEF IInv
<1>9. ASSUME NEW k \in 1..LARGE PROVE LargeFits(k)'
    BY <1>4, <1>5 DEF IInv, LargeFits
<1> QED BY <1>6, <1>7, <1>8, <1>9 DEF IInv

\* A small block goes to an arena that exists or to one made of free pages.
LEMMA AllocSmallStep ==
    ASSUME HeapAssumption, IInv, NEW bytes \in Nat \ {0}, NEW a \in Nat \ {0},
           AllocSmall(bytes, a)
    PROVE  IInv'
<1> DEFINE n == Needed(bytes)
<1>1. PICK i \in 1..ARENAS :
        IF base[i] # 0
        THEN /\ \E u \in FirstFit(i, base[i], n, a) : Place(i, base[i], u, n, bytes)
             /\ UNCHANGED free
        ELSE \E p \in Runs(ARENA_PAGES) :
             /\ \E u \in FirstFit(i, p, n, a) : Place(i, p, u, n, bytes)
             /\ free' = free \ Run(p, ARENA_PAGES)
    BY Zenon DEF AllocSmall
<1>2. PICK p \in Nat \ {0} :
        /\ \E u \in Room(i, p, n, a) : Place(i, p, u, n, bytes)
        /\ \/ base[i] = p /\ free' = free
           \/ /\ base[i] = 0 /\ free' = free \ Run(p, ARENA_PAGES)
              /\ Run(p, ARENA_PAGES) \subseteq free
  <2>1. CASE base[i] # 0
    <3>1. base[i] \in Nat \ {0}
        BY <2>1 DEF IInv, Shape
    <3> QED BY <1>1, <2>1, <3>1 DEF FirstFit
  <2>2. CASE base[i] = 0
    <3>1. Runs(ARENA_PAGES) \subseteq Nat \ {0}
        BY Sizes DEF Runs, IInv, Shape
    <3>2. \A p \in Runs(ARENA_PAGES) : Run(p, ARENA_PAGES) \subseteq free
        BY DEF Runs
    <3> QED BY <1>1, <2>2, <3>1, <3>2 DEF FirstFit
  <2> QED BY <2>1, <2>2
<1>3. ASSUME NEW k \in 1..ARENAS PROVE UnitsApart(k)' /\ LiveCounts(k)'
    BY <1>2, PlaceStep
<1>4. /\ base'[i] = p /\ \A k \in 1..ARENAS : k # i => base'[k] = base[k]
      /\ UNCHANGED large
    BY <1>2 DEF Place, IInv, Shape
<1>5. Shape'
  <2>1. base' \in [1..ARENAS -> Nat] /\ free' \subseteq PAGES
      BY <1>2 DEF Place, IInv, Shape
  <2>2. /\ blocks' = [k \in 1..ARENAS |-> blocks'[k]]
        /\ occupied' = [k \in 1..ARENAS |-> occupied'[k]]
        /\ live' = [k \in 1..ARENAS |-> live'[k]]
      BY <1>2 DEF Place, IInv, Shape
  <2> QED BY <1>4, <2>1, <2>2 DEF IInv, Shape
<1>6. PagesApart'
  <2>1. ArenaRun(i)' = Run(p, ARENA_PAGES) /\ \A k \in 1..ARENAS : k # i => ArenaRun(k)' = ArenaRun(k)
      BY <1>2, <1>4 DEF ArenaRun
  <2>2. \A k : LargeRun(k)' = LargeRun(k)
      BY <1>4 DEF LargeRun
  <2>3. CASE base[i] = p /\ free' = free
    <3>1. \A k \in 1..ARENAS : ArenaRun(k)' = ArenaRun(k)
        BY <1>2, <2>1, <2>3 DEF ArenaRun
    <3> QED BY Zenon, <2>2, <2>3, <3>1 DEF IInv, PagesApart
  <2>4. CASE /\ base[i] = 0 /\ free' = free \ Run(p, ARENA_PAGES)
             /\ Run(p, ARENA_PAGES) \subseteq free
    <3>1. /\ \A k \in 1..ARENAS : ArenaRun(k) \subseteq PAGES \ free
          /\ \A k \in 1..LARGE : LargeRun(k) \subseteq PAGES \ free
          /\ free \subseteq PAGES
        BY Zenon DEF IInv, PagesApart, Shape
    <3>2. free' \subseteq free /\ Run(p, ARENA_PAGES) \subseteq PAGES \ free'
        BY <2>4, <3>1
    <3>3. \A k \in 1..ARENAS : ArenaRun(k)' \subseteq PAGES \ free'
        BY <2>1, <3>1, <3>2
    <3>4. \A k \in 1..LARGE : LargeRun(k)' \subseteq PAGES \ free'
        BY <2>2, <3>1, <3>2
    <3>5. \A k, l \in 1..ARENAS : k # l => ArenaRun(k)' \cap ArenaRun(l)' = {}
        BY <2>1, <2>4, <3>1 DEF IInv, PagesApart
    <3>6. \A k \in 1..ARENAS, l \in 1..LARGE : ArenaRun(k)' \cap LargeRun(l)' = {}
        BY <2>1, <2>2, <2>4, <3>1 DEF IInv, PagesApart
    <3>7. \A k, l \in 1..LARGE : k # l => LargeRun(k)' \cap LargeRun(l)' = {}
        BY Zenon, <2>2 DEF IInv, PagesApart
    <3> QED BY Zenon, <3>3, <3>4, <3>5, <3>6, <3>7 DEF PagesApart
  <2> QED BY <1>2, <2>3, <2>4
<1>7. ASSUME NEW k \in 1..LARGE PROVE LargeFits(k)'
    BY <1>4 DEF IInv, LargeFits
<1> QED BY <1>3, <1>5, <1>6, <1>7 DEF IInv

\* k_heap_free returns the pages of one holder, which no other has.
LEMMA ReturnPages ==
    ASSUME IInv,
           \/ free' = free
           \/ \E i \in 1..ARENAS : free' = free \cup ArenaRun(i) /\ ArenaRun(i)' = {}
           \/ \E i \in 1..LARGE : free' = free \cup LargeRun(i) /\ LargeRun(i)' = {},
           \A k \in 1..ARENAS : ArenaRun(k)' = ArenaRun(k) \/ ArenaRun(k)' = {},
           \A k \in 1..LARGE : LargeRun(k)' = LargeRun(k) \/ LargeRun(k)' = {}
    PROVE  PagesApart' /\ free' \subseteq PAGES
<1>1. /\ \A k \in 1..ARENAS : ArenaRun(k) \subseteq PAGES \ free
      /\ \A k \in 1..LARGE : LargeRun(k) \subseteq PAGES \ free
      /\ free \subseteq PAGES
    BY Zenon DEF IInv, PagesApart, Shape
<1>2. free' \subseteq PAGES
    BY <1>1
<1>3. ASSUME NEW k \in 1..ARENAS PROVE ArenaRun(k)' \subseteq PAGES \ free'
    BY <1>1 DEF IInv, PagesApart
<1>4. ASSUME NEW k \in 1..LARGE PROVE LargeRun(k)' \subseteq PAGES \ free'
    BY <1>1 DEF IInv, PagesApart
<1>5. /\ \A k, l \in 1..ARENAS : k # l => ArenaRun(k)' \cap ArenaRun(l)' = {}
      /\ \A k, l \in 1..LARGE : k # l => LargeRun(k)' \cap LargeRun(l)' = {}
      /\ \A k \in 1..ARENAS, l \in 1..LARGE : ArenaRun(k)' \cap LargeRun(l)' = {}
    BY DEF IInv, PagesApart
<1> QED BY Zenon, <1>2, <1>3, <1>4, <1>5 DEF PagesApart

\* k_heap_free.
LEMMA FreeStep ==
    ASSUME HeapAssumption, IInv,
           \/ \E i \in 1..LARGE : FreeLarge(i)
           \/ \E i \in 1..ARENAS : \E u \in DOMAIN blocks[i] : FreeSmall(i, u)
    PROVE  IInv'
<1>1. ASSUME NEW i \in 1..LARGE, FreeLarge(i) PROVE IInv'
  <2>1. /\ large'[i] = EMPTY /\ \A k \in 1..LARGE : k # i => large'[k] = large[k]
        /\ large' \in [1..LARGE -> [base : Nat, pointer : Nat, requested : Nat, pages : Nat]]
        /\ free' = free \cup LargeRun(i)
        /\ UNCHANGED <<base, blocks, occupied, live>>
      BY <1>1 DEF FreeLarge, IInv, Shape, LargeRun, EMPTY
  <2>2. LargeRun(i)' = {} /\ \A k \in 1..LARGE : k # i => LargeRun(k)' = LargeRun(k)
      BY <2>1 DEF LargeRun, EMPTY
  <2>3. \A k \in 1..ARENAS : ArenaRun(k)' = ArenaRun(k)
      BY <2>1 DEF ArenaRun
  <2>4. PagesApart' /\ free' \subseteq PAGES
    <3>1. \A k \in 1..LARGE : LargeRun(k)' = LargeRun(k) \/ LargeRun(k)' = {}
        BY Zenon, <2>2
    <3>2. \E k \in 1..LARGE : free' = free \cup LargeRun(k) /\ LargeRun(k)' = {}
        BY Zenon, <2>1, <2>2
    <3> QED BY Zenon, <2>3, <3>1, <3>2, ReturnPages
  <2>5. Shape'
      BY <2>1, <2>4 DEF IInv, Shape
  <2>6. ASSUME NEW k \in 1..ARENAS PROVE UnitsApart(k)' /\ LiveCounts(k)'
      BY Zenon, <2>1, SameArena DEF IInv
  <2>7. ASSUME NEW k \in 1..LARGE PROVE LargeFits(k)'
      BY <2>1 DEF IInv, LargeFits, EMPTY
  <2> QED BY <2>4, <2>5, <2>6, <2>7 DEF IInv
<1>2. ASSUME NEW i \in 1..ARENAS, NEW u \in DOMAIN blocks[i], FreeSmall(i, u) PROVE IInv'
  <2>1. /\ base'[i] = IF LastBlock(i) THEN 0 ELSE base[i]
        /\ \A k \in 1..ARENAS : k # i => base'[k] = base[k]
        /\ free' = IF LastBlock(i) THEN free \cup Run(base[i], ARENA_PAGES) ELSE free
        /\ UNCHANGED large
      BY <1>2 DEF FreeSmall, IInv, Shape
  <2>2. /\ base' \in [1..ARENAS -> Nat]
        /\ blocks' = [k \in 1..ARENAS |-> blocks'[k]]
        /\ occupied' = [k \in 1..ARENAS |-> occupied'[k]]
        /\ live' = [k \in 1..ARENAS |-> live'[k]]
    <3>1. base' \in [1..ARENAS -> Nat]
        BY <1>2 DEF FreeSmall, IInv, Shape
    <3>2. blocks' = [k \in 1..ARENAS |-> blocks'[k]]
        BY <1>2 DEF FreeSmall, IInv, Shape
    <3>3. occupied' = [k \in 1..ARENAS |-> occupied'[k]]
        BY <1>2 DEF FreeSmall, IInv, Shape
    <3>4. live' = [k \in 1..ARENAS |-> live'[k]]
        BY <1>2 DEF FreeSmall, IInv, Shape
    <3> QED BY <3>1, <3>2, <3>3, <3>4
  <2>3. \A k \in 1..LARGE : LargeRun(k)' = LargeRun(k)
      BY <2>1 DEF LargeRun
  <2>4. /\ \A k \in 1..ARENAS : ArenaRun(k)' = ArenaRun(k) \/ ArenaRun(k)' = {}
        /\ free' = free \/ (free' = free \cup ArenaRun(i) /\ ArenaRun(i)' = {})
    <3>1. LastBlock(i) => base[i] # 0
        BY DEF LastBlock, IInv, LiveCounts
    <3> QED BY <2>1, <3>1 DEF ArenaRun
  <2>5. PagesApart' /\ free' \subseteq PAGES
      BY Zenon, <2>3, <2>4, ReturnPages
  <2>6. Shape'
      BY <2>1, <2>2, <2>5 DEF IInv, Shape
  <2>7. ASSUME NEW k \in 1..LARGE PROVE LargeFits(k)'
      BY <2>1 DEF IInv, LargeFits
  <2> QED BY <1>2, <2>5, <2>6, <2>7, FreeSmallStep DEF IInv
<1> QED BY <1>1, <1>2

\* The rest of the kernel uses pages the heap does not hold.
LEMMA OtherUseStep ==
    ASSUME HeapAssumption, IInv, NEW p \in PAGES, OtherUse(p)
    PROVE  IInv'
<1>1. UNCHANGED <<base, blocks, occupied, live, large>>
    BY DEF OtherUse
<1>2. /\ \A k \in 1..ARENAS : ArenaRun(k)' = ArenaRun(k)
      /\ \A k \in 1..LARGE : LargeRun(k)' = LargeRun(k)
    BY <1>1 DEF ArenaRun, LargeRun
<1>3. /\ free' \subseteq free \cup {p} /\ free' \subseteq PAGES
      /\ p \in free' => /\ \A k \in 1..ARENAS : p \notin ArenaRun(k)
                        /\ \A k \in 1..LARGE : p \notin LargeRun(k)
    BY DEF OtherUse, ArenaRun, LargeRun, IInv, Shape
<1>4. /\ \A k \in 1..ARENAS : ArenaRun(k)' \subseteq PAGES \ free'
      /\ \A k \in 1..LARGE : LargeRun(k)' \subseteq PAGES \ free'
    BY <1>2, <1>3 DEF IInv, PagesApart
<1>5. PagesApart'
    BY Zenon, <1>2, <1>4 DEF IInv, PagesApart
<1>6. Shape'
    BY <1>1, <1>3 DEF IInv, Shape
<1>7. ASSUME NEW k \in 1..ARENAS PROVE UnitsApart(k)' /\ LiveCounts(k)'
    BY Zenon, <1>1, SameArena DEF IInv
<1>8. ASSUME NEW k \in 1..LARGE PROVE LargeFits(k)'
    BY <1>1 DEF IInv, LargeFits
<1> QED BY <1>5, <1>6, <1>7, <1>8 DEF IInv

\* Every step keeps the invariant.
LEMMA NextInv == ASSUME HeapAssumption, IInv, [HeapNext]_heapVars PROVE IInv'
<1>1. ASSUME NEW r \in HeapRequests, k_heap_alloc(r[1], r[2]) PROVE IInv'
  <2>1. r[1] \in Nat \ {0} /\ Alignment(r[2]) \in Nat \ {0}
      BY Sizes DEF HeapAssumption, Alignment
  <2> QED BY <1>1, <2>1, AllocLargeStep, AllocSmallStep DEF k_heap_alloc
<1>2. CASE UNCHANGED <<base, blocks, occupied, live, large, free>>
  <2>1. Shape'
      BY <1>2 DEF IInv, Shape
  <2>2. PagesApart'
      BY <1>2 DEF IInv, PagesApart, ArenaRun, LargeRun
  <2>3. ASSUME NEW k \in 1..ARENAS PROVE UnitsApart(k)' /\ LiveCounts(k)'
      BY Zenon, <1>2, SameArena DEF IInv
  <2>4. ASSUME NEW k \in 1..LARGE PROVE LargeFits(k)'
      BY <1>2 DEF IInv, LargeFits
  <2> QED BY <2>1, <2>2, <2>3, <2>4 DEF IInv
<1>3. CASE \E b \in Blocks : Overrun(b)
    BY <1>2, <1>3 DEF Overrun
<1>4. CASE UNCHANGED heapVars
    BY <1>2, <1>4 DEF heapVars
<1> QED BY <1>1, <1>3, <1>4, FreeStep, OtherUseStep DEF HeapNext

\* The invariant holds in every state of every run of the heap.
THEOREM Invariance == ASSUME HeapAssumption PROVE HeapSpec => []IInv
<1>1. HeapInit => IInv
    BY InitInv
<1>2. IInv /\ [HeapNext]_heapVars => IInv'
    BY NextInv
<1> QED BY <1>1, <1>2, PTL DEF HeapSpec
-----------------------------------------------------------------------------
(***************************************************************************)
(* What the invariant says of bytes.                                       *)
(***************************************************************************)
\* The bytes of a small block lie in its units, and those in its arena.
LEMMA SmallExtent ==
    ASSUME HeapAssumption, IInv, NEW i \in 1..ARENAS, NEW u \in DOMAIN blocks[i],
           NEW x \in Run(Pointer(i, u), blocks[i][u].requested + CANARY)
    PROVE  /\ x \in Nat
           /\ base[i] * PAGE + u * UNIT <= x
           /\ x < base[i] * PAGE + (u + blocks[i][u].length) * UNIT
           /\ x \div PAGE \in ArenaRun(i)
<1> DEFINE b == blocks[i][u]
           start == base[i] * PAGE
<1>1. /\ u \in Nat /\ b.length \in Nat /\ b.requested \in Nat
      /\ u + b.length <= UNITS /\ b.requested + CANARY <= b.length * UNIT
    BY DEF IInv, UnitsApart, BlockFits
<1>2. /\ PAGE \in Nat \ {0} /\ UNIT \in Nat \ {0} /\ CANARY \in Nat
      /\ ARENA_PAGES \in Nat /\ UNITS \in Nat /\ UNITS * UNIT <= ARENA
      /\ UNITS * UNIT \in Nat /\ ARENA \in Nat
    BY Sizes
<1>3. base[i] \in Nat
    BY DEF IInv, Shape
<1>4. base[i] # 0
  <2>1. IsFiniteSet(DOMAIN blocks[i]) /\ Cardinality(DOMAIN blocks[i]) # 0
      BY FS_EmptySet DEF IInv, LiveCounts
  <2> QED BY <2>1 DEF IInv, LiveCounts
<1>5. start \in Nat /\ u * UNIT \in Nat /\ b.length * UNIT \in Nat
    BY <1>1, <1>2, <1>3
<1>6. (u + b.length) * UNIT = u * UNIT + b.length * UNIT
    BY <1>1, <1>2
<1>7. (u + b.length) * UNIT <= UNITS * UNIT
    BY <1>1, <1>2, ProductMonotone
<1> HIDE DEF b
<1>8. x \in Nat /\ start + u * UNIT <= x /\ x < start + u * UNIT + (b.requested + CANARY)
    BY <1>1, <1>2, <1>5 DEF Run, Pointer, b
<1>9. (base[i] + ARENA_PAGES) * PAGE = start + ARENA
    BY <1>2, <1>3 DEF ARENA
<1>10. /\ x < start + (u + b.length) * UNIT
       /\ start <= x /\ x < (base[i] + ARENA_PAGES) * PAGE
    BY <1>1, <1>2, <1>5, <1>6, <1>7, <1>8, <1>9
<1>11. x \div PAGE \in Run(base[i], ARENA_PAGES)
    BY <1>2, <1>3, <1>8, <1>10, DivInRun DEF Run
<1> QED BY <1>4, <1>8, <1>10, <1>11 DEF ArenaRun, b

\* The bytes of a large block lie in its pages.
LEMMA LargeExtent ==
    ASSUME HeapAssumption, IInv, NEW i \in 1..LARGE, large[i].base # 0,
           NEW x \in Run(large[i].pointer, large[i].requested + CANARY)
    PROVE  x \in Nat /\ x \div PAGE \in LargeRun(i)
<1>1. /\ large[i].base \in Nat /\ large[i].pointer \in Nat
      /\ large[i].requested \in Nat /\ large[i].pages \in Nat
    BY DEF IInv, Shape
<1>2. PAGE \in Nat \ {0} /\ CANARY \in Nat
    BY Sizes
<1>3. /\ large[i].base * PAGE <= large[i].pointer
      /\ large[i].pointer + large[i].requested + CANARY
             <= (large[i].base + large[i].pages) * PAGE
    BY DEF IInv, LargeFits
<1>4. large[i].base * PAGE \in Nat /\ (large[i].base + large[i].pages) * PAGE \in Nat
    BY <1>1, <1>2
<1>5. /\ x \in Nat /\ large[i].base * PAGE <= x
      /\ x < (large[i].base + large[i].pages) * PAGE
    BY <1>1, <1>2, <1>3, <1>4 DEF Run
<1>6. x \div PAGE \in Run(large[i].base, large[i].pages)
    BY <1>1, <1>2, <1>5, DivInRun DEF Run
<1> QED BY <1>5, <1>6 DEF LargeRun

\* Two blocks of one arena share no byte.
LEMMA SameArenaApart ==
    ASSUME HeapAssumption, IInv, NEW i \in 1..ARENAS,
           NEW u \in DOMAIN blocks[i], NEW v \in DOMAIN blocks[i], u # v
    PROVE  Run(Pointer(i, u), blocks[i][u].requested + CANARY)
               \cap Run(Pointer(i, v), blocks[i][v].requested + CANARY) = {}
<1> DEFINE m == blocks[i][u].length
           n == blocks[i][v].length
<1>1. /\ u \in Nat /\ m \in Nat \ {0} /\ v \in Nat /\ n \in Nat \ {0}
      /\ Run(u, m) \cap Run(v, n) = {}
    BY DEF IInv, UnitsApart, BlockFits, BlockRun
<1>2. UNIT \in Nat /\ base[i] * PAGE \in Nat
    BY Sizes DEF IInv, Shape
<1>3. u + m <= v \/ v + n <= u
  <2>1. v \notin Run(u, m) \/ v \notin Run(v, n)
      BY <1>1
  <2>2. u \notin Run(u, m) \/ u \notin Run(v, n)
      BY <1>1
  <2> HIDE DEF m, n
  <2> QED BY <1>1, <2>1, <2>2 DEF Run
<1> HIDE DEF m, n
<1>4. SUFFICES ASSUME NEW x \in Run(Pointer(i, u), blocks[i][u].requested + CANARY),
                      x \in Run(Pointer(i, v), blocks[i][v].requested + CANARY)
               PROVE  FALSE
    OBVIOUS
<1>5. /\ x \in Nat /\ base[i] * PAGE + u * UNIT <= x
      /\ x < base[i] * PAGE + (u + m) * UNIT
    BY SmallExtent DEF m
<1>6. base[i] * PAGE + v * UNIT <= x /\ x < base[i] * PAGE + (v + n) * UNIT
    BY <1>4, SmallExtent DEF n
<1>7. /\ u * UNIT \in Nat /\ v * UNIT \in Nat
      /\ (u + m) * UNIT \in Nat /\ (v + n) * UNIT \in Nat
    BY <1>1, <1>2
<1>8. u + m <= v => (u + m) * UNIT <= v * UNIT
    BY <1>1, <1>2, ProductMonotone
<1>9. v + n <= u => (v + n) * UNIT <= u * UNIT
    BY <1>1, <1>2, ProductMonotone
<1> QED BY <1>2, <1>3, <1>5, <1>6, <1>7, <1>8, <1>9

\* A block and its place: an arena and a unit, or a large block's entry.
LEMMA BlockPlace ==
    ASSUME NEW b \in Blocks
    PROVE  \/ \E i \in 1..ARENAS : \E u \in DOMAIN blocks[i] :
                b = [pointer |-> Pointer(i, u), bytes |-> blocks[i][u].requested]
           \/ \E i \in 1..LARGE : /\ large[i].base # 0
                                  /\ b = [pointer |-> large[i].pointer, bytes |-> large[i].requested]
BY DEF Blocks, Small, Large

\* Extents whose pages are apart share no byte.
LEMMA ApartByPages ==
    ASSUME NEW X, NEW Y, NEW P, NEW Q, P \cap Q = {},
           \A x \in X : x \div PAGE \in P, \A x \in Y : x \div PAGE \in Q
    PROVE  X \cap Y = {}
OBVIOUS

\* The invariant implies that no two callers share a byte and that what they
\* hold is not the allocator's.
LEMMA InvImpliesDisjoint == ASSUME HeapAssumption, IInv PROVE BlocksDisjoint
<1> DEFINE SmallBytes(i, u) == Run(Pointer(i, u), blocks[i][u].requested + CANARY)
           LargeBytes(i) == Run(large[i].pointer, large[i].requested + CANARY)
<1>1. /\ \A i \in 1..ARENAS : \A u \in DOMAIN blocks[i] :
            \A x \in SmallBytes(i, u) : x \div PAGE \in ArenaRun(i)
      /\ \A i \in 1..LARGE : large[i].base # 0 =>
            \A x \in LargeBytes(i) : x \div PAGE \in LargeRun(i)
    BY SmallExtent, LargeExtent
<1>2. ASSUME NEW i \in 1..ARENAS, NEW u \in DOMAIN blocks[i],
             NEW j \in 1..ARENAS, NEW v \in DOMAIN blocks[j], i # j \/ u # v
      PROVE  SmallBytes(i, u) \cap SmallBytes(j, v) = {}
  <2>1. CASE i = j
      BY <1>2, <2>1, SameArenaApart
  <2>2. CASE i # j
    <3>1. ArenaRun(i) \cap ArenaRun(j) = {}
        BY Zenon, <2>2 DEF IInv, PagesApart
    <3> HIDE DEF SmallBytes
    <3> QED BY Zenon, <1>1, <3>1, ApartByPages
  <2> QED BY <2>1, <2>2
<1>3. ASSUME NEW i \in 1..ARENAS, NEW u \in DOMAIN blocks[i], NEW j \in 1..LARGE, large[j].base # 0
      PROVE  SmallBytes(i, u) \cap LargeBytes(j) = {}
  <2>1. ArenaRun(i) \cap LargeRun(j) = {}
      BY Zenon DEF IInv, PagesApart
  <2> HIDE DEF SmallBytes, LargeBytes
  <2> QED BY Zenon, <1>1, <1>3, <2>1, ApartByPages
<1>4. ASSUME NEW i \in 1..LARGE, large[i].base # 0, NEW j \in 1..LARGE, large[j].base # 0, i # j
      PROVE  LargeBytes(i) \cap LargeBytes(j) = {}
  <2>1. LargeRun(i) \cap LargeRun(j) = {}
      BY Zenon, <1>4 DEF IInv, PagesApart
  <2> HIDE DEF LargeBytes
  <2> QED BY Zenon, <1>1, <1>4, <2>1, ApartByPages
<1> HIDE DEF SmallBytes, LargeBytes
<1>5. ASSUME NEW b \in Blocks
      PROVE  \/ \E i \in 1..ARENAS : \E u \in DOMAIN blocks[i] :
                   /\ Extent(b) = SmallBytes(i, u)
                   /\ b = [pointer |-> Pointer(i, u), bytes |-> blocks[i][u].requested]
             \/ \E i \in 1..LARGE :
                   /\ large[i].base # 0 /\ Extent(b) = LargeBytes(i)
                   /\ b = [pointer |-> large[i].pointer, bytes |-> large[i].requested]
    BY BlockPlace DEF Extent, SmallBytes, LargeBytes
<1>6. ASSUME NEW b \in Blocks, NEW c \in Blocks, b # c
      PROVE  Extent(b) \cap Extent(c) = {}
  <2>1. ASSUME NEW i \in 1..ARENAS, NEW u \in DOMAIN blocks[i],
               Extent(b) = SmallBytes(i, u),
               b = [pointer |-> Pointer(i, u), bytes |-> blocks[i][u].requested]
        PROVE  Extent(b) \cap Extent(c) = {}
    <3>1. ASSUME NEW j \in 1..ARENAS, NEW v \in DOMAIN blocks[j],
                 Extent(c) = SmallBytes(j, v),
                 c = [pointer |-> Pointer(j, v), bytes |-> blocks[j][v].requested]
          PROVE  Extent(b) \cap Extent(c) = {}
      <4>1. i # j \/ u # v
          BY Zenon, <1>6, <2>1, <3>1
      <4> QED BY Zenon, <1>2, <2>1, <3>1, <4>1
    <3> QED BY <1>3, <1>5, <2>1, <3>1
  <2>2. ASSUME NEW i \in 1..LARGE, large[i].base # 0, Extent(b) = LargeBytes(i),
               b = [pointer |-> large[i].pointer, bytes |-> large[i].requested]
        PROVE  Extent(b) \cap Extent(c) = {}
    <3>1. ASSUME NEW j \in 1..LARGE, large[j].base # 0, Extent(c) = LargeBytes(j),
                 c = [pointer |-> large[j].pointer, bytes |-> large[j].requested]
          PROVE  Extent(b) \cap Extent(c) = {}
        BY Zenon, <1>4, <1>6, <2>2, <3>1
    <3>2. ASSUME NEW j \in 1..ARENAS, NEW v \in DOMAIN blocks[j], Extent(c) = SmallBytes(j, v)
          PROVE  Extent(b) \cap Extent(c) = {}
        BY <1>3, <2>2, <3>2
    <3> QED BY Zenon, <1>5, <3>1, <3>2
  <2> QED BY Zenon, <1>5, <2>1, <2>2
<1>7. ASSUME NEW b \in Blocks PROVE PagesOf(b) \subseteq PAGES \ free
  <2>1. /\ \A i \in 1..ARENAS : ArenaRun(i) \subseteq PAGES \ free
        /\ \A i \in 1..LARGE : LargeRun(i) \subseteq PAGES \ free
      BY Zenon DEF IInv, PagesApart
  <2>2. \A x \in Extent(b) : x \div PAGE \in PAGES \ free
      BY <1>1, <1>5, <2>1
  <2> QED BY <2>2 DEF PagesOf
<1>8. ASSUME NEW i \in 1..ARENAS, NEW j \in 1..ARENAS, i # j, base[i] # 0
      PROVE  base[i] # base[j]
  <2>1. base[i] \in Nat /\ ARENA_PAGES \in Nat \ {0}
      BY Sizes DEF IInv, Shape
  <2>2. base[i] \in ArenaRun(i)
      BY <1>8, <2>1 DEF ArenaRun, Run
  <2>3. base[i] = base[j] => base[i] \in ArenaRun(j)
      BY <1>8, <2>2 DEF ArenaRun
  <2> QED BY <1>8, <2>2, <2>3 DEF IInv, PagesApart
<1>9. \A b \in Blocks : PagesOf(b) \cap free = {} /\ PagesOf(b) \subseteq PAGES
    BY <1>7
<1> QED BY <1>6, <1>8, <1>9 DEF BlocksDisjoint

\* No two callers of k_heap_alloc share a byte, no canary lies in another's
\* block, and what a caller holds is memory the page allocator has not got.
THEOREM CallersAreApart == ASSUME HeapAssumption PROVE HeapSpec => []BlocksDisjoint
<1>1. IInv => BlocksDisjoint
    BY InvImpliesDisjoint
<1> QED BY <1>1, Invariance, PTL

\* An arena is committed while, and only while, it has a block, and its
\* marked units are those of its blocks, so that k_heap_free never refuses a
\* caller that keeps the rules.
THEOREM ArenasGoBack == ASSUME HeapAssumption PROVE HeapSpec => []NoIdleArena
<1>1. IInv => NoIdleArena
    BY Zenon DEF IInv, NoIdleArena, LiveCounts, UnitsApart, BlockRun
<1> QED BY <1>1, Invariance, PTL
=============================================================================
