---------------------------- MODULE AddressSpace ----------------------------
(***************************************************************************)
(* One user address space: arch/x86_64/mmu.c and vm_features.c, with the   *)
(* RIEF loader's use of it in kernel/process.c.                            *)
(*                                                                         *)
(* Addresses count pages.  A table of level l has FAN entries and covers   *)
(* FAN^l pages (FAN is 512 in the code); the root has one entry, a slot,   *)
(* per FAN^3 pages, and slot 0 is USER_SLOT.  What a frame contains is     *)
(* left out: tables, leaf and huge say what the tree maps, and held counts *)
(* the frames taken from the page allocator and not given back, updated    *)
(* from the calls the code makes.                                          *)
(*                                                                         *)
(* vm_lock is held throughout an operation, so that only the loop that     *)
(* maps page after page, any iteration of which may run out of memory, is  *)
(* cut into steps.  Access rights are not modelled.                        *)
(***************************************************************************)
EXTENDS Naturals, FiniteSets, KernelInternal

CONSTANTS FAN,
          SLOTS,            \* number of root slots
          MAX_USER_PAGES,
          Sizes, Boundaries,
          Windows           \* the addresses asked for by K_ADMIN_MAP_AT

AddressSpaceAssumption ==
    /\ FAN \in Nat \ {0, 1} /\ SLOTS \in Nat \ {0} /\ MAX_USER_PAGES \in Nat
    /\ Sizes \subseteq Nat \ {0} /\ Boundaries \subseteq Nat \ {0}
    /\ \A m \in Boundaries : m < FAN \/ m % FAN = 0      \* powers of two, as FAN
    /\ Windows \subseteq Nat

\* The pages under a table of level l.
Span(l) == CASE l = 1 -> FAN [] l = 2 -> FAN * FAN [] l = 3 -> FAN * FAN * FAN
LIMIT == Span(3)            \* K_USER_LIMIT, with K_USER_BASE as 0
START == FAN                \* where allocation begins: 2 MiB above the base
Addresses == 0..(SLOTS * LIMIT - 1)
Slot(a) == a \div LIMIT

\* The table of level l on the way to a, and the tables down to level l.
Table(l, a) == <<l, a \div Span(l)>>
Path(l, a) == {Table(k, a) : k \in l..3}
Tables == UNION {Path(1, a) : a \in Addresses}

VARIABLES
    used,           \* the space is in use: its root exists
    tables,         \* the tables below the root
    leaf,           \* leaf[a]: "none", "lazy" or "page"
    huge,           \* the entries <<1, i>> of level 2 tables that map FAN pages
    owned_slots,    \* the root slots whose subtree belongs to the space
    next, pages,
    held,
    op,             \* the mapping loop in progress
    load            \* the load in progress, with what it will restore

spaceVars == <<used, tables, leaf, huge, owned_slots, next, pages, held, op, load>>

IDLE == [kind |-> "none", base |-> 0, n |-> 0, done |-> 0, at |-> FALSE]
Fresh == [phase |-> "fresh", next |-> 0, pages |-> 0, mapped |-> {}]

Idle == used /\ op = IDLE
Mapped == {a \in Addresses : leaf[a] = "page" \/ Table(1, a) \in huge}
Lazy == {a \in Addresses : leaf[a] = "lazy"}

SpaceInit ==
    /\ used = FALSE
    /\ tables = {} /\ huge = {} /\ owned_slots = {}
    /\ leaf = [a \in Addresses |-> "none"]
    /\ next = 0 /\ pages = 0
    /\ held = 0
    /\ op = IDLE /\ load = Fresh

as_create ==
    /\ ~used
    /\ used' = TRUE
    /\ owned_slots' = {0}
    /\ next' = START
    /\ held' = held + 1
    /\ UNCHANGED <<tables, leaf, huge, pages, op, load>>
-----------------------------------------------------------------------------
(***************************************************************************)
(* Mapping.                                                                *)
(***************************************************************************)
Unit(kind) == IF kind = "huge" THEN FAN ELSE 1
Level(kind) == IF kind = "huge" THEN 2 ELSE 1

\* The limit on a space's pages, tested before every loop.
Fits(n) == n + pages <= MAX_USER_PAGES

\* as_alloc ("page") and as_alloc_ex ("lazy" and "huge"), up to their loop.
\* The loader allocates pages only, and nothing else runs before it is done.
AllocBegin(kind, n, align) ==
    LET v == ALIGN_UP(next, IF align < Unit(kind) THEN Unit(kind) ELSE align)
    IN  /\ Idle
        /\ load.phase = "loaded" \/ (load.phase = "loading" /\ kind = "page")
        /\ n % Unit(kind) = 0
        /\ Fits(n)
        /\ v + n + 1 <= LIMIT
        /\ op' = [kind |-> kind, base |-> v, n |-> n, done |-> 0, at |-> FALSE]
        /\ UNCHANGED <<used, tables, leaf, huge, owned_slots, next, pages, held, load>>

\* as_map_at, up to its loop: nothing may be mapped there yet.
MapAtBegin(a, n) ==
    /\ Idle
    /\ load.phase # "loading"
    /\ Slot(a) = Slot(a + n - 1) /\ a + n - 1 \in Addresses
    /\ Fits(n)
    /\ a..(a + n - 1) \cap Mapped = {}
    /\ owned_slots' = owned_slots \cup {Slot(a)}
    /\ op' = [kind |-> "page", base |-> a, n |-> n, done |-> 0, at |-> TRUE]
    /\ UNCHANGED <<used, tables, leaf, huge, next, pages, held, load>>

Looping == op # IDLE /\ op.done < op.n
Here == op.base + op.done

\* The entry the loop is at already holds something.
Occupied ==
    IF op.kind = "huge"
    THEN Table(1, Here) \in tables \cup huge
    ELSE leaf[Here] # "none"

\* What the entries of one iteration cost: tables that were missing, frames.
Missing(made) == Cardinality(made \ tables)
Frames(kind, n) == IF kind = "lazy" THEN 0 ELSE n

MapOne ==
    /\ Looping /\ ~Occupied
    /\ tables' = tables \cup Path(Level(op.kind), Here)
    /\ leaf' = [leaf EXCEPT ![Here] = IF op.kind = "huge" THEN @ ELSE op.kind]
    /\ huge' = IF op.kind = "huge" THEN huge \cup {Table(1, Here)} ELSE huge
    /\ held' = held + Missing(Path(Level(op.kind), Here)) + Frames(op.kind, Unit(op.kind))
    /\ op' = [op EXCEPT !.done = @ + Unit(op.kind)]
    /\ UNCHANGED <<used, owned_slots, next, pages, load>>

\* The tables an iteration can have made, top down, when it runs out of
\* memory: the allocation of the next table failed, or that of the frames,
\* which as_alloc takes before the tables and as_alloc_ex after them.
OutOfMemory ==
    {made \in {Path(l, Here) : l \in Level(op.kind)..4} :
        \/ \E l \in (Level(op.kind) + 1)..4 : made = Path(l, Here) /\ Table(l - 1, Here) \notin tables
        \/ op.kind = "page" /\ made = {}
        \/ op.kind = "huge" /\ made = Path(2, Here)}

\* The error path: the entries made so far are cleared and their frames
\* freed; tables stay.
Cleared_Leaks(made) == held + Missing(made)

Cleared(made) == held + Missing(made) - Frames(op.kind, op.done)

MapFails ==
    /\ Looping
    /\ \E made \in IF Occupied THEN {{}} ELSE OutOfMemory :
        /\ tables' = tables \cup made
        /\ held' = Cleared(made)
    /\ leaf' = [a \in Addresses |-> IF a \in op.base..(Here - 1) THEN "none" ELSE leaf[a]]
    /\ huge' = {h \in huge : ~ (h[2] * FAN \in op.base..(Here - 1))}
    /\ op' = IDLE
    /\ UNCHANGED <<used, owned_slots, next, pages, load>>

Counted_AllocOnly == IF op.at THEN pages ELSE pages + op.n

Counted == pages + op.n

MapDone ==
    /\ op # IDLE /\ op.done = op.n
    /\ next' = IF op.at THEN next ELSE op.base + op.n + 1
    /\ pages' = Counted
    /\ op' = IDLE
    /\ UNCHANGED <<used, tables, leaf, huge, owned_slots, held, load>>

\* demand_fault: the first access to a lazy page gives it a frame.
demand_fault(a) ==
    /\ Idle
    /\ a < LIMIT /\ leaf[a] = "lazy"
    /\ leaf' = [leaf EXCEPT ![a] = "page"]
    /\ held' = held + 1
    /\ UNCHANGED <<used, tables, huge, owned_slots, next, pages, op, load>>
-----------------------------------------------------------------------------
(***************************************************************************)
(* Loading, with rollback, and destruction.                                *)
(***************************************************************************)
LoadBegin ==
    /\ Idle /\ load.phase = "fresh"
    /\ load' = [phase |-> "loading", next |-> next, pages |-> pages, mapped |-> Mapped]
    /\ UNCHANGED <<used, tables, leaf, huge, owned_slots, next, pages, held, op>>

LoadDone ==
    /\ Idle /\ load.phase = "loading"
    /\ load' = [Fresh EXCEPT !.phase = "loaded"]
    /\ UNCHANGED <<used, tables, leaf, huge, owned_slots, next, pages, held, op>>

\* rollback_tree from address `from' of slot 0: what it clears ...
Undone(from) == {a \in Addresses : a < LIMIT /\ a >= from /\ leaf[a] # "none"}
HugeUndone(from) == {h \in huge : h[2] * FAN >= from}

\* ... and the tables it then finds empty, level by level.
Emptied_AllVisited(from) ==
    {t \in tables : Slot(t[2] * Span(t[1])) = 0 /\ (t[2] + 1) * Span(t[1]) > from}

Emptied(from) ==
    LET Visited(t) == Slot(t[2] * Span(t[1])) = 0 /\ (t[2] + 1) * Span(t[1]) > from
        Below(t, S) == {u \in S : u[1] = t[1] - 1 /\ u[2] \div FAN = t[2]}
        left == {a \in Addresses : leaf[a] # "none"} \ Undone(from)
        one == {t \in tables : t[1] = 1 /\ Visited(t) /\ ~ \E a \in left : Table(1, a) = t}
        two == {t \in tables : /\ t[1] = 2 /\ Visited(t)
                               /\ Below(t, (tables \ one) \cup (huge \ HugeUndone(from))) = {}}
        three == {t \in tables : t = <<3, 0>> /\ Below(t, tables \ two) = {}}
    IN  one \cup two \cup three

\* as_rollback.
LoadFails ==
    LET from == load.next
        freed == {a \in Undone(from) : leaf[a] = "page"}
    IN  /\ Idle /\ load.phase = "loading"
        /\ leaf' = [a \in Addresses |-> IF a \in Undone(from) THEN "none" ELSE leaf[a]]
        /\ huge' = huge \ HugeUndone(from)
        /\ tables' = tables \ Emptied(from)
        /\ held' = held - Cardinality(freed) - FAN * Cardinality(HugeUndone(from))
                        - Cardinality(Emptied(from))
        /\ next' = load.next /\ pages' = load.pages
        /\ load' = Fresh
        /\ UNCHANGED <<used, owned_slots, op>>

\* as_destroy: free_user_tree over the owned slots, then the root.
Owned(t) == Slot(t[2] * Span(t[1])) \in owned_slots

as_destroy ==
    /\ Idle /\ load.phase # "loading"
    /\ held' = held - Cardinality({t \in tables : Owned(t)})
                    - Cardinality({a \in Addresses : leaf[a] = "page" /\ Slot(a) \in owned_slots})
                    - FAN * Cardinality({h \in huge : Owned(h)}) - 1
    /\ used' = FALSE
    /\ tables' = {} /\ huge' = {} /\ owned_slots' = {}
    /\ leaf' = [a \in Addresses |-> "none"]
    /\ next' = 0 /\ pages' = 0
    /\ load' = Fresh
    /\ UNCHANGED op
-----------------------------------------------------------------------------
SpaceNext ==
    \/ as_create \/ as_destroy
    \/ \E kind \in {"page", "lazy", "huge"}, n \in Sizes, m \in Boundaries : AllocBegin(kind, n, m)
    \/ \E a \in Windows, n \in Sizes : MapAtBegin(a, n)
    \/ MapOne \/ MapFails \/ MapDone
    \/ \E a \in Addresses : demand_fault(a)
    \/ LoadBegin \/ LoadDone \/ LoadFails

SpaceSpec == SpaceInit /\ [][SpaceNext]_spaceVars
-----------------------------------------------------------------------------
SpaceTypeOK ==
    /\ used \in BOOLEAN
    /\ tables \subseteq Tables
    /\ leaf \in [Addresses -> {"none", "lazy", "page"}]
    /\ huge \subseteq {t \in Tables : t[1] = 1}
    /\ owned_slots \subseteq 0..(SLOTS - 1)
    /\ next \in 0..LIMIT /\ pages \in 0..MAX_USER_PAGES
    /\ held \in Nat
    /\ op \in [kind : {"none", "page", "lazy", "huge"}, base : Nat, n : Nat, done : Nat, at : BOOLEAN]
    /\ load \in [phase : {"fresh", "loading", "loaded"}, next : 0..LIMIT, pages : 0..MAX_USER_PAGES,
                 mapped : SUBSET Addresses]

\* Every frame taken is in the tree and every frame of the tree was taken
\* once: a mapping that fails half-way, a rolled back load and the
\* destruction of the space neither leak a frame nor free one twice, and a
\* destroyed space holds nothing.
FramesAccounted ==
    held = IF used
           THEN 1 + Cardinality(tables) + Cardinality({a \in Addresses : leaf[a] = "page"})
                  + FAN * Cardinality(huge)
           ELSE 0

\* The tree stays a tree: whatever is mapped is reached through tables that
\* exist, rollback never frees a table that still leads somewhere, and no
\* table and no small page lies under a huge one: pt_child never has a huge
\* page of user memory to split, which would make a table of its FAN pages
\* that the code then frees page by page.
TreeWellFormed ==
    /\ \A t \in tables : t[1] = 3 \/ Table(t[1] + 1, t[2] * Span(t[1])) \in tables
    /\ \A a \in Addresses : leaf[a] # "none" => Table(1, a) \in tables
    /\ \A h \in huge : Table(2, h[2] * FAN) \in tables /\ h \notin tables
    /\ Looping /\ op.kind # "huge" => Table(1, Here) \notin huge

\* The page limit is enforced on what is really mapped: pages never falls
\* behind, whatever was rolled back.
LimitHolds == Cardinality(Mapped \cup Lazy) <= pages + op.done

\* mmu.c: "RIEF load rollback removes only mappings created by that load."
RollbackKeepsOthers ==
    [][load.phase = "loading" /\ load'.phase = "fresh" /\ used' => load.mapped \subseteq Mapped']_spaceVars
=============================================================================
