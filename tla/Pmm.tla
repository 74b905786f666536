-------------------------------- MODULE Pmm --------------------------------
(***************************************************************************)
(* The physical page allocator, kernel/mm/physical.c.                      *)
(*                                                                         *)
(* Pages are numbers, a bitmap is the set of its 1 bits.  The allocator    *)
(* takes pmm_lock and walks the bitmap one page at a time; every turn of   *)
(* that loop is a step here, so that other CPUs that call the allocator    *)
(* meanwhile find the lock taken.  The loop's variables (cursor, pass, p,  *)
(* run, start) belong to the lock's holder.  owned is not in the code: it  *)
(* records which caller was given which pages.                             *)
(***************************************************************************)
EXTENDS Naturals, FiniteSets

CONSTANTS CPUS,             \* the callers
          Nobody,           \* pmm_lock is free
          Nothing,          \* no call in progress
          PMM_MAX_PAGES,
          LOW_PAGES,        \* 256 in the code: the first MiB is never managed
          EfiMap,           \* set of descriptors [conventional, first, pages]
          Counts, Alignments, Maxima    \* arguments; a maximum of 0 means none

PMM_PAGE_SIZE == 4096

Min(a, b) == IF a < b THEN a ELSE b

power2(n) == n > 0 /\ \A d \in 2 .. n : n % d = 0 => d % 2 = 0

-----------------------------------------------------------------------------
(* pmm_seed_from_efi_map runs once, before the scheduler.                  *)

Seeded == {d \in EfiMap : d.conventional /\ d.first < PMM_MAX_PAGES}

SeedEnd(d) == d.first + Min(d.pages, PMM_MAX_PAGES - d.first)

eligible_bitmap ==
    {p \in LOW_PAGES .. (PMM_MAX_PAGES - 1) :
        \E d \in Seeded : d.first <= p /\ p < SeedEnd(d)}

pmm_high_page ==
    CHOOSE h \in {0} \union {SeedEnd(d) : d \in Seeded} :
        \A d \in Seeded : SeedEnd(d) <= h

ASSUME SizesAssumption ==
    /\ PMM_MAX_PAGES \in Nat
    /\ LOW_PAGES \in Nat

ASSUME ArgumentsAssumption ==
    Counts \subseteq Nat /\ Alignments \subseteq Nat /\ Maxima \subseteq Nat

\* The EFI map is a finite array, so that the loop's maximum exists.
ASSUME SeedAssumption == pmm_high_page \in Nat

ASSUME NamesAssumption ==
    /\ Nobody \notin CPUS
    /\ Nothing \notin Nat
    /\ Nothing \notin [count : Nat, alignment : Nat, limit : Nat]

-----------------------------------------------------------------------------
VARIABLES page_bitmap, pmm_free_pages, pmm_search_cursor, pmm_lock,
          request,          \* request[c]: the arguments of c's allocation
          owned,            \* owned[c]: the pages c was given
          cursor, pass, p, run, start

locals == <<cursor, pass, p, run, start>>
vars == <<page_bitmap, pmm_free_pages, pmm_search_cursor, pmm_lock,
          request, owned, locals>>

Pages(first, count) == first .. (first + count - 1)

\* limit = maximum ? MIN(maximum / 4096, pmm_high_page) : pmm_high_page
LimitOf(maximum) ==
    IF maximum # 0
    THEN Min(maximum \div PMM_PAGE_SIZE, pmm_high_page)
    ELSE pmm_high_page

Requests ==
    {[count |-> n, alignment |-> a, limit |-> LimitOf(m)] :
        n \in Counts, a \in Alignments, m \in Maxima}

Init ==
    /\ page_bitmap = eligible_bitmap
    /\ pmm_free_pages = Cardinality(eligible_bitmap)
    /\ pmm_search_cursor = 0
    /\ pmm_lock = Nobody
    /\ request = [c \in CPUS |-> Nothing]
    /\ owned = [c \in CPUS |-> {}]
    /\ cursor = 0 /\ pass = 0 /\ p = 0 /\ run = 0 /\ start = 0

-----------------------------------------------------------------------------
(* k_pmm_alloc_aligned *)

\* The result is start * 4096, or 0; the caller learns it from owned.
Return(c) == request' = [request EXCEPT ![c] = Nothing]

LocalsDead == cursor' = 0 /\ pass' = 0 /\ p' = 0 /\ run' = 0 /\ start' = 0

Call(c, r) ==
    /\ request[c] = Nothing
    /\ request' = [request EXCEPT ![c] = r]
    /\ UNCHANGED <<page_bitmap, pmm_free_pages, pmm_search_cursor, pmm_lock,
                   owned, locals>>

\* A zero count or an alignment that is no power of two never takes the lock.
Reject(c) ==
    /\ request[c] # Nothing
    /\ pmm_lock # c
    /\ ~power2(request[c].alignment) \/ request[c].count = 0
    /\ Return(c)
    /\ UNCHANGED <<page_bitmap, pmm_free_pages, pmm_search_cursor, pmm_lock,
                   owned, locals>>

TooMany(r) == r.count > pmm_free_pages \/ r.count > r.limit

\* The lock is taken and released again: too few pages are free.
Shortage(c) ==
    /\ request[c] # Nothing
    /\ power2(request[c].alignment) /\ request[c].count # 0
    /\ pmm_lock = Nobody
    /\ TooMany(request[c])
    /\ Return(c)
    /\ UNCHANGED <<page_bitmap, pmm_free_pages, pmm_search_cursor, pmm_lock,
                   owned, locals>>

\* Mutant: the remembered cursor is used for runs of several pages too.
FirstPage_AnyCount(r) ==
    IF pmm_search_cursor < r.limit THEN pmm_search_cursor ELSE LOW_PAGES

FirstPage(r) ==
    IF r.count = 1 /\ pmm_search_cursor < r.limit
    THEN pmm_search_cursor ELSE LOW_PAGES

Begin(c) ==
    /\ request[c] # Nothing
    /\ power2(request[c].alignment) /\ request[c].count # 0
    /\ pmm_lock = Nobody
    /\ ~TooMany(request[c])
    /\ pmm_lock' = c
    /\ cursor' = FirstPage(request[c])
    /\ pass' = 0
    /\ p' = FirstPage(request[c])
    /\ run' = 0
    /\ start' = 0
    /\ UNCHANGED <<page_bitmap, pmm_free_pages, pmm_search_cursor, request,
                   owned>>

End(r) == IF pass = 1 THEN cursor ELSE r.limit

Scanning(c) == pmm_lock = c /\ p < End(request[c])

\* A page in use, or a free page at which no run may start, breaks the run.
SkipPage(c) ==
    /\ Scanning(c)
    /\ \/ p \notin page_bitmap
       \/ run = 0 /\ p % request[c].alignment # 0
    /\ p' = p + 1
    /\ run' = 0
    /\ UNCHANGED <<page_bitmap, pmm_free_pages, pmm_search_cursor, pmm_lock,
                   request, owned, cursor, pass, start>>

RunStart == IF run = 0 THEN p ELSE start

Extendable(c) ==
    /\ Scanning(c)
    /\ p \in page_bitmap
    /\ run # 0 \/ p % request[c].alignment = 0

ExtendRun(c) ==
    /\ Extendable(c)
    /\ run + 1 # request[c].count
    /\ p' = p + 1
    /\ run' = run + 1
    /\ start' = RunStart
    /\ UNCHANGED <<page_bitmap, pmm_free_pages, pmm_search_cursor, pmm_lock,
                   request, owned, cursor, pass>>

\* The run is complete: it is taken, the lock is released, start is returned.
Take(c) ==
    LET n == request[c].count
        taken == Pages(RunStart, n) IN
    /\ Extendable(c)
    /\ run + 1 = n
    /\ page_bitmap' = page_bitmap \ taken
    /\ pmm_free_pages' = pmm_free_pages - n
    /\ pmm_search_cursor' = RunStart + n
    /\ pmm_lock' = Nobody
    /\ owned' = [owned EXCEPT ![c] = @ \union taken]
    /\ Return(c)
    /\ LocalsDead

\* Mutant: the first pass is started again.
NextPass_First(c) ==
    /\ pmm_lock = c
    /\ p >= End(request[c])
    /\ pass = 0
    /\ p' = LOW_PAGES
    /\ run' = 0
    /\ start' = 0
    /\ UNCHANGED <<page_bitmap, pmm_free_pages, pmm_search_cursor, pmm_lock,
                   request, owned, cursor, pass>>

NextPass(c) ==
    /\ pmm_lock = c
    /\ p >= End(request[c])
    /\ pass = 0
    /\ pass' = 1
    /\ p' = LOW_PAGES
    /\ run' = 0
    /\ start' = 0
    /\ UNCHANGED <<page_bitmap, pmm_free_pages, pmm_search_cursor, pmm_lock,
                   request, owned, cursor>>

Exhausted(c) ==
    /\ pmm_lock = c
    /\ p >= End(request[c])
    /\ pass = 1
    /\ pmm_lock' = Nobody
    /\ Return(c)
    /\ LocalsDead
    /\ UNCHANGED <<page_bitmap, pmm_free_pages, pmm_search_cursor, owned>>

-----------------------------------------------------------------------------
(* k_pmm_free_pages, whose two loops run under the lock and are one step.  *)

Frame(phys) == phys \div PMM_PAGE_SIZE

InRange(phys, n) ==
    /\ n # 0
    /\ phys % PMM_PAGE_SIZE = 0
    /\ Frame(phys) < PMM_MAX_PAGES
    /\ n <= PMM_MAX_PAGES - Frame(phys)

\* Mutant: pages that are already free are not refused.
Freeable_Twice(phys, n) ==
    InRange(phys, n) /\ Pages(Frame(phys), n) \subseteq eligible_bitmap

Freeable(phys, n) ==
    /\ InRange(phys, n)
    /\ \A q \in Pages(Frame(phys), n) :
           q \in eligible_bitmap /\ q \notin page_bitmap

\* A caller may free too much, twice, or what was never allocated, but not
\* what was given to another caller.
MayFree(c, phys, n) ==
    /\ request[c] = Nothing
    /\ pmm_lock = Nobody
    /\ \A d \in CPUS \ {c} : Pages(Frame(phys), n) \intersect owned[d] = {}

\* Mutant: only the first page is marked.
Free_FirstOnly(c, phys, n) ==
    /\ MayFree(c, phys, n)
    /\ Freeable(phys, n)
    /\ page_bitmap' = page_bitmap \union {Frame(phys)}
    /\ pmm_free_pages' = pmm_free_pages + n
    /\ pmm_search_cursor' = Min(Frame(phys), pmm_search_cursor)
    /\ owned' = [owned EXCEPT ![c] = @ \ Pages(Frame(phys), n)]
    /\ UNCHANGED <<pmm_lock, request, locals>>

Free(c, phys, n) ==
    /\ MayFree(c, phys, n)
    /\ Freeable(phys, n)
    /\ page_bitmap' = page_bitmap \union Pages(Frame(phys), n)
    /\ pmm_free_pages' = pmm_free_pages + n
    /\ pmm_search_cursor' = Min(Frame(phys), pmm_search_cursor)
    /\ owned' = [owned EXCEPT ![c] = @ \ Pages(Frame(phys), n)]
    /\ UNCHANGED <<pmm_lock, request, locals>>

\* The whole range is checked first, so that a refused call changes nothing.
FreeRefused(c, phys, n) ==
    /\ MayFree(c, phys, n)
    /\ ~Freeable(phys, n)
    /\ UNCHANGED vars

\* Page addresses up to one past the last, and misaligned ones.
PhysAddresses ==
    {f * PMM_PAGE_SIZE + o : f \in 0 .. PMM_MAX_PAGES, o \in {0, 1}}

Step(c) ==
    \/ \E r \in Requests : Call(c, r)
    \/ Reject(c)
    \/ Shortage(c)
    \/ Begin(c)
    \/ SkipPage(c)
    \/ ExtendRun(c)
    \/ Take(c)
    \/ NextPass(c)
    \/ Exhausted(c)
    \/ \E phys \in PhysAddresses, n \in Counts :
           Free(c, phys, n) \/ FreeRefused(c, phys, n)

Next == \E c \in CPUS : Step(c)

\* The CPU inside the loop runs with interrupts off and cannot be stopped.
Fairness ==
    \A c \in CPUS :
        WF_vars(SkipPage(c) \/ ExtendRun(c) \/ Take(c) \/ NextPass(c)
                    \/ Exhausted(c))

Spec == Init /\ [][Next]_vars /\ Fairness

-----------------------------------------------------------------------------
(* What the loop knows *)

TypeOK ==
    /\ page_bitmap \subseteq eligible_bitmap
    /\ pmm_free_pages \in Nat
    /\ pmm_search_cursor \in Nat
    /\ pmm_lock \in CPUS \union {Nobody}
    /\ request \in [CPUS -> Requests \union {Nothing}]
    /\ owned \in [CPUS -> SUBSET eligible_bitmap]
    /\ cursor \in Nat /\ p \in Nat /\ run \in Nat /\ start \in Nat
    /\ pass \in {0, 1}

\* pmm_free_pages, which every allocation trusts before it looks at the
\* bitmap and which k_pmm_free_count reports, is the number of free pages
\* whatever was allocated, freed, freed twice or refused before.
FreeCountExact ==
    pmm_free_pages = Cardinality(page_bitmap)

\* Every managed page is either free or held by exactly one caller: no page is
\* handed out twice and none is lost, also after calls to k_pmm_free_pages
\* whose range is partly free, not managed or misaligned.
EveryPageHasOneOwner ==
    /\ \A q \in eligible_bitmap :
           q \in page_bitmap \/ \E c \in CPUS : q \in owned[c]
    /\ \A c \in CPUS : \A q \in owned[c] :
           /\ q \notin page_bitmap
           /\ \A d \in CPUS \ {c} : q \notin owned[d]

\* r's pages could start at s: aligned, below the limit and all free.
RunFits(r, s) ==
    /\ s % r.alignment = 0
    /\ s + r.count <= r.limit
    /\ Pages(s, r.count) \subseteq page_bitmap

\* What k_pmm_alloc_aligned knows at every turn of its loop: the run it is
\* counting is free, aligned and ends just before p, and every place where the
\* request would fit is still ahead of it: not before the run, or below the
\* cursor and left to the second pass.
SearchInv ==
    \A c \in CPUS : pmm_lock = c =>
        LET r == request[c] IN
        /\ r \in Requests /\ r.count > 0 /\ power2(r.alignment)
        /\ cursor = LOW_PAGES \/ (r.count = 1 /\ cursor < r.limit)
        /\ pass = 1 => p >= LOW_PAGES
        /\ run < r.count
        /\ run > 0 => /\ start + run = p
                       /\ start % r.alignment = 0
                       /\ Pages(start, run) \subseteq page_bitmap
        /\ \A s \in page_bitmap : RunFits(r, s) =>
               IF pass = 0 THEN s < cursor \/ s >= RunStart
                           ELSE s < cursor /\ s >= RunStart

Ownership == INSTANCE PageOwnership
    WITH Callers <- CPUS, Eligible <- eligible_bitmap, free <- page_bitmap

\* The page-by-page search under pmm_lock, with its remembered cursor and its
\* two passes, behaves as one atomic request: the run it returns was free,
\* aligned and below the limit, and it returns 0 only when there was no such
\* run at all.
ImplementsPageOwnership == Ownership!Spec

\* The search loop of k_pmm_alloc_aligned ends: pmm_lock, which is held with
\* interrupts off, is always released again.
LockReleased ==
    pmm_lock # Nobody ~> pmm_lock = Nobody
=============================================================================
