----------------------------- MODULE PmmProofs -----------------------------
(***************************************************************************)
(* Proofs about Pmm for any number of CPUs, any EFI map and any requests.  *)
(* The inductive invariant is the conjunction of the four state properties *)
(* of Pmm: the counter needs the bitmap's type, the owners need the        *)
(* search's run to be free, and the search needs nothing else.             *)
(***************************************************************************)
EXTENDS Pmm, FiniteSetTheorems, TLAPS

IInv == TypeOK /\ FreeCountExact /\ EveryPageHasOneOwner /\ SearchInv

\* The managed pages are a finite set of naturals, none of them below
\* LOW_PAGES: pmm_seed_from_efi_map starts at page 256.
LEMMA EligibleFinite ==
    /\ IsFiniteSet(eligible_bitmap)
    /\ eligible_bitmap \subseteq Nat
    /\ \A q \in eligible_bitmap : q >= LOW_PAGES
<1>1. /\ eligible_bitmap \in SUBSET Nat
      /\ \A q \in eligible_bitmap : q <= PMM_MAX_PAGES /\ q >= LOW_PAGES
    BY SizesAssumption DEF eligible_bitmap
<1>2. IsFiniteSet(eligible_bitmap)
    BY Zenon, <1>1, SizesAssumption, FS_BoundedSetOfNaturals
<1> QED BY Zenon, <1>1, <1>2

\* The arguments of a call are naturals, and no record is the mark Nothing.
LEMMA RequestType ==
    /\ Requests \subseteq [count : Nat, alignment : Nat, limit : Nat]
    /\ Nothing \notin Requests
<1>1. \A m \in Maxima : LimitOf(m) \in Nat
    BY ArgumentsAssumption, SeedAssumption DEF LimitOf, Min, PMM_PAGE_SIZE
<1>2. Requests \subseteq [count : Nat, alignment : Nat, limit : Nat]
    BY <1>1, ArgumentsAssumption DEF Requests
<1> QED BY Zenon, <1>2, NamesAssumption

\* Taking or returning a run changes the number of free pages by its length.
LEMMA RunCardinality ==
    ASSUME NEW S \in SUBSET eligible_bitmap, NEW a \in Nat, NEW n \in Nat, n > 0
    PROVE  /\ IsFiniteSet(S) /\ Cardinality(S) \in Nat
           /\ Pages(a, n) \subseteq S =>
                  /\ n <= Cardinality(S)
                  /\ Cardinality(S \ Pages(a, n)) = Cardinality(S) - n
           /\ Pages(a, n) \intersect S = {} =>
                  Cardinality(S \union Pages(a, n)) = Cardinality(S) + n
<1>1. IsFiniteSet(S) /\ Cardinality(S) \in Nat
    BY Zenon, EligibleFinite, FS_Subset, FS_CardinalityType
<1>2. IsFiniteSet(Pages(a, n)) /\ Cardinality(Pages(a, n)) = n
  <2>1. a \in Int /\ a + n - 1 \in Int /\ ~(a > a + n - 1)
      OBVIOUS
  <2> QED BY <2>1, FS_Interval DEF Pages
<1>3. ASSUME Pages(a, n) \subseteq S
      PROVE  /\ n <= Cardinality(S)
             /\ Cardinality(S \ Pages(a, n)) = Cardinality(S) - n
  <2>1. n <= Cardinality(S)
      BY Zenon, <1>1, <1>2, <1>3, FS_Subset
  <2>2. S \intersect Pages(a, n) = Pages(a, n)
      BY Zenon, <1>3
  <2>3. Cardinality(S \ Pages(a, n)) =
            Cardinality(S) - Cardinality(S \intersect Pages(a, n))
      BY Zenon, <1>1, <1>2, FS_Difference
  <2> QED BY Zenon, <1>2, <2>1, <2>2, <2>3
<1>4. ASSUME Pages(a, n) \intersect S = {}
      PROVE  Cardinality(S \union Pages(a, n)) = Cardinality(S) + n
  <2>1. S \intersect Pages(a, n) = {}
      BY Zenon, <1>4
  <2>2. Cardinality(S \union Pages(a, n)) =
            Cardinality(S) + Cardinality(Pages(a, n))
                - Cardinality(S \intersect Pages(a, n))
      BY Zenon, <1>1, <1>2, FS_Union
  <2> QED BY <1>1, <1>2, <2>1, <2>2, FS_EmptySet
<1> QED BY Zenon, <1>1, <1>3, <1>4

\* pmm_seed_from_efi_map establishes the invariant.
LEMMA InitInv == Init => IInv
<1> SUFFICES ASSUME Init PROVE IInv
    OBVIOUS
<1> USE DEF Init
<1>1. TypeOK
  <2>1. pmm_free_pages \in Nat
      BY Zenon, EligibleFinite, FS_CardinalityType
  <2> QED BY Zenon, <2>1 DEF TypeOK
<1>2. FreeCountExact
    BY Zenon DEF FreeCountExact
<1>3. EveryPageHasOneOwner
    BY Zenon DEF EveryPageHasOneOwner
<1>4. SearchInv
    BY Zenon, NamesAssumption DEF SearchInv
<1> QED BY Zenon, <1>1, <1>2, <1>3, <1>4 DEF IInv

\* Steps that leave the bitmap, its counter and the owners alone.
Quiet == UNCHANGED <<page_bitmap, pmm_free_pages, owned>>

\* A step that moves no page keeps the counter exact and the owners disjoint.
LEMMA QuietStep ==
    FreeCountExact /\ EveryPageHasOneOwner /\ Quiet =>
        FreeCountExact' /\ EveryPageHasOneOwner'
BY Zenon DEF Quiet, FreeCountExact, EveryPageHasOneOwner

\* Taking the completed run: it was free, so that it leaves the bitmap, the
\* counter drops by its length and only the caller holds it afterwards.
LEMMA TakeStep ==
    ASSUME IInv, NEW c \in CPUS, Take(c)
    PROVE  /\ RunStart \in Nat
           /\ Pages(RunStart, request[c].count) \subseteq page_bitmap
           /\ RunFits(request[c], RunStart)
           /\ IInv'
<1> DEFINE r == request[c]
           taken == Pages(RunStart, r.count)
<1>1. /\ r \in Requests /\ r.count > 0 /\ r.count \in Nat
      /\ r.alignment \in Nat /\ r.limit \in Nat
      /\ p \in Nat /\ run \in Nat /\ start \in Nat /\ RunStart \in Nat
      /\ page_bitmap \subseteq eligible_bitmap /\ pmm_free_pages \in Nat
      /\ cursor \in Nat
  <2>1. r \in Requests /\ r.count > 0
      BY Zenon DEF IInv, SearchInv, Take, Extendable, Scanning
  <2>2. r \in [count : Nat, alignment : Nat, limit : Nat]
      BY Zenon, <2>1, RequestType
  <2>3. p \in Nat /\ run \in Nat /\ start \in Nat /\ cursor \in Nat
      BY Zenon DEF IInv, TypeOK
  <2> QED BY Zenon, <2>1, <2>2, <2>3 DEF IInv, TypeOK, RunStart
<1>2. RunStart + r.count = p + 1 /\ RunStart % r.alignment = 0
  <2>1. run > 0 => start + run = p /\ start % r.alignment = 0
      BY Zenon DEF IInv, SearchInv, Take, Extendable, Scanning
  <2>2. run + 1 = r.count /\ (run # 0 \/ p % r.alignment = 0)
      BY Zenon DEF Take, Extendable
  <2> QED BY <1>1, <2>1, <2>2 DEF RunStart
<1>3. taken \subseteq page_bitmap
  <2>1. SUFFICES ASSUME NEW q \in taken, q # p PROVE q \in page_bitmap
      BY Zenon DEF Take, Extendable
  <2>2. run > 0 => start + run = p /\ Pages(start, run) \subseteq page_bitmap
      BY Zenon DEF IInv, SearchInv, Take, Extendable, Scanning
  <2>3. run > 0 /\ q \in Pages(start, run)
      BY <1>1, <1>2, <2>1, <2>2 DEF Pages, RunStart, Take
  <2> QED BY Zenon, <2>2, <2>3
<1>4. p + 1 <= r.limit
  <2>1. cursor = LOW_PAGES \/ (r.count = 1 /\ cursor < r.limit)
      BY Zenon DEF IInv, SearchInv, Take, Extendable, Scanning
  <2>2. pass = 1 => p >= LOW_PAGES
      BY Zenon DEF IInv, SearchInv, Take, Extendable, Scanning
  <2>3. p < End(r)
      BY Zenon DEF Take, Extendable, Scanning
  <2> QED BY <1>1, <2>1, <2>2, <2>3, SizesAssumption DEF End
<1>5. RunFits(r, RunStart)
    BY Zenon, <1>1, <1>2, <1>3, <1>4 DEF RunFits
<1>6. taken \subseteq eligible_bitmap
    BY Zenon, <1>1, <1>3
<1>7. FreeCountExact' /\ pmm_free_pages' \in Nat
  <2>1. page_bitmap' = page_bitmap \ taken
        /\ pmm_free_pages' = pmm_free_pages - r.count
      BY Zenon DEF Take
  <2>2. /\ r.count <= Cardinality(page_bitmap)
        /\ Cardinality(page_bitmap \ taken) = Cardinality(page_bitmap) - r.count
        /\ Cardinality(page_bitmap) \in Nat
      BY ZenonT(40), <1>1, <1>3, RunCardinality
  <2>3. pmm_free_pages = Cardinality(page_bitmap)
      BY Zenon DEF IInv, FreeCountExact
  <2> QED BY <1>1, <2>1, <2>2, <2>3 DEF FreeCountExact
<1>8. TypeOK'
  <2>1. /\ owned' \in [CPUS -> SUBSET eligible_bitmap]
        /\ request' \in [CPUS -> Requests \union {Nothing}]
        /\ page_bitmap' \subseteq eligible_bitmap
      BY Zenon, <1>6 DEF IInv, TypeOK, Take, Return
  <2>2. pmm_search_cursor' \in Nat
      BY <1>1 DEF Take
  <2> QED BY Zenon, <1>7, <2>1, <2>2 DEF TypeOK, Take, LocalsDead
<1>9. EveryPageHasOneOwner'
  <2>1. /\ page_bitmap' = page_bitmap \ taken
        /\ owned' = [owned EXCEPT ![c] = @ \union taken]
        /\ owned \in [CPUS -> SUBSET eligible_bitmap]
        /\ EveryPageHasOneOwner
      BY Zenon DEF Take, IInv, TypeOK
  <2>2. /\ owned'[c] = owned[c] \union taken
        /\ \A d \in CPUS \ {c} : owned'[d] = owned[d]
      BY Zenon, <2>1
  <2> HIDE DEF taken
  <2>3. ASSUME NEW q \in eligible_bitmap
        PROVE  q \in page_bitmap' \/ \E d \in CPUS : q \in owned'[d]
      BY Zenon, <2>1, <2>2 DEF EveryPageHasOneOwner
  <2>4. ASSUME NEW d \in CPUS, NEW q \in owned'[d]
        PROVE  /\ q \notin page_bitmap'
               /\ \A e \in CPUS \ {d} : q \notin owned'[e]
      BY Zenon, <1>3, <2>1, <2>2 DEF EveryPageHasOneOwner
  <2> QED BY Zenon, <2>3, <2>4 DEF EveryPageHasOneOwner
<1>10. SearchInv'
    BY Zenon, NamesAssumption DEF Take, SearchInv
<1> QED BY Zenon, <1>1, <1>3, <1>5, <1>7, <1>8, <1>9, <1>10 DEF IInv

\* Freeing: the checks of k_pmm_free_pages and the callers' discipline leave
\* only pages that the caller holds.
LEMMA FreeStep ==
    ASSUME IInv, NEW c \in CPUS, NEW phys \in PhysAddresses, NEW n \in Counts,
           Free(c, phys, n)
    PROVE  Pages(Frame(phys), n) \subseteq owned[c] /\ IInv'
<1> DEFINE back == Pages(Frame(phys), n)
<1>1. Frame(phys) \in Nat /\ n \in Nat /\ n > 0
  <2>1. phys \in Nat
      BY SizesAssumption DEF PhysAddresses, PMM_PAGE_SIZE
  <2>2. Frame(phys) \in Nat
      BY <2>1 DEF Frame, PMM_PAGE_SIZE
  <2> QED BY <2>2, ArgumentsAssumption DEF Free, Freeable, InRange
<1>2. back \subseteq eligible_bitmap /\ back \intersect page_bitmap = {}
    BY Zenon DEF Free, Freeable, InRange
<1>3. back \subseteq owned[c]
  <2>1. \A d \in CPUS \ {c} : back \intersect owned[d] = {}
      BY Zenon DEF Free, MayFree
  <2> HIDE DEF back
  <2> QED BY Zenon, <1>2, <2>1 DEF IInv, EveryPageHasOneOwner
<1>4. FreeCountExact' /\ pmm_free_pages' \in Nat
  <2>1. page_bitmap' = page_bitmap \union back
        /\ pmm_free_pages' = pmm_free_pages + n
      BY Zenon DEF Free
  <2>2. /\ Cardinality(page_bitmap) \in Nat
        /\ Cardinality(page_bitmap \union back) = Cardinality(page_bitmap) + n
      BY <1>1, <1>2, RunCardinality DEF IInv, TypeOK
  <2>3. pmm_free_pages = Cardinality(page_bitmap)
      BY Zenon DEF IInv, FreeCountExact
  <2> QED BY <1>1, <2>1, <2>2, <2>3 DEF FreeCountExact
<1>5. TypeOK'
  <2>1. /\ owned' \in [CPUS -> SUBSET eligible_bitmap]
        /\ page_bitmap' \subseteq eligible_bitmap
      BY Zenon, <1>2 DEF IInv, TypeOK, Free
  <2>2. pmm_search_cursor' \in Nat
      BY Zenon, <1>1 DEF Free, Min, IInv, TypeOK
  <2> QED BY Zenon, <1>4, <2>1, <2>2 DEF TypeOK, IInv, Free, locals
<1>6. EveryPageHasOneOwner'
  <2>1. /\ page_bitmap' = page_bitmap \union back
        /\ owned' = [owned EXCEPT ![c] = @ \ back]
        /\ owned \in [CPUS -> SUBSET eligible_bitmap]
        /\ EveryPageHasOneOwner
      BY Zenon DEF Free, IInv, TypeOK
  <2>2. /\ owned'[c] = owned[c] \ back
        /\ \A d \in CPUS \ {c} : owned'[d] = owned[d]
      BY Zenon, <2>1
  <2> HIDE DEF back
  <2>3. ASSUME NEW q \in eligible_bitmap
        PROVE  q \in page_bitmap' \/ \E d \in CPUS : q \in owned'[d]
      BY Zenon, <2>1, <2>2 DEF EveryPageHasOneOwner
  <2>4. ASSUME NEW d \in CPUS, NEW q \in owned'[d]
        PROVE  /\ q \notin page_bitmap'
               /\ \A e \in CPUS \ {d} : q \notin owned'[e]
      BY Zenon, <1>3, <2>1, <2>2 DEF EveryPageHasOneOwner
  <2> QED BY Zenon, <2>3, <2>4 DEF EveryPageHasOneOwner
<1>7. SearchInv'
    BY Zenon, NamesAssumption DEF Free, MayFree, SearchInv
<1> QED BY Zenon, <1>3, <1>4, <1>5, <1>6, <1>7 DEF IInv

\* The holder of the lock has a well-formed request in hand; its fields and
\* the loop's variables are naturals.
LEMMA HolderFacts ==
    ASSUME IInv, NEW c \in CPUS, pmm_lock = c
    PROVE  /\ request[c] \in Requests /\ request[c] # Nothing
           /\ request[c].count \in Nat /\ request[c].count > 0
           /\ request[c].alignment \in Nat /\ request[c].limit \in Nat
           /\ power2(request[c].alignment)
           /\ p \in Nat /\ run \in Nat /\ start \in Nat /\ cursor \in Nat
           /\ page_bitmap \subseteq eligible_bitmap /\ page_bitmap \subseteq Nat
<1>1. /\ request[c] \in Requests /\ request[c].count > 0
      /\ power2(request[c].alignment)
    BY Zenon DEF IInv, SearchInv
<1>2. request[c] \in [count : Nat, alignment : Nat, limit : Nat]
    BY Zenon, <1>1, RequestType
<1>3. page_bitmap \subseteq eligible_bitmap /\ page_bitmap \subseteq Nat
    BY Zenon, EligibleFinite DEF IInv, TypeOK
<1> QED BY Zenon, <1>1, <1>2, <1>3, RequestType DEF IInv, TypeOK

\* A page in use, or one where no run may start, rules out every place at or
\* before it that the search had not ruled out yet.
LEMMA SkipStep ==
    ASSUME IInv, NEW c \in CPUS, SkipPage(c)
    PROVE  IInv'
<1> DEFINE r == request[c]
<1>1. pmm_lock = c /\ page_bitmap' = page_bitmap /\ request' = request
      /\ p' = p + 1 /\ run' = 0
      /\ UNCHANGED <<pmm_lock, cursor, pass, start>>
    BY Zenon DEF SkipPage, Scanning
<1>2. /\ r \in Requests /\ r.count \in Nat /\ r.count > 0 /\ r.limit \in Nat
      /\ p \in Nat /\ run \in Nat /\ start \in Nat /\ cursor \in Nat
      /\ page_bitmap \subseteq Nat
    BY Zenon, <1>1, HolderFacts
<1>3. TypeOK'
    BY <1>1, <1>2 DEF IInv, TypeOK, SkipPage
<1>4. ASSUME NEW s \in page_bitmap, RunFits(r, s), s >= RunStart
      PROVE  s >= p + 1
  <2>1. s \in Nat /\ (\A q \in Pages(s, r.count) : q \in page_bitmap)
        /\ s % r.alignment = 0
      BY Zenon, <1>2, <1>4 DEF RunFits
  <2>2. CASE run = 0
    <3>1. s >= p
        BY Zenon, <1>4, <2>2 DEF RunStart
    <3>2. s # p
        BY Zenon, <2>1, <2>2, <1>4 DEF SkipPage
    <3> QED BY <1>2, <2>1, <3>1, <3>2
  <2>3. CASE run # 0
    <3>1. s >= start /\ start + run = p /\ run < r.count
        BY <1>1, <1>2, <1>4, <2>3 DEF RunStart, IInv, SearchInv
    <3>2. p \notin page_bitmap
        BY Zenon, <2>3 DEF SkipPage
    <3>3. p \notin Pages(s, r.count)
        BY Zenon, <2>1, <3>2
    <3> QED BY <1>2, <2>1, <3>1, <3>3 DEF Pages
  <2> QED BY Zenon, <2>2, <2>3
<1>5. SearchInv'
  <2>1. RunStart' = p + 1
      BY Zenon, <1>1 DEF RunStart
  <2>2. \A s \in page_bitmap : RunFits(r, s)' <=> RunFits(r, s)
      BY Zenon, <1>1 DEF RunFits
  <2>3. /\ cursor = LOW_PAGES \/ (r.count = 1 /\ cursor < r.limit)
        /\ pass = 1 => p >= LOW_PAGES
        /\ power2(r.alignment)
        /\ \A s \in page_bitmap : RunFits(r, s) =>
               IF pass = 0 THEN s < cursor \/ s >= RunStart
                           ELSE s < cursor /\ s >= RunStart
      BY Zenon, <1>1 DEF IInv, SearchInv
  <2>4. \A s \in page_bitmap : RunFits(r, s) =>
               IF pass = 0 THEN s < cursor \/ s >= p + 1
                           ELSE s < cursor /\ s >= p + 1
      BY Zenon, <1>4, <2>3
  <2>5. pass = 1 => p + 1 >= LOW_PAGES
      BY <1>2, <2>3, SizesAssumption
  <2> QED BY <1>1, <1>2, <2>1, <2>2, <2>3, <2>4, <2>5 DEF SearchInv
<1>6. FreeCountExact' /\ EveryPageHasOneOwner'
    BY Zenon, QuietStep DEF SkipPage, Quiet, IInv
<1> QED BY Zenon, <1>3, <1>5, <1>6 DEF IInv

\* Counting one more page keeps the start of the run, or starts one at p.
LEMMA ExtendStep ==
    ASSUME IInv, NEW c \in CPUS, ExtendRun(c)
    PROVE  IInv'
<1> DEFINE r == request[c]
<1>1. pmm_lock = c /\ page_bitmap' = page_bitmap /\ request' = request
      /\ p' = p + 1 /\ run' = run + 1 /\ start' = RunStart
      /\ p \in page_bitmap /\ run + 1 # r.count
      /\ UNCHANGED <<pmm_lock, cursor, pass>>
    BY Zenon DEF ExtendRun, Extendable, Scanning
<1>2. /\ r \in Requests /\ r.count \in Nat /\ r.count > 0 /\ r.limit \in Nat
      /\ p \in Nat /\ run \in Nat /\ start \in Nat /\ cursor \in Nat
      /\ page_bitmap \subseteq Nat /\ RunStart \in Nat
    BY Zenon, <1>1, HolderFacts DEF RunStart
<1>3. TypeOK'
    BY <1>1, <1>2 DEF IInv, TypeOK, ExtendRun
<1>4. /\ cursor = LOW_PAGES \/ (r.count = 1 /\ cursor < r.limit)
      /\ pass = 1 => p >= LOW_PAGES
      /\ power2(r.alignment) /\ run < r.count
      /\ run > 0 => /\ start + run = p
                    /\ start % r.alignment = 0
                    /\ Pages(start, run) \subseteq page_bitmap
      /\ \A s \in page_bitmap : RunFits(r, s) =>
             IF pass = 0 THEN s < cursor \/ s >= RunStart
                         ELSE s < cursor /\ s >= RunStart
    BY Zenon, <1>1 DEF IInv, SearchInv
<1>5. start' + run' = p' /\ start' % r.alignment = 0
    BY <1>1, <1>2, <1>4 DEF RunStart, ExtendRun, Extendable
<1>6. Pages(start', run') \subseteq page_bitmap
  <2>1. SUFFICES ASSUME NEW q \in Pages(start', run'), q # p
                 PROVE  q \in page_bitmap
      BY Zenon, <1>1
  <2>2. run > 0 /\ q \in Pages(start, run)
      BY <1>1, <1>2, <1>4, <1>5, <2>1 DEF Pages, RunStart
  <2> QED BY Zenon, <1>4, <2>2
<1>7. SearchInv'
  <2>1. RunStart' = RunStart
      BY <1>1, <1>2 DEF RunStart
  <2>2. \A s \in page_bitmap : RunFits(r, s)' <=> RunFits(r, s)
      BY Zenon, <1>1 DEF RunFits
  <2>3. run' < r.count /\ (pass = 1 => p' >= LOW_PAGES)
      BY <1>1, <1>2, <1>4, SizesAssumption
  <2> QED BY Zenon, <1>1, <1>2, <1>4, <1>5, <1>6, <2>1, <2>2, <2>3 DEF SearchInv
<1>8. FreeCountExact' /\ EveryPageHasOneOwner'
    BY Zenon, QuietStep DEF ExtendRun, Quiet, IInv
<1> QED BY Zenon, <1>3, <1>7, <1>8 DEF IInv

\* At the end of the first pass the request fits nowhere at or above the
\* cursor, so that the second pass need only look below it.
LEMMA NextPassStep ==
    ASSUME IInv, NEW c \in CPUS, NextPass(c)
    PROVE  IInv'
<1> DEFINE r == request[c]
<1>1. pmm_lock = c /\ page_bitmap' = page_bitmap /\ request' = request
      /\ pass = 0 /\ pass' = 1 /\ p' = LOW_PAGES /\ run' = 0 /\ start' = 0
      /\ p >= r.limit
      /\ UNCHANGED <<pmm_lock, cursor>>
    BY DEF NextPass, End
<1>2. /\ r \in Requests /\ r.count \in Nat /\ r.count > 0 /\ r.limit \in Nat
      /\ p \in Nat /\ run \in Nat /\ start \in Nat /\ cursor \in Nat
      /\ page_bitmap \subseteq Nat /\ page_bitmap \subseteq eligible_bitmap
    BY Zenon, <1>1, HolderFacts
<1>3. TypeOK'
    BY <1>1, <1>2, SizesAssumption DEF IInv, TypeOK, NextPass
<1>4. ASSUME NEW s \in page_bitmap, RunFits(r, s)
      PROVE  s < cursor /\ s >= LOW_PAGES
  <2>1. s \in Nat /\ s + r.count <= r.limit
      BY Zenon, <1>2, <1>4 DEF RunFits
  <2>2. s < cursor \/ s >= RunStart
      BY Zenon, <1>1, <1>4 DEF IInv, SearchInv
  <2>3. run < r.count /\ (run > 0 => start + run = p)
      BY Zenon, <1>1 DEF IInv, SearchInv
  <2>4. s < RunStart
      BY <1>1, <1>2, <2>1, <2>3 DEF RunStart
  <2>5. RunStart \in Nat
      BY Zenon, <1>2 DEF RunStart
  <2> QED BY <1>2, <2>1, <2>2, <2>4, <2>5, EligibleFinite
<1>5. SearchInv'
  <2>1. RunStart' = LOW_PAGES
      BY Zenon, <1>1 DEF RunStart
  <2>2. \A s \in page_bitmap : RunFits(r, s)' <=> RunFits(r, s)
      BY Zenon, <1>1 DEF RunFits
  <2>3. /\ cursor = LOW_PAGES \/ (r.count = 1 /\ cursor < r.limit)
        /\ power2(r.alignment)
      BY Zenon, <1>1 DEF IInv, SearchInv
  <2> QED BY <1>1, <1>2, <1>4, <2>1, <2>2, <2>3, SizesAssumption DEF SearchInv
<1>6. FreeCountExact' /\ EveryPageHasOneOwner'
    BY Zenon, QuietStep DEF NextPass, Quiet, IInv
<1> QED BY Zenon, <1>3, <1>5, <1>6 DEF IInv

\* Both passes are over and the request fits nowhere.
LEMMA ExhaustedStep ==
    ASSUME IInv, NEW c \in CPUS, Exhausted(c)
    PROVE  IInv' /\ \A s \in page_bitmap : ~RunFits(request[c], s)
<1> DEFINE r == request[c]
<1>1. pmm_lock = c /\ pass = 1 /\ p >= cursor
    BY Zenon DEF Exhausted, End
<1>2. /\ r.count \in Nat /\ r.count > 0
      /\ p \in Nat /\ run \in Nat /\ start \in Nat /\ cursor \in Nat
      /\ page_bitmap \subseteq Nat /\ page_bitmap \subseteq eligible_bitmap
    BY Zenon, <1>1, HolderFacts
<1>3. ASSUME NEW s \in page_bitmap, RunFits(r, s) PROVE FALSE
  <2>1. s < cursor /\ s >= RunStart /\ s \in Nat
      BY <1>1, <1>2, <1>3 DEF IInv, SearchInv
  <2>2. run < r.count
        /\ (cursor = LOW_PAGES \/ r.count = 1)
      BY Zenon, <1>1 DEF IInv, SearchInv
  <2>3. s >= LOW_PAGES
      BY Zenon, <1>2, EligibleFinite
  <2>4. r.count = 1
      BY <1>2, <2>1, <2>2, <2>3, SizesAssumption
  <2>5. RunStart = p
      BY <1>2, <2>2, <2>4 DEF RunStart
  <2> QED BY <1>1, <1>2, <2>1, <2>5
<1>4. TypeOK'
    BY Zenon DEF IInv, TypeOK, Exhausted, Return, LocalsDead
<1>5. SearchInv'
    BY Zenon, NamesAssumption DEF Exhausted, SearchInv
<1>6. FreeCountExact' /\ EveryPageHasOneOwner'
    BY Zenon, QuietStep DEF Exhausted, Quiet, IInv
<1> QED BY Zenon, <1>3, <1>4, <1>5, <1>6 DEF IInv

\* Starting the search: nothing has been examined yet.
LEMMA BeginStep ==
    ASSUME IInv, NEW c \in CPUS, Begin(c)
    PROVE  IInv'
<1> DEFINE r == request[c]
<1>1. /\ r \in Requests /\ r.count \in Nat /\ r.count > 0 /\ r.limit \in Nat
      /\ FirstPage(r) \in Nat /\ page_bitmap \subseteq Nat
  <2>1. r \in Requests /\ r.count # 0
      BY Zenon DEF Begin, IInv, TypeOK
  <2>2. r \in [count : Nat, alignment : Nat, limit : Nat]
      BY Zenon, <2>1, RequestType
  <2>3. FirstPage(r) \in Nat
      BY Zenon, SizesAssumption DEF FirstPage, IInv, TypeOK
  <2> QED BY <2>1, <2>2, <2>3, EligibleFinite DEF IInv, TypeOK
<1>2. TypeOK'
    BY Zenon, <1>1 DEF IInv, TypeOK, Begin
<1>3. SearchInv'
  <2>1. RunStart' = FirstPage(r) /\ cursor' = FirstPage(r) /\ run' = 0
        /\ pass' = 0 /\ power2(r.alignment)
        /\ UNCHANGED <<page_bitmap, request>> /\ pmm_lock' = c
      BY Zenon DEF Begin, RunStart
  <2>2. FirstPage(r) = LOW_PAGES \/ (r.count = 1 /\ FirstPage(r) < r.limit)
      BY Zenon DEF FirstPage
  <2>3. \A s \in page_bitmap : s < FirstPage(r) \/ s >= FirstPage(r)
      BY <1>1
  <2> QED BY <1>1, <2>1, <2>2, <2>3 DEF SearchInv
<1>4. FreeCountExact' /\ EveryPageHasOneOwner'
    BY Zenon, QuietStep DEF Begin, Quiet, IInv
<1> QED BY Zenon, <1>2, <1>3, <1>4 DEF IInv

\* Fewer free pages than asked for, or a limit below the count: no run fits.
LEMMA ShortageStep ==
    ASSUME IInv, NEW c \in CPUS, Shortage(c)
    PROVE  \A s \in page_bitmap : ~RunFits(request[c], s)
<1> DEFINE r == request[c]
<1> SUFFICES ASSUME NEW s \in page_bitmap, RunFits(r, s) PROVE FALSE
    OBVIOUS
<1>1. r.count \in Nat /\ r.count > 0 /\ r.limit \in Nat /\ s \in Nat
  <2>1. r \in Requests /\ r.count # 0
      BY Zenon DEF Shortage, IInv, TypeOK
  <2>2. r \in [count : Nat, alignment : Nat, limit : Nat]
      BY Zenon, <2>1, RequestType
  <2> QED BY <2>1, <2>2, EligibleFinite DEF IInv, TypeOK
<1>2. r.count <= Cardinality(page_bitmap) /\ Cardinality(page_bitmap) \in Nat
    BY Zenon, <1>1, RunCardinality DEF RunFits, IInv, TypeOK
<1>3. pmm_free_pages = Cardinality(page_bitmap)
    BY Zenon DEF IInv, FreeCountExact
<1>4. s + r.count <= r.limit
    BY Zenon DEF RunFits
<1> QED BY <1>1, <1>2, <1>3, <1>4 DEF Shortage, TooMany

\* Calls, and refusals before the search, touch only the caller's request.
LEMMA RequestStep ==
    ASSUME IInv, NEW c \in CPUS,
           (\E r \in Requests : Call(c, r)) \/ Reject(c) \/ Shortage(c)
    PROVE  IInv'
<1>1. /\ request' \in [CPUS -> Requests \union {Nothing}]
      /\ \A d \in CPUS \ {c} : request'[d] = request[d]
      /\ pmm_lock # c
      /\ UNCHANGED <<page_bitmap, pmm_free_pages, pmm_search_cursor, pmm_lock,
                     owned, cursor, pass, p, run, start>>
  <2>1. CASE \E r \in Requests : Call(c, r)
    <3>1. request[c] = Nothing
        BY Zenon, <2>1 DEF Call
    <3>2. pmm_lock # c
        BY Zenon, <3>1, HolderFacts
    <3> QED BY Zenon, <2>1, <3>2 DEF Call, IInv, TypeOK, locals
  <2>2. CASE Reject(c)
      BY Zenon, <2>2 DEF Reject, Return, IInv, TypeOK, locals
  <2>3. CASE Shortage(c)
      BY Zenon, <2>3, NamesAssumption DEF Shortage, Return, IInv, TypeOK, locals
  <2> QED BY Zenon, <2>1, <2>2, <2>3
<1>2. TypeOK'
    BY Zenon, <1>1 DEF IInv, TypeOK
<1>3. SearchInv'
    BY Zenon, <1>1 DEF IInv, SearchInv, RunFits, RunStart
<1>4. FreeCountExact' /\ EveryPageHasOneOwner'
    BY Zenon, <1>1, QuietStep DEF Quiet, IInv
<1> QED BY Zenon, <1>2, <1>3, <1>4 DEF IInv

\* Every step of every CPU preserves the invariant.
LEMMA NextInv == IInv /\ [Next]_vars => IInv'
<1> SUFFICES ASSUME IInv, [Next]_vars PROVE IInv'
    OBVIOUS
<1>1. CASE UNCHANGED vars
    BY Zenon, <1>1 DEF vars, locals, IInv, TypeOK, FreeCountExact,
        EveryPageHasOneOwner, SearchInv, RunFits, RunStart
<1>2. ASSUME NEW c \in CPUS, Step(c) PROVE IInv'
  <2>1. CASE (\E r \in Requests : Call(c, r)) \/ Reject(c) \/ Shortage(c)
      BY Zenon, <2>1, RequestStep
  <2>2. CASE Begin(c)
      BY Zenon, <2>2, BeginStep
  <2>3. CASE SkipPage(c)
      BY Zenon, <2>3, SkipStep
  <2>4. CASE ExtendRun(c)
      BY Zenon, <2>4, ExtendStep
  <2>5. CASE Take(c)
      BY Zenon, <2>5, TakeStep
  <2>6. CASE NextPass(c)
      BY Zenon, <2>6, NextPassStep
  <2>7. CASE Exhausted(c)
      BY Zenon, <2>7, ExhaustedStep
  <2>8. ASSUME NEW phys \in PhysAddresses, NEW n \in Counts, Free(c, phys, n)
        PROVE  IInv'
      BY Zenon, <2>8, FreeStep
  <2>9. ASSUME NEW phys \in PhysAddresses, NEW n \in Counts, FreeRefused(c, phys, n)
        PROVE  IInv'
      BY Zenon, <2>9, <1>1 DEF FreeRefused
  <2> QED BY Zenon, <1>2, <2>1, <2>2, <2>3, <2>4, <2>5, <2>6, <2>7, <2>8, <2>9 DEF Step
<1> QED BY Zenon, <1>1, <1>2 DEF Next

\* The invariant holds in every reachable state of the allocator.
THEOREM Invariance == Spec => []IInv
<1> QED BY InitInv, NextInv, PTL DEF Spec

\* pmm_free_pages is always the number of set bits of page_bitmap, for any
\* number of CPUs, any memory map and any sequence of calls.
THEOREM CounterIsExact == Spec => []FreeCountExact
<1>1. IInv => FreeCountExact
    BY Zenon DEF IInv
<1> QED BY <1>1, Invariance, PTL

\* No page is ever handed out twice or lost, whatever the callers free.
THEOREM OwnersAreDisjoint == Spec => []EveryPageHasOneOwner
<1>1. IInv => EveryPageHasOneOwner
    BY Zenon DEF IInv
<1> QED BY <1>1, Invariance, PTL

\* Each step of the search is invisible to the callers, or is the atomic
\* answer that PageOwnership allows.
LEMMA RefinementStep == IInv /\ [Next]_vars => [Ownership!Next]_(Ownership!vars)
<1> SUFFICES ASSUME IInv, [Next]_vars
             PROVE  Ownership!Next \/ UNCHANGED Ownership!vars
    OBVIOUS
<1>1. CASE UNCHANGED vars
    BY Zenon, <1>1 DEF vars, Ownership!vars
<1>2. ASSUME NEW c \in CPUS, Step(c)
      PROVE  Ownership!Next \/ UNCHANGED Ownership!vars
  <2>1. ASSUME NEW r \in Requests, Call(c, r)
        PROVE  Ownership!Ask(c, r)
      BY Zenon, <2>1 DEF Call, Ownership!Ask
  <2>2. CASE Reject(c)
    <3>1. request[c] \in Requests
        BY Zenon, <2>2 DEF Reject, IInv, TypeOK
    <3>2. request[c].count \in Nat
        BY Zenon, <3>1, RequestType
    <3>3. Ownership!WellFormed(request[c])
             <=> request[c].count > 0 /\ power2(request[c].alignment)
        BY Zenon DEF Ownership!WellFormed, Ownership!power2, power2
    <3>4. request[c].count = 0 => ~(request[c].count > 0)
        BY <3>2
    <3>5. ~Ownership!WellFormed(request[c])
        BY Zenon, <2>2, <3>3, <3>4 DEF Reject
    <3> QED BY <2>2, <3>5 DEF Reject, Return, Ownership!Next, Ownership!Refuse
  <2>3. CASE Shortage(c)
    <3>1. \A s \in page_bitmap : ~RunFits(request[c], s)
        BY Zenon, <2>3, ShortageStep
    <3>2. \A s \in page_bitmap : ~Ownership!Fits(request[c], page_bitmap, s)
        BY Zenon, <3>1 DEF RunFits, Ownership!Fits, Pages, Ownership!Run
    <3>3. Ownership!Refuse(c)
        BY Zenon, <2>3, <3>2 DEF Shortage, Return, Ownership!Refuse
    <3> QED BY Zenon, <3>3 DEF Ownership!Next
  <2>4. CASE Begin(c) \/ SkipPage(c) \/ ExtendRun(c) \/ NextPass(c)
      BY Zenon, <2>4 DEF Begin, SkipPage, ExtendRun, NextPass, Ownership!vars
  <2>5. CASE Take(c)
    <3>1. pmm_lock = c
        BY Zenon, <2>5 DEF Take, Extendable, Scanning
    <3>2. /\ request[c] # Nothing /\ request[c].count > 0
          /\ request[c].count \in Nat /\ power2(request[c].alignment)
        BY Zenon, <3>1, HolderFacts
    <3>3. RunStart \in Nat /\ RunFits(request[c], RunStart)
        BY Zenon, <2>5, TakeStep
    <3>4. RunStart \in page_bitmap
        BY <3>2, <3>3 DEF RunFits, Pages
    <3>5. Ownership!WellFormed(request[c])
        BY Zenon, <3>2 DEF Ownership!WellFormed, Ownership!power2, power2
    <3>6. Ownership!Fits(request[c], page_bitmap, RunStart)
        BY Zenon, <3>3 DEF RunFits, Ownership!Fits, Pages, Ownership!Run
    <3>7. Ownership!Grant(c, RunStart)
        BY Zenon, <2>5, <3>2, <3>5, <3>6
        DEF Take, Return, Ownership!Grant, Pages, Ownership!Run
    <3> QED BY Zenon, <3>4, <3>7 DEF Ownership!Next
  <2>6. CASE Exhausted(c)
    <3>1. request[c] # Nothing
        BY Zenon, <2>6, HolderFacts DEF Exhausted
    <3>2. \A s \in page_bitmap : ~RunFits(request[c], s)
        BY Zenon, <2>6, ExhaustedStep
    <3>3. \A s \in page_bitmap : ~Ownership!Fits(request[c], page_bitmap, s)
        BY Zenon, <3>2 DEF RunFits, Ownership!Fits, Pages, Ownership!Run
    <3>4. Ownership!Refuse(c)
        BY Zenon, <2>6, <3>1, <3>3 DEF Exhausted, Return, Ownership!Refuse
    <3> QED BY Zenon, <3>4 DEF Ownership!Next
  <2>7. ASSUME NEW phys \in PhysAddresses, NEW n \in Counts, Free(c, phys, n)
        PROVE  Ownership!Next
    <3>1. Pages(Frame(phys), n) \subseteq owned[c]
        BY Zenon, <2>7, FreeStep
    <3>2. Ownership!Release(c, Pages(Frame(phys), n))
        BY Zenon, <2>7, <3>1 DEF Free, MayFree, Ownership!Release
    <3> QED BY Zenon, <3>1, <3>2 DEF Ownership!Next
  <2>8. ASSUME NEW phys \in PhysAddresses, NEW n \in Counts, FreeRefused(c, phys, n)
        PROVE  UNCHANGED Ownership!vars
      BY Zenon, <2>8 DEF FreeRefused, vars, Ownership!vars
  <2>9. (\E r \in Requests : Ownership!Ask(c, r)) => Ownership!Next
      BY Zenon DEF Ownership!Next
  <2> QED BY Zenon, <1>2, <2>1, <2>2, <2>3, <2>4, <2>5, <2>6, <2>7, <2>8, <2>9 DEF Step
<1> QED BY Zenon, <1>1, <1>2 DEF Next

\* k_pmm_alloc_aligned and k_pmm_free_pages implement PageOwnership: a request
\* is refused only when no aligned run of free pages below its limit exists.
THEOREM Refinement == Spec => ImplementsPageOwnership
<1>1. Init => Ownership!Init
    BY Zenon DEF Init, Ownership!Init
<1> QED BY <1>1, Invariance, RefinementStep, PTL
        DEF Spec, ImplementsPageOwnership, Ownership!Spec
=============================================================================
