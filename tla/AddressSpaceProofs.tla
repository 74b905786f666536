------------------------- MODULE AddressSpaceProofs -------------------------
(***************************************************************************)
(* Proofs about AddressSpace for any fan-out, any number of slots, any     *)
(* page limit and any requests.                                            *)
(*                                                                         *)
(* What a step frees or counts depends on what an interrupted loop or load *)
(* did before.  The inductive invariant adds to the three properties what  *)
(* is true in between: which entries the loop in progress has made, that   *)
(* huge pages lie below next and exist only once the load is done, that    *)
(* every table and page lies in an owned slot, and how many pages a        *)
(* rollback of the load in progress would leave.                           *)
(***************************************************************************)
EXTENDS AddressSpace, Arithmetic, FiniteSetTheorems, TLAPS

Shape ==
    /\ used \in BOOLEAN
    /\ leaf \in [Addresses -> {"none", "lazy", "page"}]
    /\ tables \subseteq (1..3) \X Nat /\ IsFiniteSet(tables)
    /\ huge \subseteq {1} \X Nat /\ IsFiniteSet(huge)
    /\ next \in Nat /\ pages \in Nat
    /\ op \in [kind : {"none", "page", "lazy", "huge"}, base : Nat, n : Nat, done : Nat, at : BOOLEAN]
    /\ load \in [phase : {"fresh", "loading", "loaded"}, next : Nat, pages : Nat,
                 mapped : SUBSET Addresses]

\* A space that is not in use is empty.
UnusedEmpty ==
    ~used => /\ tables = {} /\ huge = {} /\ pages = 0
             /\ \A a \in Addresses : leaf[a] = "none"
             /\ op = IDLE /\ load = Fresh

\* free_user_tree visits the owned slots only: nothing lies outside them.
InOwnedSlots ==
    /\ used => 0 \in owned_slots
    /\ \A t \in tables \cup huge : Owned(t)
    /\ \A a \in Addresses : leaf[a] # "none" => Slot(a) \in owned_slots

\* The pages of the mapping loop in progress, and those it has mapped.
Extent == op.base..(op.base + op.n - 1)
Made == op.base..(Here - 1)

Multiple(x) == x = (x \div FAN) * FAN

LoopInv ==
    op # IDLE =>
        /\ used /\ op.kind # "none" /\ op.done <= op.n
        /\ \A a \in Extent : a \in Addresses /\ Slot(a) \in owned_slots
        /\ op.kind = "huge" =>
               /\ Multiple(op.base) /\ Multiple(op.n) /\ Multiple(op.done)
               /\ load.phase = "loaded" /\ ~op.at
               /\ \A a \in Made : Table(1, a) \in huge
        /\ op.kind # "huge" =>
               /\ \A a \in Made : leaf[a] = op.kind
               /\ \A a \in Extent : Table(1, a) \notin huge
        /\ ~op.at => next <= op.base /\ op.base + op.n <= LIMIT
        /\ load.phase = "loading" => ~op.at

\* as_map_at makes no huge page: those of as_alloc_ex lie below next.
HugeBelowNext ==
    /\ load.phase # "loaded" => huge = {}
    /\ \A h \in huge : \/ (h[2] + 1) * FAN <= next
                       \/ op.kind = "huge" /\ h[2] * FAN \in Made

Present == {a \in Addresses : leaf[a] # "none" \/ Table(1, a) \in huge}
Outside(from) == {a \in Present : ~ (a < LIMIT /\ a >= from)}

\* What a rollback would leave is counted in what it restores.
RollbackCounts ==
    load.phase = "loading" => /\ used /\ load.next <= next
                              /\ Cardinality(Outside(load.next)) <= load.pages

PageSet == {a \in Addresses : leaf[a] = "page"}

\* TreeWellFormed but for the entry the loop is at, which LoopInv covers.
Tree ==
    /\ \A t \in tables : t[1] = 3 \/ Table(t[1] + 1, t[2] * Span(t[1])) \in tables
    /\ \A a \in Addresses : leaf[a] # "none" => Table(1, a) \in tables
    /\ \A h \in huge : Table(2, h[2] * FAN) \in tables /\ h \notin tables

PresentCounted == Cardinality(Present) <= pages + op.done

IInv ==
    /\ Shape /\ UnusedEmpty /\ InOwnedSlots /\ LoopInv /\ HugeBelowNext /\ RollbackCounts
    /\ Tree /\ FramesAccounted /\ PresentCounted
-----------------------------------------------------------------------------
(***************************************************************************)
(* Spans, tables and paths.                                                *)
(***************************************************************************)
LEMMA Spans ==
    ASSUME AddressSpaceAssumption
    PROVE  /\ FAN \in Nat \ {0, 1} /\ SLOTS \in Nat \ {0} /\ FAN * FAN \in Nat \ {0}
           /\ Span(1) = FAN /\ Span(2) = FAN * FAN /\ Span(3) = FAN * FAN * FAN
           /\ \A l \in 1..3 : Span(l) \in Nat \ {0}
           /\ \A l \in 1..2 : Span(l + 1) = Span(l) * FAN
           /\ LIMIT = Span(3) /\ LIMIT \in Nat \ {0}
<1>1. FAN \in Nat \ {0, 1} /\ SLOTS \in Nat \ {0}
    BY Zenon DEF AddressSpaceAssumption
<1>2. FAN * FAN \in Nat \ {0}
    BY <1>1
<1>3. FAN * FAN * FAN \in Nat \ {0}
    BY <1>1, <1>2
<1>4. Span(1) = FAN /\ Span(2) = FAN * FAN /\ Span(3) = FAN * FAN * FAN
    BY DEF Span
<1>5. \A l \in 1..3 : l = 1 \/ l = 2 \/ l = 3
    OBVIOUS
<1>6. \A l \in 1..3 : Span(l) \in Nat \ {0}
    BY Zenon, <1>1, <1>2, <1>3, <1>4, <1>5
<1>7. \A l \in 1..2 : Span(l + 1) = Span(l) * FAN
  <2>1. Span(1 + 1) = Span(1) * FAN /\ Span(2 + 1) = Span(2) * FAN
      BY <1>4
  <2>2. \A l \in 1..2 : l = 1 \/ l = 2
      OBVIOUS
  <2> QED BY Zenon, <2>1, <2>2
<1> QED BY Zenon, <1>1, <1>2, <1>3, <1>4, <1>6, <1>7 DEF LIMIT

LEMMA AddressesFinite ==
    ASSUME AddressSpaceAssumption
    PROVE  Addresses \subseteq Nat /\ IsFiniteSet(Addresses)
<1>1. SLOTS * LIMIT \in Nat
    BY Spans
<1>2. 0 \in Int /\ SLOTS * LIMIT - 1 \in Int
    BY <1>1
<1> QED BY <1>1, <1>2, FS_Interval DEF Addresses

\* A table knows its parent and its slot.
LEMMA TableFacts ==
    ASSUME AddressSpaceAssumption, NEW a \in Nat, NEW l \in 1..3
    PROVE  /\ a \div Span(l) \in Nat
           /\ Table(l, a) = <<l, a \div Span(l)>>
           /\ l # 3 => Table(l + 1, (a \div Span(l)) * Span(l)) = Table(l + 1, a)
           /\ Slot((a \div Span(l)) * Span(l)) = Slot(a)
<1>1. Span(l) \in Nat \ {0} /\ FAN \in Nat \ {0} /\ FAN * FAN \in Nat \ {0}
    BY Zenon, Spans
<1>2. a \div Span(l) \in Nat
    BY Zenon, <1>1, DivBounds
<1>3. ASSUME l # 3 PROVE Table(l + 1, (a \div Span(l)) * Span(l)) = Table(l + 1, a)
  <2>1. Span(l + 1) = Span(l) * FAN
      BY <1>3, Spans
  <2>2. ((a \div Span(l)) * Span(l)) \div (Span(l) * FAN) = a \div (Span(l) * FAN)
      BY Zenon, <1>1, DivRounded
  <2> QED BY Zenon, <2>1, <2>2 DEF Table
<1>4. Slot((a \div Span(l)) * Span(l)) = Slot(a)
  <2>1. CASE l = 3
    <3>1. ((a \div Span(l)) * Span(l)) \div Span(l) = a \div Span(l)
        BY Zenon, <1>1, <1>2, DivMultiple
    <3> QED BY Zenon, <2>1, <3>1, Spans DEF Slot
  <2>2. CASE l = 2
    <3>1. ((a \div Span(l)) * Span(l)) \div (Span(l) * FAN) = a \div (Span(l) * FAN)
        BY Zenon, <1>1, DivRounded
    <3>2. LIMIT = Span(l) * FAN
        BY Zenon, <2>2, Spans
    <3> QED BY Zenon, <3>1, <3>2 DEF Slot
  <2>3. CASE l = 1
    <3>1. ((a \div Span(l)) * Span(l)) \div (Span(l) * (FAN * FAN)) = a \div (Span(l) * (FAN * FAN))
        BY Zenon, <1>1, DivRounded
    <3>2. LIMIT = FAN * FAN * FAN /\ Span(l) = FAN
        BY Zenon, <2>3, Spans
    <3>3. FAN * FAN * FAN = FAN * (FAN * FAN)
        BY <1>1
    <3> QED BY Zenon, <3>1, <3>2, <3>3 DEF Slot
  <2> QED BY <2>1, <2>2, <2>3
<1> QED BY Zenon, <1>2, <1>3, <1>4 DEF Table

\* The parent of entry i of level l.
LEMMA ParentFacts ==
    ASSUME AddressSpaceAssumption, NEW i \in Nat, NEW l \in 1..2
    PROVE  Table(l + 1, i * Span(l)) = <<l + 1, i \div FAN>>
<1>1. Span(l) \in Nat \ {0} /\ FAN \in Nat \ {0} /\ Span(l + 1) = Span(l) * FAN
    BY Spans
<1>2. i * Span(l) \in Nat /\ (i * Span(l)) \div Span(l) = i
    BY Zenon, <1>1, DivMultiple
<1>3. (i * Span(l)) \div (Span(l) * FAN) = ((i * Span(l)) \div Span(l)) \div FAN
    BY Zenon, <1>1, <1>2, DivDiv
<1> QED BY Zenon, <1>1, <1>2, <1>3 DEF Table

\* The entry that maps a page, and the first page of an entry.
LEMMA EntryFacts ==
    ASSUME AddressSpaceAssumption
    PROVE  /\ \A a \in Nat : /\ Table(1, a) = <<1, a \div FAN>> /\ a \div FAN \in Nat
                             /\ (a \div FAN) * FAN <= a /\ a < (a \div FAN) * FAN + FAN
                             /\ (a \div FAN) * FAN \in Nat
           /\ \A q \in Nat : /\ q * FAN \in Nat /\ Table(1, q * FAN) = <<1, q>>
                             /\ (q + 1) * FAN = q * FAN + FAN
<1>1. FAN \in Nat \ {0} /\ Span(1) = FAN
    BY Zenon, Spans
<1>2. \A a \in Nat : /\ a \div FAN \in Nat /\ (a \div FAN) * FAN <= a
                     /\ a < (a \div FAN) * FAN + FAN
    BY Zenon, <1>1, DivBounds
<1>3. \A q \in Nat : q * FAN \in Nat /\ (q * FAN) \div FAN = q /\ (q + 1) * FAN = q * FAN + FAN
    BY <1>1, DivMultiple
<1> QED BY Zenon, <1>1, <1>2, <1>3 DEF Table

\* The tables on the way to an address.
LEMMA PathFacts ==
    ASSUME AddressSpaceAssumption, NEW a \in Nat, NEW l \in 1..4
    PROVE  /\ Path(l, a) \subseteq (1..3) \X Nat /\ IsFiniteSet(Path(l, a))
           /\ \A t \in Path(l, a) : /\ t[1] >= l /\ t = Table(t[1], a)
                                    /\ t[1] = 3 \/ Table(t[1] + 1, t[2] * Span(t[1])) \in Path(l, a)
                                    /\ Slot(t[2] * Span(t[1])) = Slot(a)
           /\ \A k \in l..3 : Table(k, a) \in Path(l, a)
<1>1. \A k \in l..3 : Table(k, a) \in Path(l, a)
    BY Zenon DEF Path
<1>2. ASSUME NEW t \in Path(l, a)
      PROVE  /\ t \in (1..3) \X Nat /\ t[1] >= l /\ t = Table(t[1], a)
             /\ t[1] = 3 \/ Table(t[1] + 1, t[2] * Span(t[1])) \in Path(l, a)
             /\ Slot(t[2] * Span(t[1])) = Slot(a)
  <2>1. PICK k \in l..3 : t = Table(k, a)
      BY Zenon DEF Path
  <2>2. k \in 1..3 /\ k >= l /\ (k # 3 => k + 1 \in l..3)
      OBVIOUS
  <2>3. /\ a \div Span(k) \in Nat /\ t = <<k, a \div Span(k)>>
        /\ k # 3 => Table(k + 1, (a \div Span(k)) * Span(k)) = Table(k + 1, a)
        /\ Slot((a \div Span(k)) * Span(k)) = Slot(a)
      BY Zenon, <2>1, <2>2, TableFacts
  <2>4. t[1] = k /\ t[2] = a \div Span(k) /\ t \in (1..3) \X Nat
      BY Zenon, <2>2, <2>3
  <2>5. t[1] = 3 \/ Table(t[1] + 1, t[2] * Span(t[1])) \in Path(l, a)
      BY Zenon, <1>1, <2>2, <2>3, <2>4
  <2> QED BY Zenon, <2>1, <2>2, <2>3, <2>4, <2>5
<1>3. IsFiniteSet(Path(l, a))
  <2>1. IsFiniteSet(l..3)
      BY FS_Interval
  <2>2. \A k \in l..3 : \E t \in Path(l, a) : t = Table(k, a)
      BY Zenon, <1>1
  <2> DEFINE f == [k \in l..3 |-> Table(k, a)]
  <2>3. f \in [l..3 -> Path(l, a)] /\ \A t \in Path(l, a) : \E k \in l..3 : f[k] = t
      BY Zenon DEF Path
  <2>4. f \in Surjection(l..3, Path(l, a))
      BY Zenon, <2>3 DEF Surjection
  <2> QED BY Zenon, <2>1, <2>4, FS_Surjection
<1> QED BY Zenon, <1>1, <1>2, <1>3

\* Multiples of FAN, where huge pages begin.
LEMMA MultipleFacts ==
    ASSUME AddressSpaceAssumption
    PROVE  /\ \A q \in Nat : Multiple(q * FAN)
           /\ \A x \in Nat : x % FAN = 0 => Multiple(x)
           /\ \A x, y \in Nat : Multiple(x) /\ Multiple(y) =>
                  /\ Multiple(x + y) /\ Multiple(x * y)
                  /\ x < y => x + FAN <= y
<1>1. FAN \in Nat \ {0}
    BY Zenon, Spans
<1>2. ASSUME NEW q \in Nat PROVE Multiple(q * FAN)
    BY Zenon, <1>1, DivMultiple DEF Multiple
<1>3. ASSUME NEW x \in Nat, x % FAN = 0 PROVE Multiple(x)
    BY <1>1, <1>3 DEF Multiple
<1>4. ASSUME NEW x \in Nat, NEW y \in Nat, Multiple(x), Multiple(y)
      PROVE  /\ Multiple(x + y) /\ Multiple(x * y)
             /\ x < y => x + FAN <= y
  <2> DEFINE i == x \div FAN
             j == y \div FAN
  <2>1. i \in Nat /\ j \in Nat /\ x = i * FAN /\ y = j * FAN
      BY Zenon, <1>1, <1>4, DivBounds DEF Multiple
  <2> HIDE DEF i, j
  <2>2. x + y = (i + j) * FAN /\ x * y = (x * j) * FAN /\ x * j \in Nat
      BY <1>1, <2>1
  <2>3. Multiple(x + y) /\ Multiple(x * y)
      BY <1>2, <2>1, <2>2
  <2>4. ASSUME x < y PROVE x + FAN <= y
    <3>1. i + 1 <= j
      <4>1. SUFFICES ASSUME j <= i PROVE FALSE
          BY <2>1
      <4>2. j * FAN <= i * FAN
          BY Zenon, <1>1, <2>1, <4>1, ProductMonotone
      <4> QED BY <2>1, <2>4, <4>2
    <3>2. (i + 1) * FAN <= j * FAN
        BY <1>1, <2>1, <3>1, ProductMonotone
    <3>3. (i + 1) * FAN = i * FAN + FAN
        BY <1>1, <2>1
    <3> QED BY Zenon, <2>1, <3>2, <3>3
  <2> QED BY Zenon, <2>3, <2>4
<1> QED BY Zenon, <1>2, <1>3, <1>4

\* A set that grows, and one that shrinks.
LEMMA Grows ==
    ASSUME NEW S, NEW T, IsFiniteSet(S), IsFiniteSet(T)
    PROVE  /\ IsFiniteSet(S \cup T) /\ Cardinality(S) \in Nat /\ Cardinality(T \ S) \in Nat
           /\ Cardinality(S \cup T) = Cardinality(S) + Cardinality(T \ S)
<1>1. IsFiniteSet(T \ S) /\ S \cap (T \ S) = {} /\ S \cup T = S \cup (T \ S)
    BY Zenon, FS_Difference
<1>2. /\ IsFiniteSet(S \cup (T \ S))
      /\ Cardinality(S \cup (T \ S)) =
             Cardinality(S) + Cardinality(T \ S) - Cardinality(S \cap (T \ S))
    BY Zenon, <1>1, FS_Union
<1>3. Cardinality(S) \in Nat /\ Cardinality(T \ S) \in Nat /\ Cardinality({}) = 0
    BY Zenon, <1>1, FS_CardinalityType, FS_EmptySet
<1>4. Cardinality(S \cap (T \ S)) = 0
    BY Zenon, <1>1, <1>3
<1>5. Cardinality(S \cup (T \ S)) = Cardinality(S) + Cardinality(T \ S)
    BY <1>2, <1>3, <1>4
<1> QED BY Zenon, <1>1, <1>2, <1>3, <1>5

LEMMA Shrinks ==
    ASSUME NEW S, NEW T, IsFiniteSet(S), T \subseteq S
    PROVE  /\ IsFiniteSet(T) /\ IsFiniteSet(S \ T)
           /\ Cardinality(S) \in Nat /\ Cardinality(T) \in Nat /\ Cardinality(T) <= Cardinality(S)
           /\ Cardinality(S \ T) = Cardinality(S) - Cardinality(T)
<1>1. IsFiniteSet(T) /\ Cardinality(T) <= Cardinality(S)
    BY Zenon, FS_Subset
<1>2. S \cap T = T
    BY Zenon
<1>3. /\ IsFiniteSet(S \ T)
      /\ Cardinality(S \ T) = Cardinality(S) - Cardinality(S \cap T)
    BY Zenon, FS_Difference
<1> QED BY Zenon, <1>1, <1>2, <1>3, FS_CardinalityType

LEMMA OneMore ==
    ASSUME NEW S, IsFiniteSet(S), NEW x, x \notin S
    PROVE  IsFiniteSet(S \cup {x}) /\ Cardinality(S \cup {x}) = Cardinality(S) + 1
BY Zenon, FS_AddElement

LEMMA RunLength ==
    ASSUME NEW a \in Nat, NEW n \in Nat
    PROVE  IsFiniteSet(a..(a + n - 1)) /\ Cardinality(a..(a + n - 1)) = n
<1> DEFINE b == a + n - 1
<1>1. a \in Int /\ b \in Int /\ (IF a > b THEN 0 ELSE b - a + 1) = n
    OBVIOUS
<1> HIDE DEF b
<1>2. IsFiniteSet(a..b) /\ Cardinality(a..b) = IF a > b THEN 0 ELSE b - a + 1
    BY Zenon, <1>1, FS_Interval
<1>3. IsFiniteSet(a..b) /\ Cardinality(a..b) = n
    BY Zenon, <1>1, <1>2
<1> QED BY Zenon, <1>3 DEF b

\* The frames of one more huge page.
LEMMA OneMoreTimes ==
    ASSUME NEW m \in Nat, NEW n \in Nat
    PROVE  m * n \in Nat /\ m * (n + 1) = m * n + m
OBVIOUS

\* Tables and frames of huge pages are counted by natural numbers.
LEMMA FrameCounts ==
    ASSUME AddressSpaceAssumption, Shape
    PROVE  Cardinality(tables) \in Nat /\ Cardinality(huge) \in Nat /\ FAN * Cardinality(huge) \in Nat
<1>1. Cardinality(tables) \in Nat /\ Cardinality(huge) \in Nat
    BY Zenon, FS_CardinalityType DEF Shape
<1>2. FAN \in Nat
    BY Spans
<1> QED BY Zenon, <1>1, <1>2, OneMoreTimes

\* The pages of the space are finitely many.
LEMMA PresentFinite ==
    ASSUME AddressSpaceAssumption
    PROVE  /\ IsFiniteSet(Present) /\ IsFiniteSet(PageSet)
           /\ Cardinality(Present) \in Nat /\ Cardinality(PageSet) \in Nat
           /\ \A from : IsFiniteSet(Outside(from)) /\ Outside(from) \subseteq Present
                       /\ Cardinality(Outside(from)) \in Nat
                       /\ Cardinality(Outside(from)) <= Cardinality(Present)
<1>1. Present \subseteq Addresses /\ PageSet \subseteq Addresses
    BY Zenon DEF Present, PageSet
<1>2. \A from : Outside(from) \subseteq Present
    BY Zenon DEF Outside
<1>3. IsFiniteSet(Present) /\ IsFiniteSet(PageSet)
    BY Zenon, <1>1, AddressesFinite, FS_Subset
<1> QED BY Zenon, <1>2, <1>3, FS_Subset, FS_CardinalityType
-----------------------------------------------------------------------------
LEMMA InitInv == ASSUME AddressSpaceAssumption, SpaceInit PROVE IInv
<1> USE DEF SpaceInit
<1>1. Present = {} /\ PageSet = {} /\ Cardinality({}) = 0 /\ IsFiniteSet({})
    BY Zenon, FS_EmptySet DEF Present, PageSet
<1>2. Shape
    BY Zenon, <1>1 DEF Shape, IDLE, Fresh
<1>3. UnusedEmpty /\ InOwnedSlots /\ LoopInv /\ HugeBelowNext /\ RollbackCounts /\ Tree
    BY Zenon DEF UnusedEmpty, InOwnedSlots, LoopInv, HugeBelowNext, RollbackCounts, Tree, Fresh
<1>4. FramesAccounted /\ PresentCounted
    BY <1>1 DEF FramesAccounted, PresentCounted, IDLE
<1> QED BY Zenon, <1>2, <1>3, <1>4 DEF IInv

\* Steps that leave the tree alone.
LEMMA SameTree ==
    ASSUME UNCHANGED <<tables, leaf, huge>>
    PROVE  /\ Present' = Present /\ PageSet' = PageSet /\ Tree' = Tree
           /\ \A from : Outside(from)' = Outside(from)
<1>1. Present' = Present /\ PageSet' = PageSet
    BY Zenon DEF Present, PageSet
<1>2. \A from : Outside(from)' = Outside(from)
    BY Zenon, <1>1 DEF Outside
<1> QED BY Zenon, <1>1, <1>2 DEF Tree

LEMMA SameFrames ==
    ASSUME FramesAccounted, UNCHANGED <<used, held, tables, leaf, huge>>
    PROVE  FramesAccounted'
BY Zenon DEF FramesAccounted

\* as_create, and the first half of a load.
LEMMA CreateStep ==
    ASSUME AddressSpaceAssumption, IInv, as_create \/ LoadBegin \/ LoadDone
    PROVE  IInv'
<1>1. CASE as_create
  <2> USE <1>1 DEF as_create
  <2>1. /\ ~used /\ used' /\ owned_slots' = {0} /\ tables = {} /\ huge = {} /\ pages = 0 /\ op = IDLE
        /\ load = Fresh /\ \A a \in Addresses : leaf[a] = "none"
      BY Zenon DEF IInv, UnusedEmpty
  <2>2. Shape'
      BY Zenon, Spans DEF IInv, Shape, START
  <2>3. UnusedEmpty' /\ InOwnedSlots' /\ LoopInv' /\ HugeBelowNext' /\ RollbackCounts'
      BY Zenon, <2>1 DEF UnusedEmpty, InOwnedSlots, LoopInv, HugeBelowNext, RollbackCounts, Fresh
  <2>4. Tree'
      BY Zenon, SameTree DEF IInv
  <2>5. FramesAccounted'
    <3>1. Cardinality(tables) = 0 /\ Cardinality(huge) = 0 /\ PageSet = {} /\ Cardinality(PageSet) = 0
        BY Zenon, <2>1, FS_EmptySet DEF PageSet
    <3>2. held' = 1 /\ FAN * 0 = 0
        BY <2>1, Spans DEF IInv, FramesAccounted
    <3>3. PageSet' = PageSet
        BY Zenon, SameTree
    <3> QED BY <2>1, <3>1, <3>2, <3>3 DEF FramesAccounted, PageSet
  <2>6. PresentCounted'
      BY Zenon, SameTree DEF IInv, PresentCounted
  <2> QED BY Zenon, <2>2, <2>3, <2>4, <2>5, <2>6 DEF IInv
<1>2. CASE LoadBegin
  <2>1. /\ used /\ op = IDLE /\ load.phase = "fresh" /\ UNCHANGED <<used, tables, leaf, huge, owned_slots, next, pages, held, op>>
        /\ load' = [phase |-> "loading", next |-> next, pages |-> pages, mapped |-> Mapped]
      BY Zenon, <1>2 DEF LoadBegin, Idle
  <2>2. Shape'
    <3>1. Mapped \subseteq Addresses
        BY Zenon DEF Mapped
    <3> QED BY Zenon, <2>1, <3>1 DEF IInv, Shape
  <2>3. UnusedEmpty' /\ InOwnedSlots' /\ LoopInv' /\ HugeBelowNext'
      BY Zenon, <2>1 DEF IInv, UnusedEmpty, InOwnedSlots, LoopInv, HugeBelowNext, Owned, Made, Here
  <2>4. Tree' /\ PresentCounted'
      BY Zenon, <2>1, SameTree DEF IInv, PresentCounted
  <2>5. FramesAccounted'
      BY Zenon, <2>1, SameFrames DEF IInv
  <2>6. RollbackCounts'
    <3>1. Cardinality(Outside(next)) <= Cardinality(Present) /\ Cardinality(Present) <= pages + 0
        BY Zenon, <2>1, PresentFinite DEF IInv, PresentCounted, IDLE
    <3>2. Outside(next)' = Outside(next)
        BY Zenon, <2>1, SameTree DEF Outside
    <3>3. /\ Cardinality(Outside(next)) \in Nat /\ Cardinality(Present) \in Nat
          /\ pages \in Nat /\ next \in Nat
        BY Zenon, PresentFinite DEF IInv, Shape
    <3>4. Cardinality(Outside(next)) <= pages
        BY <3>1, <3>3
    <3> QED BY <2>1, <3>2, <3>3, <3>4 DEF RollbackCounts
  <2> QED BY Zenon, <2>2, <2>3, <2>4, <2>5, <2>6 DEF IInv
<1>3. CASE LoadDone
  <2>1. /\ used /\ op = IDLE /\ UNCHANGED <<used, tables, leaf, huge, owned_slots, next, pages, held, op>>
        /\ load.phase = "loading" /\ load' = [phase |-> "loaded", next |-> 0, pages |-> 0, mapped |-> {}]
      BY Zenon, <1>3 DEF LoadDone, Idle, Fresh
  <2>2. Shape'
      BY Zenon, <2>1 DEF IInv, Shape
  <2>3. UnusedEmpty' /\ InOwnedSlots' /\ LoopInv' /\ HugeBelowNext' /\ RollbackCounts'
      BY Zenon, <2>1 DEF IInv, UnusedEmpty, InOwnedSlots, LoopInv, HugeBelowNext, Owned, RollbackCounts
  <2>4. Tree' /\ PresentCounted'
      BY Zenon, <2>1, SameTree DEF IInv, PresentCounted
  <2>5. FramesAccounted'
      BY Zenon, <2>1, SameFrames DEF IInv
  <2> QED BY Zenon, <2>2, <2>3, <2>4, <2>5 DEF IInv
<1> QED BY Zenon, <1>1, <1>2, <1>3

\* The slot of the pages of an allocation, and of a window inside one slot.
LEMMA SlotFacts ==
    ASSUME AddressSpaceAssumption
    PROVE  /\ \A a \in Nat : a < LIMIT => a \in Addresses /\ Slot(a) = 0
           /\ \A a, b, c \in Nat : a <= b /\ b <= c /\ Slot(a) = Slot(c) => Slot(b) = Slot(a)
<1>1. LIMIT \in Nat \ {0} /\ SLOTS \in Nat \ {0}
    BY Zenon, Spans
<1>2. LIMIT <= SLOTS * LIMIT /\ SLOTS * LIMIT \in Nat
  <2>1. 1 * LIMIT <= SLOTS * LIMIT /\ SLOTS * LIMIT \in Nat /\ 1 * LIMIT = LIMIT
      BY <1>1, ProductMonotone
  <2> QED BY Zenon, <2>1
<1>3. ASSUME NEW a \in Nat, a < LIMIT PROVE a \in Addresses /\ Slot(a) = 0
  <2>1. 0 * LIMIT <= a /\ a < 0 * LIMIT + LIMIT
      BY <1>1, <1>3
  <2>2. a \div LIMIT = 0
      BY Zenon, <1>1, <2>1, DivUnique
  <2>3. a \in Addresses
      BY <1>1, <1>2, <1>3 DEF Addresses
  <2> QED BY Zenon, <2>2, <2>3 DEF Slot
<1>4. ASSUME NEW a \in Nat, NEW b \in Nat, NEW c \in Nat, a <= b, b <= c, Slot(a) = Slot(c)
      PROVE  Slot(b) = Slot(a)
  <2>1. Slot(a) <= Slot(b) /\ Slot(b) <= Slot(c)
      BY Zenon, <1>1, <1>4, DivMonotone DEF Slot
  <2>2. Slot(a) \in Nat /\ Slot(b) \in Nat
      BY Zenon, <1>1, DivBounds DEF Slot
  <2> QED BY <1>4, <2>1, <2>2
<1> QED BY Zenon, <1>3, <1>4

\* ALIGN_UP of next, and of a huge page's boundary.
LEMMA AlignFacts ==
    ASSUME AddressSpaceAssumption, NEW x \in Nat, NEW m \in Nat \ {0}
    PROVE  /\ ALIGN_UP(x, m) \in Nat /\ x <= ALIGN_UP(x, m)
           /\ Multiple(m) => Multiple(ALIGN_UP(x, m))
<1> DEFINE q == (x + m - 1) \div m
<1>1. q \in Nat /\ x <= q * m /\ q * m \in Nat
    BY Zenon, RoundUp
<1>2. ALIGN_UP(x, m) = q * m
    BY Zenon DEF ALIGN_UP
<1> HIDE DEF q
<1>3. ASSUME Multiple(m) PROVE Multiple(q * m)
  <2> DEFINE j == m \div FAN
  <2>1. j \in Nat /\ m = j * FAN /\ FAN \in Nat
      BY Zenon, <1>3, Spans, DivBounds DEF Multiple
  <2> HIDE DEF j
  <2>2. q * m = (q * j) * FAN /\ q * j \in Nat
      BY <1>1, <2>1
  <2> QED BY Zenon, <2>2, MultipleFacts
<1> QED BY Zenon, <1>1, <1>2, <1>3

\* What every operation keeps when it only opens a loop: the rest of the
\* invariant does not speak of op when no loop is in progress.
LEMMA OpenLoop ==
    ASSUME AddressSpaceAssumption, IInv, Idle,
           NEW kind \in {"page", "lazy", "huge"}, NEW v \in Nat, NEW n \in Nat, NEW at \in BOOLEAN,
           op' = [kind |-> kind, base |-> v, n |-> n, done |-> 0, at |-> at],
           UNCHANGED <<used, tables, leaf, huge, next, pages, held, load>>,
           owned_slots \subseteq owned_slots',
           \A a \in v..(v + n - 1) : a \in Addresses /\ Slot(a) \in owned_slots',
           kind = "huge" => Multiple(v) /\ Multiple(n) /\ load.phase = "loaded" /\ ~at,
           kind # "huge" => \A a \in v..(v + n - 1) : Table(1, a) \notin huge,
           ~at => next <= v /\ v + n <= LIMIT,
           load.phase = "loading" => ~at
    PROVE  IInv'
<1>1. /\ op.kind = "none" /\ op.done = 0 /\ used
      /\ op'.kind = kind /\ op'.base = v /\ op'.n = n /\ op'.done = 0 /\ op'.at = at
    BY Zenon DEF Idle, IDLE
<1>2. Shape'
    BY Zenon, <1>1 DEF IInv, Shape
<1>3. UnusedEmpty'
    BY Zenon, <1>1 DEF UnusedEmpty
<1>4. InOwnedSlots'
    BY Zenon DEF IInv, InOwnedSlots, Owned
<1>5. LoopInv'
  <2>1. Extent' = v..(v + n - 1) /\ Made' = {}
    <3>1. Here' = v
        BY <1>1 DEF Here
    <3>2. v..(v - 1) = {}
        OBVIOUS
    <3> QED BY Zenon, <1>1, <3>1, <3>2 DEF Extent, Made
  <2>2. Multiple(0)
      BY Spans, DivMultiple DEF Multiple
  <2> QED BY <1>1, <2>1, <2>2 DEF LoopInv
<1>6. HugeBelowNext'
    BY Zenon, <1>1 DEF IInv, HugeBelowNext
<1>7. RollbackCounts'
    BY Zenon, <1>1, SameTree DEF IInv, RollbackCounts, Outside
<1>8. Tree'
    BY Zenon, SameTree DEF IInv
<1>9. FramesAccounted'
    BY Zenon, SameFrames DEF IInv
<1>10. PresentCounted'
    BY Zenon, <1>1, SameTree DEF IInv, PresentCounted
<1> QED BY <1>2, <1>3, <1>4, <1>5, <1>6, <1>7, <1>8, <1>9, <1>10 DEF IInv

\* as_alloc and as_alloc_ex start above everything huge, in the first slot.
LEMMA AllocStep ==
    ASSUME AddressSpaceAssumption, IInv, NEW kind \in {"page", "lazy", "huge"},
           NEW n \in Sizes, NEW m \in Boundaries, AllocBegin(kind, n, m)
    PROVE  IInv'
<1> DEFINE b == IF m < Unit(kind) THEN Unit(kind) ELSE m
           v == ALIGN_UP(next, b)
<1>1. n \in Nat \ {0} /\ m \in Nat \ {0} /\ (m < FAN \/ m % FAN = 0) /\ FAN \in Nat \ {0, 1}
    BY Zenon DEF AddressSpaceAssumption
<1>2. /\ Idle /\ n % Unit(kind) = 0 /\ v + n + 1 <= LIMIT
      /\ load.phase = "loaded" \/ kind = "page"
      /\ op' = [kind |-> kind, base |-> v, n |-> n, done |-> 0, at |-> FALSE]
      /\ UNCHANGED <<used, tables, leaf, huge, owned_slots, next, pages, held, load>>
    BY Zenon DEF AllocBegin
<1>3. b \in Nat \ {0} /\ (kind = "huge" => Multiple(b) /\ Multiple(n))
  <2>1. CASE kind = "huge"
    <3>1. n % FAN = 0 /\ (b = FAN \/ (b = m /\ m % FAN = 0))
        BY Zenon, <1>1, <1>2, <2>1 DEF Unit
    <3>2. FAN = 1 * FAN
        BY <1>1
    <3>3. Multiple(FAN)
        BY Zenon, <3>2, MultipleFacts
    <3> QED BY Zenon, <1>1, <3>1, <3>3, MultipleFacts
  <2>2. CASE kind # "huge"
      BY <1>1, <2>2 DEF Unit
  <2> QED BY Zenon, <2>1, <2>2
<1> HIDE DEF b
<1>4. next \in Nat /\ LIMIT \in Nat
    BY Zenon, Spans DEF IInv, Shape
<1>5. v \in Nat /\ next <= v /\ (kind = "huge" => Multiple(v))
    BY Zenon, <1>3, <1>4, AlignFacts
<1> HIDE DEF v
<1>6. \A a \in v..(v + n - 1) : a \in Nat /\ next <= a /\ a < LIMIT
    BY <1>1, <1>2, <1>4, <1>5
<1>7. \A a \in v..(v + n - 1) : a \in Addresses /\ Slot(a) \in owned_slots
  <2>1. 0 \in owned_slots
      BY Zenon, <1>2 DEF IInv, InOwnedSlots, Idle
  <2> QED BY Zenon, <1>6, <2>1, SlotFacts
<1>8. ASSUME NEW a \in v..(v + n - 1) PROVE Table(1, a) \notin huge
  <2>1. SUFFICES ASSUME Table(1, a) \in huge PROVE FALSE
      BY Zenon
  <2>2. a \in Nat /\ next <= a
      BY Zenon, <1>6
  <2>3. Table(1, a) = <<1, a \div FAN>> /\ a < (a \div FAN) * FAN + FAN /\ a \div FAN \in Nat
      BY Zenon, <2>2, EntryFacts
  <2>4. op.kind = "none"
      BY Zenon, <1>2 DEF Idle, IDLE
  <2>5. ((a \div FAN) + 1) * FAN <= next
    <3>1. (Table(1, a)[2] + 1) * FAN <= next
        BY Zenon, <2>1, <2>4 DEF IInv, HugeBelowNext
    <3> QED BY <2>3, <3>1
  <2>6. ((a \div FAN) + 1) * FAN = (a \div FAN) * FAN + FAN /\ (a \div FAN) * FAN \in Nat
      BY Zenon, <2>2, <2>3, EntryFacts
  <2> QED BY <1>1, <1>4, <2>2, <2>3, <2>5, <2>6
<1>9. v + n <= LIMIT
    BY <1>1, <1>2, <1>4, <1>5
<1> QED BY Zenon, <1>1, <1>2, <1>3, <1>5, <1>7, <1>8, <1>9, OpenLoop

\* as_map_at finds its window free of huge pages and adds its slot.
LEMMA MapAtStep ==
    ASSUME AddressSpaceAssumption, IInv, NEW a \in Windows, NEW n \in Sizes, MapAtBegin(a, n)
    PROVE  IInv'
<1>1. a \in Nat /\ n \in Nat \ {0}
    BY Zenon DEF AddressSpaceAssumption
<1>2. /\ Idle /\ load.phase # "loading" /\ Slot(a) = Slot(a + n - 1) /\ a + n - 1 \in Addresses
      /\ a..(a + n - 1) \cap Mapped = {} /\ owned_slots' = owned_slots \cup {Slot(a)}
      /\ op' = [kind |-> "page", base |-> a, n |-> n, done |-> 0, at |-> TRUE]
      /\ UNCHANGED <<used, tables, leaf, huge, next, pages, held, load>>
    BY Zenon DEF MapAtBegin
<1>3. ASSUME NEW x \in a..(a + n - 1)
      PROVE  x \in Addresses /\ Slot(x) \in owned_slots' /\ Table(1, x) \notin huge
  <2>1. x \in Nat /\ a <= x /\ x <= a + n - 1 /\ a + n - 1 \in Nat
      BY <1>1
  <2>2. Slot(x) = Slot(a)
      BY Zenon, <1>1, <1>2, <2>1, SlotFacts
  <2>3. x \in Addresses
    <3>1. SLOTS * LIMIT \in Nat
        BY Spans
    <3> QED BY <1>2, <2>1, <3>1 DEF Addresses
  <2> QED BY Zenon, <1>2, <2>2, <2>3 DEF Mapped
<1> QED BY Zenon, <1>1, <1>2, <1>3, OpenLoop

\* The loop is done: next moves past its pages and pages counts them.
LEMMA MapDoneStep ==
    ASSUME AddressSpaceAssumption, IInv, MapDone
    PROVE  IInv'
<1>1. /\ op # IDLE /\ op.done = op.n /\ op' = IDLE /\ pages' = pages + op.n
      /\ next' = IF op.at THEN next ELSE op.base + op.n + 1
      /\ UNCHANGED <<used, tables, leaf, huge, owned_slots, held, load>>
    BY Zenon DEF MapDone, Counted
<1>2. /\ op.base \in Nat /\ op.n \in Nat /\ op.done \in Nat /\ op.at \in BOOLEAN
      /\ next \in Nat /\ pages \in Nat
    BY Zenon DEF IInv, Shape
<1>3. next' \in Nat /\ next <= next' /\ (~op.at => next' = op.base + op.n + 1)
  <2>1. ~op.at => next <= op.base
      BY Zenon, <1>1 DEF IInv, LoopInv
  <2> QED BY <1>1, <1>2, <2>1
<1>4. Shape'
    BY <1>1, <1>2, <1>3 DEF IInv, Shape, IDLE
<1>5. UnusedEmpty'
    BY Zenon, <1>1 DEF IInv, UnusedEmpty, LoopInv
<1>6. InOwnedSlots'
    BY Zenon, <1>1 DEF IInv, InOwnedSlots, Owned
<1>7. LoopInv'
    BY Zenon, <1>1 DEF LoopInv
<1>8. HugeBelowNext'
  <2>1. load'.phase # "loaded" => huge' = {}
      BY Zenon, <1>1 DEF IInv, HugeBelowNext
  <2>2. ASSUME NEW h \in huge PROVE (h[2] + 1) * FAN <= next'
    <3>1. h[2] \in Nat /\ FAN \in Nat \ {0} /\ (h[2] + 1) * FAN = h[2] * FAN + FAN /\ h[2] * FAN \in Nat
      <4>1. h[2] \in Nat
          BY Zenon DEF IInv, Shape
      <4> QED BY Zenon, <4>1, Spans, EntryFacts
    <3>2. CASE (h[2] + 1) * FAN <= next
        BY <1>2, <1>3, <3>1, <3>2
    <3>3. CASE op.kind = "huge" /\ h[2] * FAN \in Made
      <4>1. h[2] * FAN < op.base + op.n
          BY <1>1, <1>2, <3>1, <3>3 DEF Made, Here
      <4>2. Multiple(op.base + op.n) /\ ~op.at
          BY Zenon, <1>1, <1>2, <3>3, MultipleFacts DEF IInv, LoopInv
      <4>3. h[2] * FAN + FAN <= op.base + op.n
        <5>1. Multiple(h[2] * FAN)
            BY Zenon, <3>1, MultipleFacts
        <5>2. op.base + op.n \in Nat
            BY <1>2
        <5> QED BY Zenon, <3>1, <4>1, <4>2, <5>1, <5>2, MultipleFacts
      <4> QED BY <1>2, <1>3, <3>1, <4>2, <4>3
    <3> QED BY Zenon, <3>2, <3>3 DEF IInv, HugeBelowNext
  <2> QED BY Zenon, <1>1, <2>1, <2>2 DEF HugeBelowNext
<1>9. RollbackCounts'
  <2>1. ASSUME load.phase = "loading"
        PROVE  used /\ load.next <= next /\ load.next \in Nat
               /\ Cardinality(Outside(load.next)) <= load.pages
      BY Zenon, <2>1 DEF IInv, RollbackCounts, Shape
  <2>2. Outside(load.next)' = Outside(load.next)
      BY Zenon, <1>1, SameTree DEF Outside
  <2> QED BY <1>1, <1>2, <1>3, <2>1, <2>2 DEF RollbackCounts
<1>10. Tree'
    BY Zenon, <1>1, SameTree DEF IInv
<1>11. FramesAccounted'
    BY Zenon, <1>1, SameFrames DEF IInv
<1>12. PresentCounted'
  <2>1. Present' = Present
      BY Zenon, <1>1, SameTree
  <2>2. Cardinality(Present) \in Nat /\ Cardinality(Present) <= pages + op.done
      BY Zenon, PresentFinite DEF IInv, PresentCounted
  <2>3. op'.done = 0
      BY Zenon, <1>1 DEF IDLE
  <2> QED BY <1>1, <1>2, <2>1, <2>2, <2>3 DEF PresentCounted
<1> QED BY Zenon, <1>4, <1>5, <1>6, <1>7, <1>8, <1>9, <1>10, <1>11, <1>12 DEF IInv

\* A lazy page gets its frame.
LEMMA FaultStep ==
    ASSUME AddressSpaceAssumption, IInv, NEW a \in Addresses, demand_fault(a)
    PROVE  IInv'
<1>1. /\ used /\ op = IDLE /\ leaf[a] = "lazy" /\ held' = held + 1
      /\ leaf' = [leaf EXCEPT ![a] = "page"]
      /\ UNCHANGED <<used, tables, huge, owned_slots, next, pages, op, load>>
    BY Zenon DEF demand_fault, Idle
<1>2. /\ leaf' \in [Addresses -> {"none", "lazy", "page"}] /\ leaf'[a] = "page"
      /\ \A x \in Addresses : x # a => leaf'[x] = leaf[x]
      /\ \A x \in Addresses : leaf'[x] # "none" <=> leaf[x] # "none"
    BY Zenon, <1>1 DEF IInv, Shape
<1>3. Present' = Present /\ PageSet' = PageSet \cup {a} /\ a \notin PageSet
    BY Zenon, <1>1, <1>2 DEF Present, PageSet
<1>4. Shape'
    BY Zenon, <1>1, <1>2 DEF IInv, Shape
<1>5. UnusedEmpty' /\ LoopInv' /\ HugeBelowNext'
    BY Zenon, <1>1 DEF IInv, UnusedEmpty, LoopInv, HugeBelowNext, Made, Here
<1>6. InOwnedSlots' /\ Tree'
    BY Zenon, <1>1, <1>2 DEF IInv, InOwnedSlots, Owned, Tree
<1>7. RollbackCounts' /\ PresentCounted'
    BY Zenon, <1>1, <1>3 DEF IInv, RollbackCounts, PresentCounted, Outside
<1>8. FramesAccounted'
  <2>1. Cardinality(PageSet') = Cardinality(PageSet) + 1 /\ Cardinality(PageSet) \in Nat
      BY Zenon, <1>3, PresentFinite, OneMore
  <2>2. held = 1 + Cardinality(tables) + Cardinality(PageSet) + FAN * Cardinality(huge)
      BY Zenon, <1>1 DEF IInv, FramesAccounted, PageSet
  <2>3. Cardinality(tables) \in Nat /\ FAN * Cardinality(huge) \in Nat
      BY Zenon, FrameCounts DEF IInv
  <2>4. held' = 1 + Cardinality(tables) + Cardinality(PageSet') + FAN * Cardinality(huge)
      BY <1>1, <2>1, <2>2, <2>3
  <2> QED BY Zenon, <1>1, <2>4 DEF FramesAccounted, PageSet
<1> QED BY Zenon, <1>4, <1>5, <1>6, <1>7, <1>8 DEF IInv
-----------------------------------------------------------------------------
(***************************************************************************)
(* The mapping loop.                                                       *)
(***************************************************************************)
LEMMA LoopFacts ==
    ASSUME AddressSpaceAssumption, IInv, Looping
    PROVE  /\ op # IDLE /\ used /\ op.kind \in {"page", "lazy", "huge"} /\ Level(op.kind) \in 1..2
           /\ op.base \in Nat /\ op.n \in Nat /\ op.done \in Nat /\ op.at \in BOOLEAN
           /\ Here \in Nat /\ Here = op.base + op.done /\ op.done < op.n
           /\ Here \in Extent /\ Here \in Addresses /\ Slot(Here) \in owned_slots
           /\ op.kind = "huge" => /\ Multiple(Here) /\ op.done + FAN <= op.n
                                  /\ Multiple(op.done + FAN)
<1>1. /\ op # IDLE /\ op.done < op.n /\ used /\ op.kind # "none" /\ op.done <= op.n
      /\ \A a \in Extent : a \in Addresses /\ Slot(a) \in owned_slots
    BY Zenon DEF Looping, IInv, LoopInv
<1>2. /\ op.base \in Nat /\ op.n \in Nat /\ op.done \in Nat /\ op.at \in BOOLEAN
      /\ op.kind \in {"none", "page", "lazy", "huge"}
    BY Zenon DEF IInv, Shape
<1>3. Here \in Nat /\ Here = op.base + op.done /\ Here \in Extent
    BY <1>1, <1>2 DEF Here, Extent
<1>4. ASSUME op.kind = "huge"
      PROVE  Multiple(Here) /\ op.done + FAN <= op.n /\ Multiple(op.done + FAN)
  <2>1. Multiple(op.base) /\ Multiple(op.n) /\ Multiple(op.done)
      BY Zenon, <1>1, <1>4 DEF IInv, LoopInv
  <2>2. FAN \in Nat /\ FAN = 1 * FAN
      BY Spans
  <2>3. Multiple(FAN)
    <3>1. Multiple(1 * FAN)
        BY Zenon, MultipleFacts, 1 \in Nat
    <3> QED BY Zenon, <2>2, <3>1
  <2> QED BY Zenon, <1>1, <1>2, <1>3, <2>1, <2>2, <2>3, MultipleFacts
<1> QED BY <1>1, <1>2, <1>3, <1>4 DEF Level

\* pt_child adds missing tables, from the root down.
LEMMA TablesGrow ==
    ASSUME AddressSpaceAssumption, IInv, Looping, NEW l \in 1..4,
           tables' = tables \cup Path(l, Here), owned_slots' = owned_slots
    PROVE  /\ tables' \subseteq (1..3) \X Nat /\ IsFiniteSet(tables')
           /\ \A t \in tables' : t[1] = 3 \/ Table(t[1] + 1, t[2] * Span(t[1])) \in tables'
           /\ \A t \in tables' : Owned(t)'
           /\ \A t \in tables' : t \in tables \/ (t[1] >= l /\ t = Table(t[1], Here))
           /\ Cardinality(tables) \in Nat /\ Missing(Path(l, Here)) \in Nat
           /\ Cardinality(tables') = Cardinality(tables) + Missing(Path(l, Here))
<1>1. Here \in Nat /\ Slot(Here) \in owned_slots
    BY Zenon, LoopFacts
<1>2. tables \subseteq (1..3) \X Nat /\ IsFiniteSet(tables)
    BY Zenon DEF IInv, Shape
<1>3. /\ Path(l, Here) \subseteq (1..3) \X Nat /\ IsFiniteSet(Path(l, Here))
      /\ \A t \in Path(l, Here) : /\ t[1] >= l /\ t = Table(t[1], Here)
                                  /\ t[1] = 3 \/ Table(t[1] + 1, t[2] * Span(t[1])) \in Path(l, Here)
                                  /\ Slot(t[2] * Span(t[1])) = Slot(Here)
    BY Zenon, <1>1, PathFacts
<1>4. /\ IsFiniteSet(tables') /\ Cardinality(tables) \in Nat /\ Missing(Path(l, Here)) \in Nat
      /\ Cardinality(tables') = Cardinality(tables) + Missing(Path(l, Here))
    BY Zenon, <1>2, <1>3, Grows DEF Missing
<1>5. \A t \in tables' : t[1] = 3 \/ Table(t[1] + 1, t[2] * Span(t[1])) \in tables'
    BY Zenon, <1>3 DEF IInv, Tree
<1>6. \A t \in tables' : Owned(t)'
  <2>1. \A t \in tables : Slot(t[2] * Span(t[1])) \in owned_slots
      BY Zenon DEF IInv, InOwnedSlots, Owned
  <2> QED BY Zenon, <1>1, <1>3, <2>1 DEF Owned
<1>7. \A t \in tables' : t \in tables \/ (t[1] >= l /\ t = Table(t[1], Here))
    BY Zenon, <1>3
<1>8. tables' \subseteq (1..3) \X Nat
    BY Zenon, <1>2, <1>3
<1> QED BY Zenon, <1>4, <1>5, <1>6, <1>7, <1>8

\* The fields of op after an iteration.
LEMMA OpAdvances ==
    ASSUME AddressSpaceAssumption, IInv, MapOne
    PROVE  /\ op'.kind = op.kind /\ op'.base = op.base /\ op'.n = op.n /\ op'.at = op.at
           /\ op'.done = op.done + Unit(op.kind) /\ op' # IDLE
           /\ op' \in [kind : {"none", "page", "lazy", "huge"}, base : Nat, n : Nat, done : Nat, at : BOOLEAN]
<1>1. Looping /\ op' = [op EXCEPT !.done = @ + Unit(op.kind)]
    BY Zenon DEF MapOne
<1>2. /\ op \in [kind : {"none", "page", "lazy", "huge"}, base : Nat, n : Nat, done : Nat, at : BOOLEAN]
      /\ op.kind \in {"page", "lazy", "huge"}
    BY Zenon, <1>1, LoopFacts DEF IInv, Shape
<1>3. /\ op'.kind = op.kind /\ op'.base = op.base /\ op'.n = op.n /\ op'.at = op.at
      /\ op'.done = op.done + Unit(op.kind)
    BY Zenon, <1>1, <1>2
<1>4. Unit(op.kind) \in Nat /\ op.done + Unit(op.kind) \in Nat
    BY <1>2, Spans DEF Unit
<1>5. op' \in [kind : {"none", "page", "lazy", "huge"}, base : Nat, n : Nat, done : Nat, at : BOOLEAN]
    BY Zenon, <1>1, <1>2, <1>4
<1>6. op' # IDLE
    BY <1>2, <1>3 DEF IDLE
<1> QED BY Zenon, <1>3, <1>5, <1>6

\* One iteration of as_alloc, as_map_at, or as_alloc_ex for lazy pages.
LEMMA MapSmallStep ==
    ASSUME AddressSpaceAssumption, IInv, MapOne, op.kind # "huge"
    PROVE  IInv'
<1>1. /\ Looping /\ leaf[Here] = "none" /\ tables' = tables \cup Path(1, Here)
      /\ leaf' = [leaf EXCEPT ![Here] = op.kind] /\ huge' = huge
      /\ held' = held + Missing(Path(1, Here)) + Frames(op.kind, 1)
      /\ UNCHANGED <<used, owned_slots, next, pages, load>>
    BY Zenon DEF MapOne, Occupied, Level, Unit
<1>2. /\ op # IDLE /\ used /\ op.kind \in {"page", "lazy"}
      /\ op.base \in Nat /\ op.n \in Nat /\ op.done \in Nat /\ op.at \in BOOLEAN
      /\ Here \in Nat /\ Here = op.base + op.done /\ op.done < op.n
      /\ Here \in Extent /\ Here \in Addresses /\ Slot(Here) \in owned_slots
    BY Zenon, <1>1, LoopFacts
<1>3. /\ op'.kind = op.kind /\ op'.base = op.base /\ op'.n = op.n /\ op'.at = op.at
      /\ op'.done = op.done + 1 /\ op' # IDLE
      /\ op' \in [kind : {"none", "page", "lazy", "huge"}, base : Nat, n : Nat, done : Nat, at : BOOLEAN]
    BY Zenon, OpAdvances DEF Unit
<1>4. /\ leaf' \in [Addresses -> {"none", "lazy", "page"}] /\ leaf'[Here] = op.kind
      /\ \A a \in Addresses : a # Here => leaf'[a] = leaf[a]
    BY Zenon, <1>1, <1>2 DEF IInv, Shape
<1>5. /\ tables' \subseteq (1..3) \X Nat /\ IsFiniteSet(tables')
      /\ \A t \in tables' : t[1] = 3 \/ Table(t[1] + 1, t[2] * Span(t[1])) \in tables'
      /\ \A t \in tables' : Owned(t)'
      /\ \A t \in tables' : t \in tables \/ (t[1] >= 1 /\ t = Table(t[1], Here))
      /\ Cardinality(tables) \in Nat /\ Missing(Path(1, Here)) \in Nat
      /\ Cardinality(tables') = Cardinality(tables) + Missing(Path(1, Here))
    BY <1>1, TablesGrow
<1>6. /\ Extent' = Extent /\ Made' = Made \cup {Here} /\ Made \subseteq Extent
      /\ \A a \in Made : a # Here
    BY <1>2, <1>3 DEF Extent, Made, Here
<1>7. Table(1, Here) \in tables' /\ Table(1, Here) \notin huge
  <2>1. Table(1, Here) \in Path(1, Here)
      BY <1>2, PathFacts
  <2>2. Table(1, Here) \notin huge
      BY Zenon, <1>2 DEF IInv, LoopInv
  <2> QED BY Zenon, <1>1, <2>1, <2>2
<1>8. Present' = Present \cup {Here} /\ Here \notin Present
    BY Zenon, <1>1, <1>2, <1>4, <1>7 DEF Present
<1>9. Shape'
    BY Zenon, <1>1, <1>3, <1>4, <1>5 DEF IInv, Shape
<1>10. UnusedEmpty'
    BY Zenon, <1>1, <1>2 DEF UnusedEmpty
<1>11. InOwnedSlots'
  <2>1. used' => 0 \in owned_slots'
      BY Zenon, <1>1 DEF IInv, InOwnedSlots
  <2>2. \A h \in huge' : Owned(h)'
      BY Zenon, <1>1 DEF IInv, InOwnedSlots, Owned
  <2>3. \A a \in Addresses : leaf'[a] # "none" => Slot(a) \in owned_slots'
      BY Zenon, <1>1, <1>2, <1>4 DEF IInv, InOwnedSlots
  <2> QED BY Zenon, <1>5, <2>1, <2>2, <2>3 DEF InOwnedSlots
<1>12. LoopInv'
  <2>1. \A a \in Made' : leaf'[a] = op'.kind
    <3>1. \A a \in Made : a \in Addresses /\ leaf[a] = op.kind
        BY Zenon, <1>2, <1>6 DEF IInv, LoopInv
    <3> QED BY Zenon, <1>3, <1>4, <1>6, <3>1
  <2>2. op'.done <= op'.n
      BY <1>2, <1>3
  <2>3. /\ \A a \in Extent : a \in Addresses /\ Slot(a) \in owned_slots /\ Table(1, a) \notin huge
        /\ ~op.at => next <= op.base /\ op.base + op.n <= LIMIT
        /\ load.phase = "loading" => ~op.at
      BY Zenon, <1>2 DEF IInv, LoopInv
  <2> QED BY <1>1, <1>2, <1>3, <1>6, <2>1, <2>2, <2>3 DEF LoopInv
<1>13. HugeBelowNext'
    BY Zenon, <1>1, <1>2 DEF IInv, HugeBelowNext
<1>14. RollbackCounts'
  <2>1. ASSUME load.phase = "loading" PROVE Outside(load.next)' = Outside(load.next)
    <3>1. load.next \in Nat /\ next \in Nat /\ LIMIT \in Nat
        BY Zenon, Spans DEF IInv, Shape
    <3>2. load.next <= next /\ next <= op.base /\ op.base + op.n <= LIMIT
        BY Zenon, <1>2, <2>1 DEF IInv, RollbackCounts, LoopInv
    <3>3. Here < LIMIT /\ Here >= load.next
        BY <1>2, <3>1, <3>2
    <3> QED BY Zenon, <1>1, <1>8, <3>3 DEF Outside
  <2> QED BY Zenon, <1>1, <2>1 DEF IInv, RollbackCounts
<1>15. Tree'
  <2>1. \A a \in Addresses : leaf'[a] # "none" => Table(1, a) \in tables'
      BY Zenon, <1>1, <1>4, <1>7 DEF IInv, Tree
  <2>2. ASSUME NEW h \in huge' PROVE Table(2, h[2] * FAN) \in tables' /\ h \notin tables'
    <3>1. h \in huge /\ h[1] = 1 /\ Table(2, h[2] * FAN) \in tables /\ h \notin tables
        BY Zenon, <1>1 DEF IInv, Tree, Shape
    <3>2. h \notin tables'
        BY Zenon, <1>5, <1>7, <3>1
    <3> QED BY Zenon, <1>1, <3>1, <3>2
  <2> QED BY Zenon, <1>5, <2>1, <2>2 DEF Tree
<1>16. FramesAccounted'
  <2>1. Cardinality(PageSet') = Cardinality(PageSet) + Frames(op.kind, 1) /\ Cardinality(PageSet) \in Nat
    <3>1. CASE op.kind = "page"
      <4>1. PageSet' = PageSet \cup {Here} /\ Here \notin PageSet
          BY Zenon, <1>1, <1>2, <1>4, <3>1 DEF PageSet
      <4> QED BY Zenon, <3>1, <4>1, PresentFinite, OneMore DEF Frames
    <3>2. CASE op.kind = "lazy"
      <4>1. PageSet' = PageSet
          BY Zenon, <1>1, <1>2, <1>4, <3>2 DEF PageSet
      <4> QED BY <3>2, <4>1, PresentFinite DEF Frames
    <3> QED BY Zenon, <1>2, <3>1, <3>2
  <2>2. held = 1 + Cardinality(tables) + Cardinality(PageSet) + FAN * Cardinality(huge)
      BY Zenon, <1>2 DEF IInv, FramesAccounted, PageSet
  <2>3. FAN * Cardinality(huge) \in Nat /\ Cardinality(PageSet) \in Nat /\ Frames(op.kind, 1) \in Nat
    <3>1. Frames(op.kind, 1) \in Nat
        BY DEF Frames
    <3> QED BY Zenon, <3>1, FrameCounts, PresentFinite DEF IInv
  <2>4. held' = 1 + Cardinality(tables') + Cardinality(PageSet') + FAN * Cardinality(huge)
      BY <1>1, <1>5, <2>1, <2>2, <2>3
  <2> QED BY Zenon, <1>1, <1>2, <2>4 DEF FramesAccounted, PageSet
<1>17. PresentCounted'
  <2>1. Cardinality(Present') = Cardinality(Present) + 1 /\ Cardinality(Present) \in Nat
      BY Zenon, <1>8, PresentFinite, OneMore
  <2>2. Cardinality(Present) <= pages + op.done /\ pages \in Nat
      BY Zenon DEF IInv, PresentCounted, Shape
  <2> QED BY <1>1, <1>2, <1>3, <2>1, <2>2 DEF PresentCounted
<1> QED BY Zenon, <1>9, <1>10, <1>11, <1>12, <1>13, <1>14, <1>15, <1>16, <1>17 DEF IInv

\* The pages of a huge page.
LEMMA HugePages ==
    ASSUME AddressSpaceAssumption, NEW x \in Nat, Multiple(x)
    PROVE  /\ Table(1, x) = <<1, x \div FAN>> /\ Table(1, x)[2] * FAN = x /\ Table(1, x) \in {1} \X Nat
           /\ \A a \in Nat : Table(1, a) = Table(1, x) <=> a \in x..(x + FAN - 1)
<1>1. /\ FAN \in Nat \ {0} /\ Table(1, x) = <<1, x \div FAN>> /\ x \div FAN \in Nat
      /\ x = (x \div FAN) * FAN
    BY Zenon, Spans, EntryFacts DEF Multiple
<1> DEFINE q == x \div FAN
<1>2. q \in Nat /\ x = q * FAN
    BY Zenon, <1>1
<1> HIDE DEF q
<1>3. ASSUME NEW a \in Nat PROVE a \div FAN = q <=> a \in x..(x + FAN - 1)
  <2>1. ASSUME a \in x..(x + FAN - 1) PROVE a \div FAN = q
    <3>1. q * FAN <= a /\ a < q * FAN + FAN
        BY <1>1, <1>2, <2>1
    <3> QED BY Zenon, <1>1, <1>2, <3>1, DivUnique
  <2>2. ASSUME a \div FAN = q PROVE a \in x..(x + FAN - 1)
    <3>1. q * FAN <= a /\ a < q * FAN + FAN
        BY Zenon, <1>1, <2>2, DivBounds
    <3> QED BY <1>1, <1>2, <3>1
  <2> QED BY Zenon, <2>1, <2>2
<1>4. \A a \in Nat : Table(1, a) = <<1, a \div FAN>>
    BY Zenon, EntryFacts
<1>5. \A a \in Nat : Table(1, a) = Table(1, x) <=> a \in x..(x + FAN - 1)
  <2> SUFFICES ASSUME NEW a \in Nat PROVE Table(1, a) = Table(1, x) <=> a \in x..(x + FAN - 1)
      BY Zenon
  <2>1. Table(1, a) = Table(1, x) <=> a \div FAN = q
      BY <1>1, <1>4 DEF q
  <2> QED BY Zenon, <1>3, <2>1
<1> QED BY <1>1, <1>5

\* One iteration of as_alloc_ex for huge pages.
LEMMA MapHugeStep ==
    ASSUME AddressSpaceAssumption, IInv, MapOne, op.kind = "huge"
    PROVE  IInv'
<1> DEFINE h0 == Table(1, Here)
           new == Here..(Here + FAN - 1)
<1>1. /\ Looping /\ h0 \notin tables /\ h0 \notin huge /\ tables' = tables \cup Path(2, Here)
      /\ huge' = huge \cup {h0}
      /\ held' = held + Missing(Path(2, Here)) + FAN
      /\ UNCHANGED <<used, owned_slots, next, pages, load>>
    BY Zenon DEF MapOne, Occupied, Level, Unit, Frames
<1>2. /\ op # IDLE /\ used /\ FAN \in Nat \ {0}
      /\ op.base \in Nat /\ op.n \in Nat /\ op.done \in Nat /\ op.at \in BOOLEAN
      /\ Here \in Nat /\ Here = op.base + op.done /\ op.done < op.n
      /\ Here \in Extent /\ Here \in Addresses /\ Slot(Here) \in owned_slots
      /\ Multiple(Here) /\ op.done + FAN <= op.n /\ Multiple(op.done + FAN)
    BY Zenon, <1>1, LoopFacts, Spans
<1>3. /\ op'.kind = "huge" /\ op'.base = op.base /\ op'.n = op.n /\ op'.at = op.at
      /\ op'.done = op.done + FAN /\ op' # IDLE
      /\ op' \in [kind : {"none", "page", "lazy", "huge"}, base : Nat, n : Nat, done : Nat, at : BOOLEAN]
    BY Zenon, OpAdvances DEF Unit
<1>4. leaf' = leaf
    BY Zenon, <1>2 DEF MapOne, IInv, Shape
<1>5. /\ tables' \subseteq (1..3) \X Nat /\ IsFiniteSet(tables')
      /\ \A t \in tables' : t[1] = 3 \/ Table(t[1] + 1, t[2] * Span(t[1])) \in tables'
      /\ \A t \in tables' : Owned(t)'
      /\ \A t \in tables' : t \in tables \/ (t[1] >= 2 /\ t = Table(t[1], Here))
      /\ Cardinality(tables) \in Nat /\ Missing(Path(2, Here)) \in Nat
      /\ Cardinality(tables') = Cardinality(tables) + Missing(Path(2, Here))
    BY <1>1, TablesGrow
<1>6. /\ h0 = <<1, Here \div FAN>> /\ h0[2] * FAN = Here /\ h0 \in {1} \X Nat /\ h0[1] = 1
      /\ \A a \in Nat : Table(1, a) = h0 <=> a \in new
    BY Zenon, <1>2, HugePages
<1> HIDE DEF h0
<1>7. Extent' = Extent /\ Made' = Made \cup new /\ Made \subseteq Extent
    BY <1>2, <1>3 DEF Extent, Made, Here
<1>8. Shape'
  <2>1. IsFiniteSet(huge') /\ huge' \subseteq {1} \X Nat
      BY Zenon, <1>1, <1>6, OneMore DEF IInv, Shape
  <2> QED BY Zenon, <1>1, <1>3, <1>4, <1>5, <2>1 DEF IInv, Shape
<1>9. UnusedEmpty'
    BY Zenon, <1>1, <1>2 DEF UnusedEmpty
<1>10. InOwnedSlots'
  <2>1. Slot(h0[2] * Span(h0[1])) \in owned_slots
    <3>1. Span(1) = FAN
        BY Zenon, Spans
    <3> QED BY Zenon, <1>2, <1>6, <3>1
  <2>2. \A h \in huge' : Owned(h)'
      BY Zenon, <1>1, <2>1 DEF IInv, InOwnedSlots, Owned
  <2> QED BY Zenon, <1>1, <1>4, <1>5, <2>2 DEF IInv, InOwnedSlots
<1>11. LoopInv'
  <2>1. /\ \A a \in Extent : a \in Addresses /\ Slot(a) \in owned_slots
        /\ ~op.at /\ next <= op.base /\ op.base + op.n <= LIMIT
        /\ Multiple(op.base) /\ Multiple(op.n) /\ load.phase = "loaded"
        /\ \A a \in Made : Table(1, a) \in huge
      BY Zenon, <1>2 DEF IInv, LoopInv
  <2>2. \A a \in Made' : Table(1, a) \in huge'
    <3>1. new \subseteq Nat
        BY <1>2
    <3> QED BY Zenon, <1>1, <1>6, <1>7, <2>1, <3>1
  <2> QED BY <1>1, <1>2, <1>3, <1>7, <2>1, <2>2 DEF LoopInv
<1>12. load.phase = "loaded"
    BY Zenon, <1>2 DEF IInv, LoopInv
<1>13. HugeBelowNext'
  <2>1. Here \in new
      BY <1>2
  <2>2. ASSUME NEW h \in huge' PROVE (h[2] + 1) * FAN <= next' \/ h[2] * FAN \in Made'
      BY Zenon, <1>1, <1>6, <1>7, <2>1 DEF IInv, HugeBelowNext
  <2> QED BY Zenon, <1>1, <1>3, <1>12, <2>2 DEF HugeBelowNext
<1>14. RollbackCounts'
    BY Zenon, <1>1, <1>12 DEF RollbackCounts
<1>15. Tree'
  <2>1. \A a \in Addresses : leaf'[a] # "none" => Table(1, a) \in tables'
      BY Zenon, <1>1, <1>4 DEF IInv, Tree
  <2>2. ASSUME NEW h \in huge' PROVE Table(2, h[2] * FAN) \in tables' /\ h \notin tables'
    <3>1. h[1] = 1 /\ h \notin tables
        BY Zenon, <1>1, <1>6 DEF IInv, Tree, Shape
    <3>2. h \notin tables'
        BY <1>5, <3>1
    <3>3. CASE h = h0
      <4>1. Table(2, Here) \in Path(2, Here)
          BY <1>2, PathFacts
      <4> QED BY Zenon, <1>1, <1>6, <3>2, <3>3, <4>1
    <3>4. CASE h \in huge
        BY Zenon, <1>1, <3>2, <3>4 DEF IInv, Tree
    <3> QED BY Zenon, <1>1, <3>3, <3>4
  <2> QED BY Zenon, <1>5, <2>1, <2>2 DEF Tree
<1>16. FramesAccounted'
  <2>1. PageSet' = PageSet
      BY Zenon, <1>4 DEF PageSet
  <2>2. held = 1 + Cardinality(tables) + Cardinality(PageSet) + FAN * Cardinality(huge)
      BY Zenon, <1>2 DEF IInv, FramesAccounted, PageSet
  <2>3. Cardinality(huge') = Cardinality(huge) + 1 /\ Cardinality(huge) \in Nat
      BY Zenon, <1>1, OneMore, FS_CardinalityType DEF IInv, Shape
  <2>4. FAN * Cardinality(huge') = FAN * Cardinality(huge) + FAN /\ FAN * Cardinality(huge) \in Nat
      BY Zenon, <1>2, <2>3, OneMoreTimes
  <2>5. Cardinality(PageSet) \in Nat
      BY Zenon, PresentFinite
  <2>6. held' = 1 + Cardinality(tables') + Cardinality(PageSet) + FAN * Cardinality(huge')
      BY <1>1, <1>2, <1>5, <2>2, <2>4, <2>5
  <2> QED BY Zenon, <1>1, <1>2, <2>1, <2>6 DEF FramesAccounted, PageSet
<1>17. PresentCounted'
  <2>1. Present' \subseteq Present \cup new
    <3>1. Addresses \subseteq Nat
        BY Zenon, AddressesFinite
    <3> QED BY Zenon, <1>1, <1>4, <1>6, <3>1 DEF Present
  <2>2. IsFiniteSet(new) /\ Cardinality(new) = FAN
      BY Zenon, <1>2, RunLength
  <2> HIDE DEF new
  <2>3. /\ IsFiniteSet(Present \cup new)
        /\ Cardinality(Present \cup new) = Cardinality(Present) + Cardinality(new \ Present)
        /\ Cardinality(Present) \in Nat /\ Cardinality(new \ Present) \in Nat
      BY Zenon, <2>2, PresentFinite, Grows
  <2>4. Cardinality(new \ Present) <= FAN
      BY Zenon, <2>2, FS_Subset, new \ Present \subseteq new
  <2>5. Cardinality(Present') <= Cardinality(Present \cup new) /\ Cardinality(Present') \in Nat
      BY Zenon, <2>1, <2>3, FS_Subset, FS_CardinalityType
  <2>6. Cardinality(Present) <= pages + op.done /\ pages \in Nat
      BY Zenon DEF IInv, PresentCounted, Shape
  <2> QED BY <1>1, <1>2, <1>3, <2>3, <2>4, <2>5, <2>6 DEF PresentCounted
<1> QED BY <1>8, <1>9, <1>10, <1>11, <1>13, <1>14, <1>15, <1>16, <1>17 DEF IInv

Gone == {h \in huge : h[2] * FAN \in Made}

\* What the loop has made so far, which its error path takes back: small
\* pages ...
LEMMA SmallMade ==
    ASSUME AddressSpaceAssumption, IInv, Looping, op.kind # "huge"
    PROVE  /\ Made \subseteq Addresses /\ Made \subseteq Present /\ Gone = {}
           /\ IsFiniteSet(Made) /\ Cardinality(Made) = op.done
           /\ \A a \in Made : leaf[a] = op.kind
<1>1. /\ op # IDLE /\ op.base \in Nat /\ op.n \in Nat /\ op.done \in Nat
      /\ Here = op.base + op.done /\ op.done < op.n /\ op.kind \in {"page", "lazy"}
    BY Zenon, LoopFacts
<1>2. Made \subseteq Extent /\ Made = op.base..(op.base + op.done - 1)
    BY <1>1 DEF Made, Extent
<1>3. /\ \A a \in Made : leaf[a] = op.kind
      /\ \A a \in Extent : a \in Addresses /\ Table(1, a) \notin huge
    BY Zenon, <1>1 DEF IInv, LoopInv
<1>4. Gone = {}
  <2> SUFFICES ASSUME NEW h \in huge, h[2] * FAN \in Made PROVE FALSE
      BY Zenon DEF Gone
  <2>1. h = <<1, h[2]>> /\ h[2] \in Nat
      BY DEF IInv, Shape
  <2>2. Table(1, h[2] * FAN) = h
    <3>1. Table(1, h[2] * FAN) = <<1, h[2]>>
        BY Zenon, <2>1, EntryFacts
    <3> QED BY Zenon, <2>1, <3>1
  <2> QED BY Zenon, <1>2, <1>3, <2>2
<1>5. Made \subseteq Present
    BY Zenon, <1>1, <1>2, <1>3 DEF Present
<1>6. IsFiniteSet(Made) /\ Cardinality(Made) = op.done
    BY Zenon, <1>1, <1>2, RunLength
<1> QED BY Zenon, <1>2, <1>3, <1>4, <1>5, <1>6

\* ... or huge ones.
LEMMA HugeMade ==
    ASSUME AddressSpaceAssumption, IInv, Looping, op.kind = "huge"
    PROVE  /\ Made \subseteq Addresses /\ Made \subseteq Present
           /\ IsFiniteSet(Made) /\ Cardinality(Made) = op.done
           /\ \A a \in Made : leaf[a] = "none" /\ Table(1, a) \in Gone
           /\ FAN * Cardinality(Gone) = op.done
<1>1. /\ op # IDLE /\ op.base \in Nat /\ op.n \in Nat /\ op.done \in Nat
      /\ Here = op.base + op.done /\ op.done < op.n /\ FAN \in Nat \ {0}
    BY Zenon, LoopFacts, Spans
<1>2. Made \subseteq Extent /\ Made = op.base..(op.base + op.done - 1)
    BY <1>1 DEF Made, Extent
<1>3. /\ \A a \in Made : Table(1, a) \in huge
      /\ \A a \in Extent : a \in Addresses
      /\ Multiple(op.base) /\ Multiple(op.done)
    BY Zenon, <1>1 DEF IInv, LoopInv
<1>4. Made \subseteq Present
    BY Zenon, <1>2, <1>3 DEF Present
<1>5. IsFiniteSet(Made) /\ Cardinality(Made) = op.done
    BY Zenon, <1>1, <1>2, RunLength
<1>6. \A a \in Made : leaf[a] = "none"
  <2>1. \A a \in Made : a \in Addresses /\ Table(1, a) \notin tables
      BY Zenon, <1>2, <1>3 DEF IInv, Tree
  <2> QED BY Zenon, <2>1 DEF IInv, Tree
<1> DEFINE b == op.base \div FAN
           d == op.done \div FAN
<1>7. b \in Nat /\ d \in Nat /\ op.base = b * FAN /\ op.done = d * FAN
    BY Zenon, <1>1, <1>3, DivBounds DEF Multiple
<1> HIDE DEF b, d
<1>8. b * FAN + d * FAN = (b + d) * FAN
    BY <1>1, <1>7
<1>9. ASSUME NEW q \in Nat PROVE q * FAN \in Made <=> q \in b..(b + d - 1)
  <2>1. q * FAN \in Nat /\ b * FAN \in Nat /\ (b + d) * FAN \in Nat
      BY <1>1, <1>7
  <2>2. q * FAN \in Made <=> b * FAN <= q * FAN /\ q * FAN < (b + d) * FAN
    <3>1. op.base = b * FAN /\ op.base + op.done = (b + d) * FAN
        BY Zenon, <1>7, <1>8
    <3>2. q * FAN \in Made <=> op.base <= q * FAN /\ q * FAN < op.base + op.done
        BY <1>1, <1>2, <2>1
    <3> QED BY Zenon, <3>1, <3>2
  <2>3. b <= q => b * FAN <= q * FAN
      BY Zenon, <1>1, <1>7, ProductMonotone
  <2>4. q + 1 <= b => q * FAN + FAN <= b * FAN
    <3>1. q + 1 <= b => (q + 1) * FAN <= b * FAN
        BY <1>1, <1>7, ProductMonotone
    <3> QED BY Zenon, <3>1, EntryFacts
  <2>5. q + 1 <= b + d => q * FAN + FAN <= (b + d) * FAN
    <3>1. q + 1 <= b + d => (q + 1) * FAN <= (b + d) * FAN
        BY <1>1, <1>7, ProductMonotone
    <3> QED BY Zenon, <3>1, EntryFacts
  <2>6. b + d <= q => (b + d) * FAN <= q * FAN
      BY <1>1, <1>7, ProductMonotone
  <2> QED BY <1>1, <1>7, <2>1, <2>2, <2>3, <2>4, <2>5, <2>6
<1>10. \A a \in Made : Table(1, a) \in Gone
  <2> SUFFICES ASSUME NEW a \in Made PROVE Table(1, a) \in Gone
      BY Zenon
  <2> DEFINE q == a \div FAN
  <2>1. a \in Nat /\ op.base <= a /\ a <= op.base + op.done - 1
      BY <1>1, <1>2
  <2>2. /\ Table(1, a) = <<1, q>> /\ q \in Nat /\ q * FAN <= a /\ a < q * FAN + FAN
        /\ q * FAN \in Nat
      BY Zenon, <2>1, EntryFacts
  <2> HIDE DEF q
  <2>3. op.base <= q * FAN
    <3>1. SUFFICES ASSUME q * FAN < op.base PROVE FALSE
        BY <1>1, <2>2
    <3>2. Multiple(q * FAN)
        BY Zenon, <2>2, MultipleFacts
    <3>3. q * FAN + FAN <= op.base
        BY Zenon, <1>1, <1>3, <2>2, <3>1, <3>2, MultipleFacts
    <3> QED BY <1>1, <2>1, <2>2, <3>3
  <2>4. q * FAN \in Made
      BY <1>1, <1>2, <2>1, <2>2, <2>3
  <2>5. Table(1, a)[2] = q /\ Table(1, a) \in huge
      BY <1>3, <2>2
  <2> QED BY Zenon, <2>4, <2>5 DEF Gone
<1>11. Cardinality(Gone) = d
  <2> DEFINE f == [q \in b..(b + d - 1) |-> <<1, q>>]
  <2>1. b..(b + d - 1) \subseteq Nat
      BY <1>7
  <2>2. ASSUME NEW q \in b..(b + d - 1) PROVE <<1, q>> \in Gone
    <3>1. q \in Nat /\ q * FAN \in Made
        BY Zenon, <1>9, <2>1
    <3>2. Table(1, q * FAN) = <<1, q>>
        BY Zenon, <3>1, EntryFacts
    <3>3. <<1, q>> \in huge
        BY Zenon, <1>3, <3>1, <3>2
    <3> QED BY Zenon, <3>1, <3>3 DEF Gone
  <2>3. ASSUME NEW h \in Gone PROVE \E q \in b..(b + d - 1) : h = <<1, q>>
    <3>1. h = <<1, h[2]>> /\ h[2] \in Nat /\ h[2] * FAN \in Made
        BY DEF Gone, IInv, Shape
    <3> QED BY Zenon, <1>9, <3>1
  <2>4. f \in [b..(b + d - 1) -> Gone]
      BY Zenon, <2>2
  <2>5. f \in Surjection(b..(b + d - 1), Gone) /\ f \in Injection(b..(b + d - 1), Gone)
    <3>1. \A h \in Gone : \E q \in b..(b + d - 1) : f[q] = h
        BY Zenon, <2>3
    <3>2. \A p, q \in b..(b + d - 1) : f[p] = f[q] => p = q
        BY Zenon
    <3> QED BY Zenon, <2>4, <3>1, <3>2 DEF Surjection, Injection, IsInjective
  <2>6. IsFiniteSet(b..(b + d - 1)) /\ Cardinality(b..(b + d - 1)) = d
      BY Zenon, <1>7, RunLength
  <2> HIDE DEF f
  <2>7. Cardinality(Gone) = Cardinality(b..(b + d - 1))
      BY Zenon, <2>5, <2>6, FS_Surjection
  <2> QED BY Zenon, <2>6, <2>7
<1>12. FAN * Cardinality(Gone) = op.done
    BY <1>1, <1>7, <1>11
<1> QED BY <1>2, <1>3, <1>4, <1>5, <1>6, <1>10, <1>12

\* A failed iteration may leave tables above the entry it was at.
LEMMA FailedTables ==
    ASSUME AddressSpaceAssumption, IInv, MapFails
    PROVE  \E l \in 2..4 : /\ tables' = tables \cup Path(l, Here)
                           /\ held' = held + Missing(Path(l, Here)) - Frames(op.kind, op.done)
<1>1. Looping
    BY Zenon DEF MapFails
<1>2. PICK made \in IF Occupied THEN {{}} ELSE OutOfMemory :
        tables' = tables \cup made /\ held' = Cleared(made)
    BY Zenon DEF MapFails
<1>3. Path(4, Here) = {}
    BY DEF Path
<1>4. Level(op.kind) \in 1..2 /\ (op.kind = "huge" => Level(op.kind) = 2)
    BY Zenon, <1>1, LoopFacts DEF Level
<1>5. \E l \in 2..4 : made = Path(l, Here)
  <2>1. CASE Occupied
      BY <1>2, <1>3, <2>1
  <2>2. CASE ~Occupied
    <3>1. \/ \E l \in (Level(op.kind) + 1)..4 : made = Path(l, Here)
          \/ made = {}
          \/ made = Path(2, Here)
        BY Zenon, <1>2, <2>2 DEF OutOfMemory
    <3>2. (Level(op.kind) + 1)..4 \subseteq 2..4
        BY <1>4
    <3> QED BY <1>3, <3>1, <3>2
  <2> QED BY Zenon, <2>1, <2>2
<1> QED BY Zenon, <1>2, <1>5 DEF Cleared

\* The error path of the mapping loop.
LEMMA MapFailsStep ==
    ASSUME AddressSpaceAssumption, IInv, MapFails
    PROVE  IInv'
<1>1. /\ Looping /\ op' = IDLE /\ UNCHANGED <<used, owned_slots, next, pages, load>>
      /\ leaf' = [a \in Addresses |-> IF a \in Made THEN "none" ELSE leaf[a]]
      /\ huge' = huge \ Gone
    BY Zenon DEF MapFails, Made, Gone
<1>2. PICK l \in 2..4 : /\ tables' = tables \cup Path(l, Here)
                       /\ held' = held + Missing(Path(l, Here)) - Frames(op.kind, op.done)
    BY Zenon, FailedTables
<1>3. /\ op # IDLE /\ used /\ op.kind \in {"page", "lazy", "huge"}
      /\ op.base \in Nat /\ op.n \in Nat /\ op.done \in Nat /\ op.at \in BOOLEAN
    BY Zenon, <1>1, LoopFacts
<1>4. /\ tables' \subseteq (1..3) \X Nat /\ IsFiniteSet(tables')
      /\ \A t \in tables' : t[1] = 3 \/ Table(t[1] + 1, t[2] * Span(t[1])) \in tables'
      /\ \A t \in tables' : Owned(t)'
      /\ \A t \in tables' : t \in tables \/ t[1] >= 2
      /\ Cardinality(tables) \in Nat /\ Missing(Path(l, Here)) \in Nat
      /\ Cardinality(tables') = Cardinality(tables) + Missing(Path(l, Here))
  <2>1. l \in 1..4 /\ owned_slots' = owned_slots
      BY <1>1
  <2>2. \A k : k \in Nat /\ k >= l => k >= 2
      OBVIOUS
  <2>3. /\ tables' \subseteq (1..3) \X Nat /\ IsFiniteSet(tables')
        /\ \A t \in tables' : t[1] = 3 \/ Table(t[1] + 1, t[2] * Span(t[1])) \in tables'
        /\ \A t \in tables' : Owned(t)'
        /\ \A t \in tables' : t \in tables \/ t[1] >= l
        /\ Cardinality(tables) \in Nat /\ Missing(Path(l, Here)) \in Nat
        /\ Cardinality(tables') = Cardinality(tables) + Missing(Path(l, Here))
      BY Zenon, <1>1, <1>2, <2>1, TablesGrow
  <2>4. \A t \in tables' : t[1] \in Nat
      BY <2>3
  <2> QED BY Zenon, <2>2, <2>3, <2>4
<1>5. /\ Made \subseteq Addresses /\ Made \subseteq Present /\ Gone \subseteq huge
      /\ IsFiniteSet(Made) /\ Cardinality(Made) = op.done
    BY Zenon, <1>1, SmallMade, HugeMade DEF Gone
<1>6. /\ leaf' \in [Addresses -> {"none", "lazy", "page"}]
      /\ \A a \in Addresses : leaf'[a] # "none" => leaf[a] = leaf'[a] /\ a \notin Made
    BY Zenon, <1>1 DEF IInv, Shape
<1>7. Present' \subseteq Present \ Made
  <2> SUFFICES ASSUME NEW a \in Present' PROVE a \in Present \ Made
      BY Zenon
  <2>1. a \in Addresses /\ (leaf'[a] # "none" \/ Table(1, a) \in huge')
      BY Zenon DEF Present
  <2>2. CASE leaf'[a] # "none"
      BY Zenon, <1>6, <2>1, <2>2 DEF Present
  <2>3. CASE Table(1, a) \in huge'
    <3>1. Table(1, a) \in huge /\ Table(1, a) \notin Gone
        BY Zenon, <1>1, <2>3
    <3>2. a \notin Made
      <4>1. CASE op.kind = "huge"
          BY Zenon, <1>1, <3>1, <4>1, HugeMade
      <4>2. CASE op.kind # "huge"
        <5>1. Made \subseteq Extent
            BY <1>1, LoopFacts DEF Made, Extent
        <5>2. \A x \in Extent : Table(1, x) \notin huge
            BY Zenon, <1>3, <4>2 DEF IInv, LoopInv
        <5> QED BY Zenon, <3>1, <5>1, <5>2
      <4> QED BY Zenon, <4>1, <4>2
    <3> QED BY Zenon, <2>1, <3>1, <3>2 DEF Present
  <2> QED BY Zenon, <2>1, <2>2, <2>3
<1>8. Shape'
  <2>1. IsFiniteSet(huge') /\ huge' \subseteq {1} \X Nat
    <3>1. huge' \subseteq huge /\ IsFiniteSet(huge) /\ huge \subseteq {1} \X Nat
        BY Zenon, <1>1 DEF IInv, Shape
    <3> QED BY Zenon, <3>1, FS_Subset
  <2>2. op' \in [kind : {"none", "page", "lazy", "huge"}, base : Nat, n : Nat, done : Nat, at : BOOLEAN]
      BY Zenon, <1>1 DEF IDLE
  <2> QED BY <1>1, <1>4, <1>6, <2>1, <2>2 DEF IInv, Shape
<1>9. UnusedEmpty' /\ LoopInv'
    BY Zenon, <1>1, <1>3 DEF UnusedEmpty, LoopInv
<1>10. InOwnedSlots'
  <2>1. \A h \in huge' : Owned(h)'
      BY Zenon, <1>1 DEF IInv, InOwnedSlots, Owned
  <2>2. \A a \in Addresses : leaf'[a] # "none" => Slot(a) \in owned_slots'
      BY Zenon, <1>1, <1>6 DEF IInv, InOwnedSlots
  <2>3. used' => 0 \in owned_slots'
      BY Zenon, <1>1 DEF IInv, InOwnedSlots
  <2> QED BY Zenon, <1>4, <2>1, <2>2, <2>3 DEF InOwnedSlots
<1>11. HugeBelowNext'
  <2>1. \A h \in huge : (h[2] + 1) * FAN <= next \/ h \in Gone
      BY Zenon DEF IInv, HugeBelowNext, Gone
  <2>2. load.phase # "loaded" => huge = {}
      BY Zenon DEF IInv, HugeBelowNext
  <2> QED BY Zenon, <1>1, <2>1, <2>2 DEF HugeBelowNext
<1>12. RollbackCounts'
  <2>1. ASSUME load.phase = "loading"
        PROVE  used /\ load.next <= next /\ Cardinality(Outside(load.next)') <= load.pages
    <3>1. used /\ load.next <= next /\ Cardinality(Outside(load.next)) <= load.pages /\ load.pages \in Nat
        BY Zenon, <2>1 DEF IInv, RollbackCounts, Shape
    <3>2. Outside(load.next)' \subseteq Outside(load.next)
        BY Zenon, <1>1, <1>7 DEF Outside
    <3>3. /\ IsFiniteSet(Outside(load.next)) /\ Cardinality(Outside(load.next)) \in Nat
        BY Zenon, PresentFinite
    <3>4. /\ IsFiniteSet(Outside(load.next)') 
          /\ Cardinality(Outside(load.next)') <= Cardinality(Outside(load.next))
        BY Zenon, <3>2, <3>3, FS_Subset
    <3>5. Cardinality(Outside(load.next)') \in Nat
        BY Zenon, <3>4, FS_CardinalityType
    <3> QED BY <3>1, <3>3, <3>4, <3>5
  <2> QED BY Zenon, <1>1, <2>1 DEF RollbackCounts
<1>13. Tree'
  <2>1. \A a \in Addresses : leaf'[a] # "none" => Table(1, a) \in tables'
      BY Zenon, <1>2, <1>6 DEF IInv, Tree
  <2>2. ASSUME NEW h \in huge' PROVE Table(2, h[2] * FAN) \in tables' /\ h \notin tables'
    <3>1. h \in huge /\ h[1] = 1 /\ Table(2, h[2] * FAN) \in tables /\ h \notin tables
        BY Zenon, <1>1 DEF IInv, Tree, Shape
    <3>2. h \notin tables'
        BY <1>4, <3>1
    <3> QED BY Zenon, <1>2, <3>1, <3>2
  <2> QED BY Zenon, <1>4, <2>1, <2>2 DEF Tree
<1>14. PresentCounted'
  <2>1. /\ Cardinality(Present \ Made) = Cardinality(Present) - op.done
        /\ IsFiniteSet(Present \ Made) /\ Cardinality(Present) \in Nat
      BY Zenon, <1>5, PresentFinite, Shrinks
  <2>2. Cardinality(Present') <= Cardinality(Present \ Made) /\ Cardinality(Present') \in Nat
      BY Zenon, <1>7, <2>1, FS_Subset, FS_CardinalityType
  <2>3. Cardinality(Present) <= pages + op.done /\ pages \in Nat
      BY Zenon DEF IInv, PresentCounted, Shape
  <2>4. op'.done = 0
      BY Zenon, <1>1 DEF IDLE
  <2> QED BY <1>1, <1>3, <2>1, <2>2, <2>3, <2>4 DEF PresentCounted
<1>15. FramesAccounted'
  <2> DEFINE P == Cardinality(PageSet)
             H == FAN * Cardinality(huge)
             T == Cardinality(tables)
             made == Missing(Path(l, Here))
             HH == FAN * Cardinality(huge')
             PP == Cardinality(PageSet')
             F == Frames(op.kind, op.done)
             K == held
             KK == held'
             TT == Cardinality(tables')
  <2>1. P \in Nat /\ H \in Nat /\ held = 1 + T + P + H
    <3>1. IsFiniteSet(huge) /\ held = 1 + T + P + H
        BY Zenon, <1>3 DEF IInv, FramesAccounted, PageSet, Shape
    <3>2. Cardinality(huge) \in Nat
        BY Zenon, <3>1, FS_CardinalityType
    <3>3. P \in Nat
        BY Zenon, PresentFinite DEF PageSet
    <3>4. FAN \in Nat
        BY Zenon, Spans
    <3> QED BY <3>1, <3>2, <3>3, <3>4
  <2>2. /\ Cardinality(PageSet') \in Nat /\ FAN * Cardinality(huge') \in Nat
        /\ Cardinality(PageSet') + FAN * Cardinality(huge') = P + H - Frames(op.kind, op.done)
    <3>1. CASE op.kind = "huge"
      <4>1. PageSet' = PageSet
        <5>1. \A a \in Made : leaf[a] = "none"
            BY Zenon, <1>1, <3>1, HugeMade
        <5> QED BY Zenon, <1>1, <5>1 DEF PageSet
      <4>2. /\ Cardinality(huge') = Cardinality(huge) - Cardinality(Gone)
            /\ Cardinality(huge) \in Nat /\ Cardinality(Gone) \in Nat
            /\ Cardinality(Gone) <= Cardinality(huge)
        <5>1. IsFiniteSet(huge)
            BY Zenon DEF IInv, Shape
        <5> QED BY Zenon, <1>1, <1>5, <5>1, Shrinks
      <4>3. FAN * Cardinality(Gone) = op.done
          BY Zenon, <1>1, <3>1, HugeMade
      <4>4. /\ FAN * (Cardinality(huge) - Cardinality(Gone))
                   = FAN * Cardinality(huge) - FAN * Cardinality(Gone)
            /\ FAN * (Cardinality(huge) - Cardinality(Gone)) \in Nat
          BY <4>2, Spans
      <4> QED BY <1>3, <2>1, <3>1, <4>1, <4>2, <4>3, <4>4 DEF Frames
    <3>2. CASE op.kind = "lazy"
      <4>1. Gone = {} /\ \A a \in Made : leaf[a] = "lazy"
          BY Zenon, <1>1, <3>2, SmallMade
      <4>2. huge' = huge /\ PageSet' = PageSet
          BY Zenon, <1>1, <4>1 DEF PageSet
      <4> QED BY <2>1, <3>2, <4>2 DEF Frames
    <3>3. CASE op.kind = "page"
      <4>1. Gone = {} /\ \A a \in Made : leaf[a] = "page"
          BY Zenon, <1>1, <3>3, SmallMade
      <4>2. huge' = huge /\ PageSet' = PageSet \ Made /\ Made \subseteq PageSet
          BY Zenon, <1>1, <1>5, <4>1 DEF PageSet
      <4>3. Cardinality(PageSet') = P - op.done /\ op.done <= P
          BY Zenon, <1>5, <4>2, PresentFinite, Shrinks
      <4> QED BY <1>3, <2>1, <3>3, <4>2, <4>3 DEF Frames
    <3> QED BY Zenon, <1>3, <3>1, <3>2, <3>3
  <2>3. Frames(op.kind, op.done) \in Nat
      BY Zenon, <1>3 DEF Frames
  <2>4. /\ F \in Nat /\ PP \in Nat /\ HH \in Nat /\ PP + HH = P + H - F
        /\ T \in Nat /\ made \in Nat /\ TT = T + made
        /\ KK = K + made - F /\ K = 1 + T + P + H
      BY Zenon, <1>2, <1>4, <2>1, <2>2, <2>3
  <2> HIDE DEF P, H, T, made, PP, HH, F, K, KK, TT
  <2>5. KK = 1 + TT + PP + HH
      BY <2>1, <2>4
  <2> QED BY Zenon, <1>1, <1>3, <2>5 DEF FramesAccounted, PageSet, PP, HH, KK, TT
<1> QED BY <1>8, <1>9, <1>10, <1>11, <1>12, <1>13, <1>14, <1>15 DEF IInv

\* rollback_tree frees no table that still leads somewhere.
LEMMA EmptiedLeadNowhere ==
    ASSUME AddressSpaceAssumption, NEW from, tables \subseteq (1..3) \X Nat
    PROVE  /\ Emptied(from) \subseteq tables
           /\ \A a \in Addresses : leaf[a] # "none" /\ a \notin Undone(from)
                                    => Table(1, a) \notin Emptied(from)
           /\ \A t \in tables \ Emptied(from) :
                  t[1] # 3 => Table(t[1] + 1, t[2] * Span(t[1])) \notin Emptied(from)
<1> DEFINE Visited(t) == Slot(t[2] * Span(t[1])) = 0 /\ (t[2] + 1) * Span(t[1]) > from
           Below(t, S) == {u \in S : u[1] = t[1] - 1 /\ u[2] \div FAN = t[2]}
           left == {a \in Addresses : leaf[a] # "none"} \ Undone(from)
           one == {t \in tables : t[1] = 1 /\ Visited(t) /\ ~ \E a \in left : Table(1, a) = t}
           two == {t \in tables : /\ t[1] = 2 /\ Visited(t)
                                  /\ Below(t, (tables \ one) \cup (huge \ HugeUndone(from))) = {}}
           three == {t \in tables : t = <<3, 0>> /\ Below(t, tables \ two) = {}}
<1>1. Emptied(from) = one \cup two \cup three
    BY Zenon DEF Emptied
<1>2. /\ one \subseteq tables /\ two \subseteq tables /\ three \subseteq tables
      /\ \A t \in one : t[1] = 1 /\ ~ \E a \in left : Table(1, a) = t
      /\ \A t \in two : t[1] = 2 /\ \A u \in tables \ one : ~ (u[1] = t[1] - 1 /\ u[2] \div FAN = t[2])
      /\ \A t \in three : /\ t = <<3, 0>>
                           /\ \A u \in tables \ two : ~ (u[1] = t[1] - 1 /\ u[2] \div FAN = t[2])
    BY Zenon
<1> HIDE DEF one, two, three
<1>3. \A t \in three : t[1] = 3 /\ t[2] = 0
    BY <1>2
<1>4. ASSUME NEW a \in Addresses, leaf[a] # "none", a \notin Undone(from)
      PROVE  Table(1, a) \notin Emptied(from)
  <2>1. a \in left /\ Table(1, a) \notin one
      BY Zenon, <1>2, <1>4
  <2>2. Table(1, a)[1] = 1
      BY Zenon DEF Table
  <2> QED BY <1>1, <1>2, <1>3, <2>1, <2>2
<1>5. ASSUME NEW t \in tables, t \notin Emptied(from), t[1] # 3
      PROVE  Table(t[1] + 1, t[2] * Span(t[1])) \notin Emptied(from)
  <2>1. t[1] \in 1..2 /\ t[2] \in Nat
      BY <1>5
  <2>2. Table(t[1] + 1, t[2] * Span(t[1])) = <<t[1] + 1, t[2] \div FAN>>
      BY Zenon, <2>1, ParentFacts
  <2> DEFINE u == <<t[1] + 1, t[2] \div FAN>>
  <2>3. u[1] = t[1] + 1 /\ u[2] = t[2] \div FAN /\ t \notin one /\ t \notin two
      BY Zenon, <1>1, <1>5
  <2> HIDE DEF u
  <2>4. u \notin one
      BY <1>2, <2>1, <2>3
  <2>5. u \notin two
      BY <1>2, <2>1, <2>3
  <2>6. u \notin three
      BY <1>2, <1>3, <2>1, <2>3
  <2> QED BY Zenon, <1>1, <2>2, <2>4, <2>5, <2>6 DEF u
<1> QED BY Zenon, <1>1, <1>2, <1>4, <1>5

\* as_rollback.
LEMMA LoadFailsStep ==
    ASSUME AddressSpaceAssumption, IInv, LoadFails
    PROVE  IInv'
<1> DEFINE from == load.next
           gone == Emptied(from)
           freed == {a \in Undone(from) : leaf[a] = "page"}
<1>1. /\ op = IDLE /\ used /\ load.phase = "loading"
      /\ leaf' = [a \in Addresses |-> IF a \in Undone(from) THEN "none" ELSE leaf[a]]
      /\ huge' = huge \ HugeUndone(from)
      /\ tables' = tables \ gone
      /\ held' = held - Cardinality(freed) - FAN * Cardinality(HugeUndone(from)) - Cardinality(gone)
      /\ next' = from /\ pages' = load.pages /\ load' = Fresh
      /\ UNCHANGED <<used, owned_slots, op>>
    BY Zenon DEF LoadFails, Idle
<1>2. huge = {} /\ HugeUndone(from) = {} /\ huge' = {}
    BY Zenon, <1>1 DEF IInv, HugeBelowNext, HugeUndone
<1>3. /\ tables \subseteq (1..3) \X Nat /\ IsFiniteSet(tables) /\ from \in Nat /\ load.pages \in Nat
    BY Zenon DEF IInv, Shape
<1>4. /\ gone \subseteq tables
      /\ \A a \in Addresses : leaf[a] # "none" /\ a \notin Undone(from) => Table(1, a) \notin gone
      /\ \A t \in tables \ gone : t[1] # 3 => Table(t[1] + 1, t[2] * Span(t[1])) \notin gone
    BY Zenon, <1>3, EmptiedLeadNowhere
<1>5. /\ leaf' \in [Addresses -> {"none", "lazy", "page"}]
      /\ \A a \in Addresses : leaf'[a] # "none" => leaf[a] = leaf'[a] /\ a \notin Undone(from)
    BY Zenon, <1>1 DEF IInv, Shape
<1>6. Fresh \in [phase : {"fresh", "loading", "loaded"}, next : Nat, pages : Nat,
                 mapped : SUBSET Addresses] /\ Fresh.phase = "fresh"
    BY Zenon DEF Fresh
<1>7. /\ IsFiniteSet(gone) /\ IsFiniteSet(tables') /\ Cardinality(tables) \in Nat
      /\ Cardinality(gone) \in Nat /\ Cardinality(tables') = Cardinality(tables) - Cardinality(gone)
    BY Zenon, <1>1, <1>3, <1>4, Shrinks
<1>8. Shape'
  <2>1. huge' \subseteq {1} \X Nat /\ IsFiniteSet(huge')
      BY Zenon, <1>2, FS_EmptySet
  <2>2. tables' \subseteq (1..3) \X Nat
      BY Zenon, <1>1, <1>3
  <2> QED BY <1>1, <1>3, <1>5, <1>6, <1>7, <2>1, <2>2 DEF IInv, Shape
<1>9. UnusedEmpty' /\ LoopInv'
    BY Zenon, <1>1 DEF UnusedEmpty, LoopInv
<1>10. InOwnedSlots'
  <2>1. \A t \in tables' \cup huge' : Owned(t)'
      BY Zenon, <1>1, <1>2 DEF IInv, InOwnedSlots, Owned
  <2>2. \A a \in Addresses : leaf'[a] # "none" => Slot(a) \in owned_slots'
      BY Zenon, <1>1, <1>5 DEF IInv, InOwnedSlots
  <2> QED BY Zenon, <1>1, <2>1, <2>2 DEF IInv, InOwnedSlots
<1>11. HugeBelowNext' /\ RollbackCounts'
    BY Zenon, <1>1, <1>2, <1>6 DEF HugeBelowNext, RollbackCounts
<1>12. Tree'
  <2>1. \A t \in tables : t[1] = 3 \/ Table(t[1] + 1, t[2] * Span(t[1])) \in tables
      BY Zenon DEF IInv, Tree
  <2>2. \A t \in tables' : t[1] = 3 \/ Table(t[1] + 1, t[2] * Span(t[1])) \in tables'
      BY Zenon, <1>1, <1>4, <2>1
  <2>3. \A a \in Addresses : leaf[a] # "none" => Table(1, a) \in tables
      BY Zenon DEF IInv, Tree
  <2>4. \A a \in Addresses : leaf'[a] # "none" => Table(1, a) \in tables'
      BY Zenon, <1>1, <1>4, <1>5, <2>3
  <2> QED BY Zenon, <1>2, <2>2, <2>4 DEF Tree
<1>13. PresentCounted'
  <2>1. Present' \subseteq Outside(from)
    <3> SUFFICES ASSUME NEW a \in Present' PROVE a \in Outside(from)
        BY Zenon
    <3>1. a \in Addresses /\ leaf'[a] # "none"
        BY Zenon, <1>2 DEF Present
    <3>2. leaf[a] # "none" /\ a \notin Undone(from)
        BY Zenon, <1>5, <3>1
    <3> QED BY Zenon, <3>1, <3>2 DEF Outside, Present, Undone
  <2>2. IsFiniteSet(Outside(from)) /\ Cardinality(Outside(from)) \in Nat
      BY Zenon, PresentFinite
  <2>3. Cardinality(Present') <= Cardinality(Outside(from)) /\ Cardinality(Present') \in Nat
      BY Zenon, <2>1, <2>2, FS_Subset, FS_CardinalityType
  <2>4. Cardinality(Outside(from)) <= load.pages
      BY Zenon, <1>1 DEF IInv, RollbackCounts
  <2>5. op'.done = 0
      BY Zenon, <1>1 DEF IDLE
  <2> QED BY <1>1, <1>3, <2>2, <2>3, <2>4, <2>5 DEF PresentCounted
<1>14. FramesAccounted'
  <2> DEFINE P == Cardinality(PageSet)
             PP == Cardinality(PageSet')
             T == Cardinality(tables)
             TT == Cardinality(tables')
             G == Cardinality(gone)
             F == Cardinality(freed)
             K == held
             KK == held'
  <2>1. FAN * Cardinality({}) = 0
      BY Spans, FS_EmptySet
  <2>2. PageSet' = PageSet \ freed /\ freed \subseteq PageSet
      BY Zenon, <1>1 DEF PageSet, Undone
  <2>3. PP = P - F /\ P \in Nat /\ F \in Nat
      BY Zenon, <2>2, PresentFinite, Shrinks
  <2>4. TT = T - G /\ T \in Nat /\ G \in Nat
      BY Zenon, <1>7
  <2>5. K = 1 + T + P + FAN * Cardinality({})
      BY Zenon, <1>1, <1>2 DEF IInv, FramesAccounted, PageSet
  <2>6. KK = K - F - FAN * Cardinality({}) - G
      BY Zenon, <1>1, <1>2
  <2> HIDE DEF P, PP, T, TT, G, F, K, KK
  <2>7. KK = 1 + TT + PP + 0
      BY <2>1, <2>3, <2>4, <2>5, <2>6
  <2> QED BY <1>1, <1>2, <2>1, <2>7 DEF FramesAccounted, PageSet, KK, TT, PP
<1> QED BY Zenon, <1>8, <1>9, <1>10, <1>11, <1>12, <1>13, <1>14 DEF IInv

\* as_destroy: the owned slots hold everything there is.
LEMMA DestroyStep ==
    ASSUME AddressSpaceAssumption, IInv, as_destroy
    PROVE  IInv'
<1>1. /\ used /\ op = IDLE /\ used' = FALSE /\ tables' = {} /\ huge' = {} /\ owned_slots' = {}
      /\ leaf' = [a \in Addresses |-> "none"] /\ next' = 0 /\ pages' = 0 /\ load' = Fresh /\ op' = IDLE
      /\ held' = held - Cardinality({t \in tables : Owned(t)})
                      - Cardinality({a \in Addresses : leaf[a] = "page" /\ Slot(a) \in owned_slots})
                      - FAN * Cardinality({h \in huge : Owned(h)}) - 1
    BY Zenon DEF as_destroy, Idle
<1>2. /\ {t \in tables : Owned(t)} = tables /\ {h \in huge : Owned(h)} = huge
      /\ {a \in Addresses : leaf[a] = "page" /\ Slot(a) \in owned_slots} = PageSet
    BY Zenon DEF IInv, InOwnedSlots, PageSet
<1>3. held' = 0
  <2> DEFINE P == Cardinality(PageSet)
             T == Cardinality(tables)
             C == Cardinality(huge)
             H == FAN * C
             K == held
             KK == held'
  <2>1. P \in Nat /\ T \in Nat /\ C \in Nat
    <3>1. IsFiniteSet(tables) /\ IsFiniteSet(huge)
        BY Zenon DEF IInv, Shape
    <3> QED BY Zenon, <3>1, PresentFinite, FS_CardinalityType
  <2>2. FAN \in Nat
      BY Zenon, Spans
  <2>3. K = 1 + T + P + H
      BY Zenon, <1>1 DEF IInv, FramesAccounted, PageSet
  <2>4. KK = K - T - P - H - 1
      BY Zenon, <1>1, <1>2
  <2>5. H \in Nat
      BY <2>1, <2>2
  <2> HIDE DEF P, T, C, H, K, KK
  <2>6. KK = 0
      BY <2>1, <2>3, <2>4, <2>5
  <2> QED BY Zenon, <2>6 DEF KK
<1>4. Present' = {}
    BY Zenon, <1>1 DEF Present
<1>5. /\ Fresh \in [phase : {"fresh", "loading", "loaded"}, next : Nat, pages : Nat,
                    mapped : SUBSET Addresses]
      /\ Fresh.phase = "fresh"
      /\ IDLE.done = 0
      /\ IDLE \in [kind : {"none", "page", "lazy", "huge"}, base : Nat, n : Nat, done : Nat, at : BOOLEAN]
    BY Zenon DEF Fresh, IDLE
<1>6. Shape'
    BY Zenon, <1>1, <1>5, FS_EmptySet DEF Shape
<1>7. UnusedEmpty' /\ InOwnedSlots' /\ LoopInv' /\ HugeBelowNext' /\ RollbackCounts' /\ Tree'
    BY Zenon, <1>1, <1>5 DEF UnusedEmpty, InOwnedSlots, LoopInv, HugeBelowNext, RollbackCounts, Tree
<1>8. FramesAccounted'
    BY Zenon, <1>1, <1>3 DEF FramesAccounted
<1>9. PresentCounted'
    BY <1>1, <1>4, <1>5, FS_EmptySet DEF PresentCounted
<1> QED BY Zenon, <1>6, <1>7, <1>8, <1>9 DEF IInv
-----------------------------------------------------------------------------
(***************************************************************************)
(* Every step preserves the invariant.                                     *)
(***************************************************************************)
LEMMA StutterStep ==
    ASSUME IInv, UNCHANGED spaceVars
    PROVE  IInv'
<1>1. UNCHANGED <<used, tables, leaf, huge, owned_slots, next, pages, held, op, load>>
    BY Zenon DEF spaceVars
<1>2. Shape' /\ UnusedEmpty' /\ Tree'
    BY Zenon, <1>1 DEF IInv, Shape, UnusedEmpty, Tree
<1>3. InOwnedSlots'
    BY Zenon, <1>1 DEF IInv, InOwnedSlots, Owned
<1>4. LoopInv' /\ HugeBelowNext'
    BY Zenon, <1>1 DEF IInv, LoopInv, HugeBelowNext, Extent, Made, Here
<1>5. Present' = Present /\ \A from : Outside(from)' = Outside(from)
    BY Zenon, <1>1 DEF Present, Outside
<1>6. RollbackCounts' /\ PresentCounted'
    BY Zenon, <1>1, <1>5 DEF IInv, RollbackCounts, PresentCounted
<1>7. FramesAccounted'
    BY Zenon, <1>1, SameFrames DEF IInv
<1> QED BY Zenon, <1>2, <1>3, <1>4, <1>6, <1>7 DEF IInv

LEMMA NextInv ==
    ASSUME AddressSpaceAssumption, IInv, [SpaceNext]_spaceVars
    PROVE  IInv'
<1>1. CASE as_create \/ LoadBegin \/ LoadDone
    BY Zenon, <1>1, CreateStep
<1>2. CASE as_destroy
    BY Zenon, <1>2, DestroyStep
<1>3. CASE \E kind \in {"page", "lazy", "huge"}, n \in Sizes, m \in Boundaries : AllocBegin(kind, n, m)
    BY Zenon, <1>3, AllocStep
<1>4. CASE \E a \in Windows, n \in Sizes : MapAtBegin(a, n)
    BY Zenon, <1>4, MapAtStep
<1>5. CASE MapOne
    BY Zenon, <1>5, MapSmallStep, MapHugeStep
<1>6. CASE MapFails
    BY Zenon, <1>6, MapFailsStep
<1>7. CASE MapDone
    BY Zenon, <1>7, MapDoneStep
<1>8. CASE \E a \in Addresses : demand_fault(a)
    BY Zenon, <1>8, FaultStep
<1>9. CASE LoadFails
    BY Zenon, <1>9, LoadFailsStep
<1>10. CASE UNCHANGED spaceVars
    BY Zenon, <1>10, StutterStep
<1> QED BY Zenon, <1>1, <1>2, <1>3, <1>4, <1>5, <1>6, <1>7, <1>8, <1>9, <1>10 DEF SpaceNext

\* The invariant holds in every reachable state of an address space.
THEOREM Invariance ==
    ASSUME AddressSpaceAssumption
    PROVE  SpaceSpec => []IInv
<1>1. SpaceInit => IInv
    BY Zenon, InitInv
<1>2. IInv /\ [SpaceNext]_spaceVars => IInv'
    BY Zenon, NextInv
<1> QED BY <1>1, <1>2, PTL DEF SpaceSpec

\* as_alloc, as_map_at and their error paths, demand_fault, as_rollback and
\* as_destroy take and give back frames so that those held are exactly the
\* root, the tables and the pages of the tree; a destroyed space holds none.
THEOREM NoFrameLeaks ==
    ASSUME AddressSpaceAssumption
    PROVE  SpaceSpec => []FramesAccounted
<1>1. IInv => FramesAccounted
    BY Zenon DEF IInv
<1> QED BY <1>1, Invariance, PTL

\* Whatever mapping loops fail and whatever loads are rolled back, every page
\* is reached through tables that exist, and pt_child never meets a huge page
\* on the way to a small one.
THEOREM TreeStaysATree ==
    ASSUME AddressSpaceAssumption
    PROVE  SpaceSpec => []TreeWellFormed
<1>1. IInv => TreeWellFormed
  <2> SUFFICES ASSUME IInv PROVE TreeWellFormed
      BY Zenon
  <2>1. ASSUME Looping, op.kind # "huge" PROVE Table(1, Here) \notin huge
    <3>1. op # IDLE /\ op.base \in Nat /\ op.n \in Nat /\ op.done \in Nat /\ op.done < op.n
        BY Zenon, <2>1, LoopFacts DEF Looping
    <3>2. Here \in Extent
        BY <3>1 DEF Here, Extent
    <3> QED BY Zenon, <2>1, <3>1, <3>2 DEF IInv, LoopInv
  <2> QED BY Zenon, <2>1 DEF IInv, Tree, TreeWellFormed
<1> QED BY <1>1, Invariance, PTL

\* The page count the limit is tested against never falls behind what is
\* mapped, whatever a rollback took back.
THEOREM LimitIsEnforced ==
    ASSUME AddressSpaceAssumption
    PROVE  SpaceSpec => []LimitHolds
<1>1. IInv => LimitHolds
  <2>1. IInv => Mapped \cup Lazy = Present
      BY Zenon DEF IInv, Shape, Mapped, Lazy, Present
  <2> QED BY Zenon, <2>1 DEF IInv, PresentCounted, LimitHolds
<1> QED BY <1>1, Invariance, PTL
=============================================================================
