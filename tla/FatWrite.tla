------------------------------ MODULE FatWrite ------------------------------
(***************************************************************************)
(* Changing a FAT32 volume (fs/fs.c): replacement of a file's contents,    *)
(* creation of files and directories, on a disk with a volatile write      *)
(* cache, with a disk error or a power failure at any command.  vfs_mutex  *)
(* serialises the operations, so each is the sequence of disk commands it  *)
(* issues, "todo", and the disk takes them one at a time.                  *)
(*                                                                         *)
(* A cluster is one sector.  A sector that was written since the last      *)
(* flush may hold any of the values it was given: "media" keeps them.  All *)
(* names live in the root directory; the FSInfo hints are left out, the    *)
(* flush that follows them is there.                                       *)
(***************************************************************************)
EXTENDS Naturals, FiniteSetsExt, SequencesExt

CONSTANTS N,            \* clusters of the volume, numbered 2 .. N + 1
          EPC,          \* directory entries per cluster
          FPS,          \* entries per FAT sector
          COPIES,       \* FAT copies
          LFNS,         \* long-name entries of every name
          RESERVE,      \* free clusters a creation asks for
          Names,        \* names of files and directories
          Volumes,      \* volumes to start from: the entries of the root directory
                        \* and the clusters of its files, by name
          MAX_SIZE,     \* largest file, in clusters
          MAX_OPS       \* bound on the number of operations

ASSUME FatAssumption ==
    /\ {N, EPC, FPS, COPIES, LFNS} \subseteq Nat \ {0}
    /\ {RESERVE, MAX_SIZE, MAX_OPS} \subseteq Nat

VARIABLES disk,          \* what a read of each sector returns
          media,         \* the values each sector may have after a power failure
          cache,         \* v->cache
          alloc_hint,    \* v->alloc_hint
          free_clusters, \* v->free_clusters
          write_ready,   \* v->write_ready
          write_failed,  \* v->write_failed
          todo,          \* the disk commands left of the operation in progress
          goal,          \* the name it changes and what the name will be
          allowed,       \* what each name may be: history
          ops,           \* operations so far; the version of new contents
          disk_error     \* a command failed since the volume was mounted: history

vars == <<disk, media, cache, alloc_hint, free_clusters, write_ready, write_failed,
          todo, goal, allowed, ops, disk_error>>

-----------------------------------------------------------------------------
Clusters == 2 .. N + 1
Entries == 1 .. N + 1
FREE == 0
EOC == N + 2
DIRTY == 0        \* entry 1 without its clean bit
CLEAN == EOC
ROOT == 2

SectorOf(c) == c \div FPS
FatSectors == {SectorOf(c) : c \in Entries}
FatSector(k, s) == <<"fat", k, s>>
DataSector(c) == <<"data", c>>
Sectors == {FatSector(k, s) : k \in 1 .. COPIES, s \in FatSectors}
             \union {DataSector(c) : c \in Clusters}

End == [kind |-> "end"]
Deleted == [kind |-> "deleted"]
Long(f, i) == [kind |-> "long", name |-> f, seq |-> i]
Short(f, first, size, dir) ==
    [kind |-> "short", name |-> f, first |-> first, size |-> size, dir |-> dir]
Piece(ver, i) == [kind |-> "data", ver |-> ver, seq |-> i]

Zeroes == [i \in 1 .. EPC |-> End]
Contents(ver, i) == [j \in 1 .. EPC |-> Piece(ver, i)]

Absent == [kind |-> "absent"]
Directory == [kind |-> "directory"]
File(ver, size) == [kind |-> "file", ver |-> ver, size |-> size]
Unreadable == [kind |-> "unreadable"]

-----------------------------------------------------------------------------
(* Reading an image of the volume.                                         *)

FatCopy(img, k) == [c \in Entries |-> img[FatSector(k, SectorOf(c))][c]]

\* The clusters from c on; N + 1 of them when the chain is a loop.
Chain(fat, c) ==
    LET walk[n \in 0 .. N] ==
          IF n = 0 THEN <<c>>
          ELSE LET p == walk[n - 1] IN
               IF fat[Last(p)] \in Clusters THEN Append(p, fat[Last(p)]) ELSE p
    IN  walk[N]

WellFormed(fat, c) == c \in Clusters /\ Len(Chain(fat, c)) <= N /\ fat[Last(Chain(fat, c))] = EOC

\* The k-th entry of a directory with clusters ch: its cluster and its index there.
Place(ch, k) == <<ch[1 + ((k - 1) \div EPC)], 1 + ((k - 1) % EPC)>>
Places(ch) == [k \in 1 .. Len(ch) * EPC |-> Place(ch, k)]

SlotAt(img, place) == img[DataSector(place[1])][place[2]]

\* fat_directory: the short entries before the end mark whose long name is whole.
\* A short entry without it is listed under an invented name.
Listed(img, fat, c) ==
    LET at == Places(Chain(fat, c))
        slot(k) == SlotAt(img, at[k])
        seen == {k \in 1 .. Len(at) : \A j \in 1 .. k : slot(j) # End}
    IN  {[slot |-> slot(k), place |-> at[k],
          whole |-> k > LFNS /\ \A i \in 1 .. LFNS : slot(k - i) = Long(slot(k).name, i)] :
            k \in {j \in seen : slot(j).kind = "short"}}

Root(img) == Listed(img, FatCopy(img, 1), ROOT)

\* fat_open and fat_read: what name f is in the image.
Reading(img, f) ==
    LET fat == FatCopy(img, 1)
        es == {e \in Root(img) : e.slot.name = f}
        e == CHOOSE x \in es : TRUE
        ch == Chain(fat, e.slot.first)
        data(i) == img[DataSector(ch[i])][1]
    IN  CASE es = {} -> Absent
          [] Cardinality(es) > 1 \/ ~e.whole -> Unreadable
          [] e.slot.dir /\ (~WellFormed(fat, e.slot.first) \/ Listed(img, fat, e.slot.first) # {}) -> Unreadable
          [] e.slot.dir -> Directory
          [] e.slot.size = 0 -> File(0, 0)
          [] ~WellFormed(fat, e.slot.first) \/ Len(ch) < e.slot.size -> Unreadable
          [] \E i \in 1 .. e.slot.size : data(i).kind # "data" \/ data(i) # Piece(data(1).ver, i) -> Unreadable
          [] OTHER -> File(data(1).ver, e.slot.size)

\* fat_prepare_write's walk: no chain is broken or shared, no cluster is lost.
Audited(img) ==
    LET fat == FatCopy(img, 1)
        chains == {[place |-> e.place, first |-> e.slot.first, size |-> e.slot.size] :
                     e \in {x \in Root(img) : x.slot.first # 0}}
                  \union {[place |-> <<>>, first |-> ROOT, size |-> 0]}
        used(h) == Range(Chain(fat, h.first))
    IN  /\ \A e \in Root(img) : e.slot.first = 0 => e.slot.size = 0 /\ ~e.slot.dir
        /\ \A h \in chains :
              WellFormed(fat, h.first) /\ h.size <= Len(Chain(fat, h.first))
        /\ \A h, g \in chains : h # g => used(h) \intersect used(g) = {}
        /\ \A c \in Clusters : fat[c] # FREE => \E h \in chains : c \in used(h)

\* fat_prepare_write's tests of the clean bit and of the second copy.
MarkedClean(img) ==
    /\ FatCopy(img, 1)[1] = CLEAN
    /\ COPIES > 1 => FatCopy(img, 2) = FatCopy(img, 1)

-----------------------------------------------------------------------------
(* The disk.  It has a write cache: external, as the drivers use it.       *)

Put(sec, val) == [op |-> "put", sec |-> sec, val |-> val]
SlotPut(place, val) == [op |-> "slot", sec |-> DataSector(place[1]), at |-> place[2], val |-> val]
Flush == [op |-> "flush"]
GiveUp == [op |-> "give up"]

\* What a write leaves in its sector; fat_entry_write reads the sector first.
Written(cmd) == IF cmd.op = "put" THEN cmd.val ELSE [disk[cmd.sec] EXCEPT ![cmd.at] = cmd.val]

\* The volumes a power failure may leave.
Images ==
    FoldSet(LAMBDA s, imgs : {[img EXCEPT ![s] = v] : img \in imgs, v \in media[s]}, {disk}, Sectors)

-----------------------------------------------------------------------------
(* What the operations write.                                              *)

\* Mutants: no flush at the end; only the first copy is written.
FlushCache_NoFlush(c, set) ==
    LET dirty == SetToSortSeq({SectorOf(x) : x \in set}, <)
        val(s) == [x \in {y \in Entries : SectorOf(y) = s} |-> c[x]]
        copies(s) == [k \in 1 .. COPIES |-> Put(FatSector(k, s), val(s))]
    IN  FlattenSeq([i \in 1 .. Len(dirty) |-> copies(dirty[i])])

FlushCache_FirstCopy(c, set) ==
    LET dirty == SetToSortSeq({SectorOf(x) : x \in set}, <)
        val(s) == [x \in {y \in Entries : SectorOf(y) = s} |-> c[x]]
    IN  [i \in 1 .. Len(dirty) |-> Put(FatSector(1, dirty[i]), val(dirty[i]))] \o <<Flush>>

\* fat_flush_cache after the entries "set" were changed.
FlushCache(c, set) ==
    LET dirty == SetToSortSeq({SectorOf(x) : x \in set}, <)
        val(s) == [x \in {y \in Entries : SectorOf(y) = s} |-> c[x]]
        copies(s) == [k \in 1 .. COPIES |-> Put(FatSector(k, s), val(s))]
    IN  FlattenSeq([i \in 1 .. Len(dirty) |-> copies(dirty[i])]) \o <<Flush>>

Marked(c, mark) == [c EXCEPT ![1] = mark]

\* Mutant: the clean bit stays up.
BeginWrite_KeepsClean(c) == FlushCache(c, {1}) \o <<Flush>>

BeginWrite(c) == FlushCache(Marked(c, DIRTY), {1}) \o <<Flush>>

FinishWrite(c) == FlushCache(Marked(c, CLEAN), {1})

\* The first n free clusters from the hint on, as n calls of fat_allocate
\* return them; fewer when the volume is full.
Allocated(c, h, n) ==
    LET away(x) == (x + N - h) % N
        free == {x \in Clusters : c[x] = FREE}
        before(x) == {y \in free : away(y) < away(x)}
    IN  [i \in 1 .. Min({n, Cardinality(free)}) |->
           CHOOSE x \in free : Cardinality(before(x)) = i - 1]

HintAfter(h, new) == IF new = <<>> THEN h ELSE IF Last(new) = N + 1 THEN 2 ELSE Last(new) + 1

Linked(c, new) ==
    [x \in Entries |-> IF \E i \in 1 .. Len(new) : new[i] = x
                       THEN LET i == CHOOSE j \in 1 .. Len(new) : new[j] = x
                            IN  IF i = Len(new) THEN EOC ELSE new[i + 1]
                       ELSE c[x]]

Freed(c, old) == [x \in Entries |-> IF x \in old THEN FREE ELSE c[x]]

\* fat_replace_locked: dirty, data, FAT, directory, old chain, clean.
Replacement(c, h, e, n, ver) ==
    LET new == Allocated(c, h, n)
        old == IF e.slot.first = 0 THEN {} ELSE Range(Chain(c, e.slot.first))
        linked == Linked(Marked(c, DIRTY), new)
        data == [i \in 1 .. Len(new) |-> Put(DataSector(new[i]), Contents(ver, i))]
        first == IF n = 0 THEN 0 ELSE new[1]
        left == Freed(linked, old)
    IN  [cache |-> Marked(left, CLEAN), new |-> new,
         todo |-> BeginWrite(c) \o data \o
             IF Len(new) < n THEN <<GiveUp>>
             ELSE <<Flush>> \o FlushCache(linked, Range(new))
                  \o <<SlotPut(e.place, Short(e.slot.name, first, n, FALSE)), Flush>>
                  \o FlushCache(left, old)
                  \o FinishWrite(left)]

-----------------------------------------------------------------------------
(* fat_slots.                                                              *)

\* The entries of a run are deleted ones, or any from the end mark on.
Ended(slots, k) == \E j \in 1 .. k : slots[j] = End
RunAt(slots, k) ==
    Max({r \in 0 .. k : \A j \in k - r + 1 .. k : Ended(slots, j) \/ slots[j] = Deleted})

\* Where the scan stops for LFNS + 1 entries, and one more to end the directory.
Stops(slots) ==
    {k \in 1 .. Len(slots) : RunAt(slots, k) >= LFNS + 1 + IF Ended(slots, k) THEN 1 ELSE 0}

Grown(slots, g) == slots \o [k \in 1 .. g * EPC |-> End]

\* Clusters the directory must grow by before the scan finds its run.
Growth(slots) == Min({g \in 0 .. LFNS + 2 : Stops(Grown(slots, g)) # {}})

\* A new directory cluster is zeroed and in the FAT before it is linked.
Extension(c, last, new) ==
    LET alloc == [c EXCEPT ![new] = EOC]
    IN  <<Put(DataSector(new), Zeroes), Flush>> \o FlushCache(alloc, {new})
          \o FlushCache([alloc EXCEPT ![last] = new], {last})

\* fat_create_locked.
Creation(c, h, f, dir) ==
    LET chain == Chain(c, ROOT)
        at == Places(chain)
        slots == [k \in 1 .. Len(at) |-> SlotAt(disk, at[k])]
        g == Growth(slots)
        new == Allocated(c, h, g + IF dir THEN 1 ELSE 0)
        grown == Min({g, Len(new)})
        spine == chain \o SubSeq(new, 1, grown)
        \* the cache after i clusters were appended
        grow[i \in 0 .. grown] ==
          IF i = 0 THEN Marked(c, DIRTY)
          ELSE [grow[i - 1] EXCEPT ![new[i]] = EOC, ![spine[Len(chain) + i - 1]] = new[i]]
        extend == FlattenSeq([i \in 1 .. grown |->
                    Extension(grow[i - 1], spine[Len(chain) + i - 1], new[i])])
        all == Grown(slots, g)
        stop == Min(Stops(all))
        ended == Ended(all, stop)
        length == LFNS + IF ended THEN 2 ELSE 1
        run == [i \in 1 .. length |-> Place(spine, stop - length + i)]
        endmark == IF ended THEN <<SlotPut(run[LFNS + 2], End), Flush>> ELSE <<>>
        placeholders == [i \in 1 .. LFNS + 1 |-> SlotPut(run[i], Deleted)] \o <<Flush>>
        first == IF dir THEN new[g + 1] ELSE 0
        dots == IF dir
                THEN <<Put(DataSector(first), Zeroes), SlotPut(<<first, 1>>, [kind |-> "dot"]),
                       SlotPut(<<first, 2>>, [kind |-> "dot"])>>
                ELSE <<>>
        owned == IF dir THEN [grow[g] EXCEPT ![first] = EOC] ELSE grow[g]
        long == [i \in 1 .. LFNS |-> SlotPut(run[i], Long(f, LFNS + 1 - i))] \o <<Flush>>
        short == <<SlotPut(run[LFNS + 1], Short(f, first, 0, dir)), Flush>>
        failed == Len(new) < g + IF dir THEN 1 ELSE 0
    IN  [cache |-> IF failed THEN grow[grown] ELSE Marked(owned, CLEAN), new |-> new,
         todo |-> BeginWrite(c) \o extend \o
             IF grown < g THEN <<GiveUp>>
             ELSE endmark \o placeholders \o
                  IF failed THEN <<GiveUp>>
                  ELSE dots \o <<Flush>> \o FlushCache(owned, IF dir THEN {first} ELSE {})
                       \o long \o short \o FinishWrite(owned)]

-----------------------------------------------------------------------------
\* fat_mount of a consistent volume.
Init ==
    \E v \in Volumes :
      LET spine == [i \in 1 .. Len(v.root) \div EPC |-> IF i = 1 THEN ROOT ELSE N + 3 - i]
          files == DOMAIN v.chains
          fat == FoldSet(LAMBDA f, c : Linked(c, v.chains[f]),
                         Linked([x \in Entries |-> IF x = 1 THEN CLEAN ELSE FREE], spine), files)
          data == [c \in Clusters |->
                     IF c \in Range(spine)
                     THEN LET i == CHOOSE j \in 1 .. Len(spine) : spine[j] = c
                          IN  SubSeq(v.root, (i - 1) * EPC + 1, i * EPC)
                     ELSE Contents(0, IF fat[c] = FREE THEN 0
                                      ELSE CHOOSE i \in 1 .. N : \E f \in files :
                                             i <= Len(v.chains[f]) /\ v.chains[f][i] = c)]
      IN  /\ disk = [s \in Sectors |->
                       IF s[1] = "fat" THEN [x \in {y \in Entries : SectorOf(y) = s[3]} |-> fat[x]]
                       ELSE data[s[2]]]
          /\ media = [s \in Sectors |-> {disk[s]}]
          /\ cache = fat
          /\ allowed = [f \in Names |-> {Reading(disk, f)}]
          /\ alloc_hint = 2 /\ free_clusters = 0 /\ todo = <<>> /\ ops = 0
          /\ goal = [name |-> CHOOSE f \in Names : TRUE, what |-> Absent]
          /\ write_ready = FALSE /\ write_failed = FALSE /\ disk_error = FALSE

\* fat_prepare_write: the volume is audited once after it was mounted, and the
\* operations start from the FAT, the hint and the count it leaves.
Prepared == ~write_failed /\ (write_ready \/ (MarkedClean(disk) /\ Audited(disk)))
Cache == IF write_ready THEN cache ELSE FatCopy(disk, 1)
Hint == IF write_ready THEN alloc_hint ELSE 2
FreeClusters ==
    IF write_ready THEN free_clusters
    ELSE Cardinality({c \in Clusters : FatCopy(disk, 1)[c] = FREE})

\* An operation begins: its commands are queued and the name may be either.
Start(plan, name, what, freed) ==
    /\ todo' = plan.todo /\ cache' = plan.cache
    /\ alloc_hint' = HintAfter(Hint, plan.new)
    /\ free_clusters' = FreeClusters - Len(plan.new) + freed
    /\ write_ready' = TRUE
    /\ goal' = [name |-> name, what |-> what]
    /\ allowed' = [allowed EXCEPT ![name] = @ \union {what}]
    /\ ops' = ops + 1
    /\ UNCHANGED <<disk, media, write_failed, disk_error>>

Idle == todo = <<>> /\ ops < MAX_OPS

\* fat_replace_locked with n clusters of new contents.
fat_replace(e, n) ==
    /\ Idle /\ Prepared /\ ~e.slot.dir
    /\ n <= FreeClusters
    /\ Start(Replacement(Cache, Hint, e, n, ops + 1), e.slot.name,
             File(IF n = 0 THEN 0 ELSE ops + 1, n),
             IF e.slot.first = 0 THEN 0 ELSE Len(Chain(Cache, e.slot.first)))

\* Mutant: no test of the free clusters.
fat_create_NoReserve(f, dir) ==
    /\ Idle /\ Prepared
    /\ Reading(disk, f) = Absent
    /\ Start(Creation(Cache, Hint, f, dir), f, IF dir THEN Directory ELSE File(0, 0), 0)

\* fat_create_locked of a file or a directory that does not exist.
fat_create(f, dir) ==
    /\ Idle /\ Prepared
    /\ Reading(disk, f) = Absent
    /\ FreeClusters >= RESERVE
    /\ Start(Creation(Cache, Hint, f, dir), f, IF dir THEN Directory ELSE File(0, 0), 0)

\* k_vfs_sync.
k_vfs_sync ==
    /\ todo = <<>> /\ write_ready /\ ~write_failed
    /\ todo' = <<Flush>>
    /\ UNCHANGED <<disk, media, cache, alloc_hint, free_clusters, write_ready, write_failed,
                   goal, allowed, ops, disk_error>>

\* The disk carries out the next command.
command ==
    /\ todo # <<>> /\ Head(todo) # GiveUp
    /\ IF Head(todo) = Flush
       THEN disk' = disk /\ media' = [s \in Sectors |-> {disk[s]}]
       ELSE LET s == Head(todo).sec IN
            /\ disk' = [disk EXCEPT ![s] = Written(Head(todo))]
            /\ media' = [media EXCEPT ![s] = @ \union {Written(Head(todo))}]
    /\ todo' = Tail(todo)
    /\ allowed' = IF Len(todo) = 1 THEN [allowed EXCEPT ![goal.name] = {goal.what}] ELSE allowed
    /\ UNCHANGED <<cache, alloc_hint, free_clusters, write_ready, write_failed, goal, ops, disk_error>>

\* fat_finish_write with an error: the volume is read-only from now on.
Freeze ==
    /\ write_failed' = TRUE /\ todo' = <<>>
    /\ UNCHANGED <<cache, alloc_hint, free_clusters, write_ready, goal, allowed, ops>>

\* The disk reports an error, and the write may or may not have reached it; or
\* the operation found no free cluster and gives up.
command_fails ==
    /\ todo # <<>>
    /\ CASE Head(todo) = GiveUp -> UNCHANGED <<disk, media, disk_error>>
         [] Head(todo) = Flush -> UNCHANGED <<disk, media>> /\ disk_error' = TRUE
         [] OTHER -> LET s == Head(todo).sec IN
              /\ media' = [media EXCEPT ![s] = @ \union {Written(Head(todo))}]
              /\ disk' \in {disk, [disk EXCEPT ![s] = Written(Head(todo))]}
              /\ disk_error' = TRUE
    /\ Freeze

\* Power fails; the volume is mounted again from what the disk kept.
power_fails ==
    \E img \in Images :
      /\ disk' = img
      /\ media' = [s \in Sectors |-> {img[s]}]
      /\ cache' = FatCopy(img, 1) /\ alloc_hint' = 2 /\ free_clusters' = 0
      /\ todo' = <<>>
      /\ allowed' = [f \in Names |-> allowed[f] \intersect {Reading(img, f)}]
      /\ write_ready' = FALSE /\ write_failed' = FALSE /\ disk_error' = FALSE
      /\ UNCHANGED <<goal, ops>>

Next ==
    \/ \E e \in Root(disk), n \in 0 .. MAX_SIZE : fat_replace(e, n)
    \/ \E f \in Names, dir \in BOOLEAN : fat_create(f, dir)
    \/ k_vfs_sync \/ command \/ command_fails \/ power_fails

Spec == Init /\ [][Next]_vars

-----------------------------------------------------------------------------
\* Variables have their types: fat_volume's fields, and the disk holds FAT
\* sectors and clusters of EPC entries.
TypeOK ==
    /\ DOMAIN disk = Sectors /\ DOMAIN media = Sectors
    /\ \A s \in Sectors : disk[s] \in media[s]
    /\ cache \in [Entries -> 0 .. N + 2]
    /\ alloc_hint \in Clusters /\ free_clusters \in 0 .. N
    /\ {write_ready, write_failed, disk_error} \subseteq BOOLEAN
    /\ goal.name \in Names /\ DOMAIN allowed = Names /\ ops \in 0 .. MAX_OPS

\* Whenever the power fails, or a command, every name is what it was or what
\* the operation in progress makes of it, whole, and nothing else; once
\* fat_finish_write returned success it is the new one.
ContentsSurvive == \A img \in Images, f \in Names : Reading(img, f) \in allowed[f]

\* What the comment in fat_create_locked promises: "Write deleted placeholders
\* first so a partial LFN never exposes stale entries."  Wherever the power
\* fails, only names that exist or are being created are listed.
StaleStaysHidden ==
    \A img \in Images : \A e \in Root(img) : allowed[e.slot.name] # {Absent}

\* A volume that fat_prepare_write takes for clean has no broken, shared or
\* lost chain: the clean bit is down on the disk before the first change, and
\* up only after the last.
CleanMeansConsistent == \A img \in Images : MarkedClean(img) => Audited(img)

\* The volume freezes for disk errors only: the free clusters counted before
\* fat_begin_write suffice for everything the operation allocates.
FrozenByDiskOnly == write_failed => disk_error

\* Between operations the cached FAT is the disk's and the count of free
\* clusters that fat_replace_locked and fat_create_locked trust is exact.
CacheAgrees ==
    write_ready /\ ~write_failed /\ todo = <<>> =>
      /\ \A k \in 1 .. COPIES : cache = FatCopy(disk, k)
      /\ free_clusters = Cardinality({c \in Clusters : cache[c] = FREE})

=============================================================================
