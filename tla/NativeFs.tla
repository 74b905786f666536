------------------------------ MODULE NativeFs ------------------------------
(***************************************************************************)
(* Changing an ext4 or an NTFS volume (fs/fs.c, "native" volumes).  An     *)
(* operation stages the metadata blocks it changes in memory and gives up  *)
(* without a trace when one of its tests fails.  Its commit then marks the *)
(* volume dirty, writes the data to free blocks, writes the staged blocks  *)
(* in the order they were staged, and marks the volume clean.  Every       *)
(* native_write_bytes ends in a flush: when the power fails, or a command, *)
(* any of the sectors of the command in progress may have been written.    *)
(*                                                                         *)
(* The unit of space is the block.  An ext4 volume has one block group;    *)
(* all names live in the root directory, which has a block (ext4) or a     *)
(* record (NTFS) of its own.  An NTFS record is PARTS sectors, each with   *)
(* the record's update sequence number; the attributes fit into the first. *)
(***************************************************************************)
EXTENDS Integers, FiniteSetsExt, SequencesExt

CONSTANTS BLOCKS,     \* data blocks
          INODES,     \* inodes (ext4) or file records (NTFS)
          Names,      \* names in the root directory
          HIBER,      \* the name hiberfil.sys
          SLOTS,      \* entries the root directory has room for
          EXTENTS,    \* extents an ext4 inode holds (4)
          PARTS,      \* sectors of an NTFS record
          LIMIT,      \* largest file that is replaced as a whole (4 MiB)
          Volumes,    \* volumes to start from: kind, read_only, clean and files by number
          MAX_OPS     \* bound on the number of operations

NativeAssumption ==
    /\ {BLOCKS, INODES, SLOTS, EXTENTS, PARTS} \subseteq Nat \ {0}
    /\ {LIMIT, MAX_OPS} \subseteq Nat

VARIABLES volume,   \* kind and read_only of the native_volume
          super,    \* v->super, the superblock of an ext4 volume in memory
          failed,   \* v->failed
          disk,     \* what the disk holds, by unit
          todo,     \* the writes left of the operation in progress: units and values
          goal,     \* the name it changes and what the name will be
          allowed,  \* what each name may be: history
          ops       \* operations so far; the version of new contents

vars == <<volume, super, failed, disk, todo, goal, allowed, ops>>

-----------------------------------------------------------------------------
(* Units of the disk and their values.                                     *)

Blocks == 1 .. BLOCKS
Inodes == 1 .. INODES
ROOT == 0
VOLUME == INODES + 1

ext4 == volume.kind = "ext4"

Zero == 0
Initial == 1
Dots == MAX_OPS + 2     \* the block of an empty ext4 directory
Stale == MAX_OPS + 3    \* what a free block holds

Node(links, dir, runs) == [links |-> links, dir |-> dir, runs |-> runs]
Unused == Node(0, FALSE, <<>>)

Absent == [kind |-> "absent"]
Directory == [kind |-> "directory"]
File(data) == [kind |-> "file", data |-> data]
Unreadable == [kind |-> "unreadable"]

Data(b) == <<"data", b>>
Inode(i) == <<"inode", i>>
Part(r, p) == <<"record", r, p>>

-----------------------------------------------------------------------------
(* Reading an image of the volume.                                         *)

\* ntfs_record with ntfs_fixup: refused when the parts are of different writes.
ntfs_record(img, r) ==
    {b \in {img[Part(r, 1)].body} : \A p \in 1 .. PARTS : img[Part(r, p)].usn = img[Part(r, 1)].usn}

\* The node of a file, at most one.
ext_inode(img, i) == {img[Inode(i)]}
Nodes(img, i) == IF ext4 THEN ext_inode(img, i) ELSE ntfs_record(img, i)

\* The root directory, at most one: the inode of each name, 0 for none, and with
\* NTFS the size in its entry.
ext_directory(img) == {img[<<"dir">>]}
ntfs_directory(img) == ntfs_record(img, ROOT)
Roots(img) == IF ext4 THEN ext_directory(img) ELSE ntfs_directory(img)

\* ext_map and run_io.
Contents(img, runs) == [i \in 1 .. Len(runs) |-> img[Data(runs[i])]]

\* native_open and native_read of a name.  An ext4 inode without links does not
\* exist; an NTFS record that is not in use is an error.
Reading(img, f) ==
    LET root == CHOOSE x \in Roots(img) : TRUE
        node == CHOOSE x \in Nodes(img, root[f].ino) : TRUE
    IN  CASE Roots(img) = {} -> Unreadable
          [] root[f].ino = 0 -> Absent
          [] Nodes(img, root[f].ino) = {} -> Unreadable
          [] node.links = 0 -> IF ext4 THEN Absent ELSE Unreadable
          [] node.dir ->
                IF ext4 /\ Contents(img, node.runs) # <<Dots>> THEN Unreadable ELSE Directory
          [] OTHER -> File(Contents(img, node.runs))

\* native_clean: the tests every change starts with.
Clean(img) ==
    IF ext4 THEN img[<<"super">>].clean
    ELSE /\ \E b \in ntfs_record(img, VOLUME) : ~b.dirty
         /\ \/ Reading(img, HIBER) = Absent
            \/ /\ Reading(img, HIBER).kind = "file"
               /\ \A i \in 1 .. Len(Reading(img, HIBER).data) : Reading(img, HIBER).data[i] = Zero

\* The metadata agree: the bitmaps with the nodes, the counters with the
\* bitmaps, and every node in use has one name.
Consistent(img) ==
    LET node(i) == CHOOSE x \in Nodes(img, i) : TRUE
        root == CHOOSE x \in Roots(img) : TRUE
        used == {i \in Inodes : node(i).links > 0}
        dirs == {i \in used : node(i).dir}
        blocks(i) == Range(node(i).runs)
    IN  /\ Roots(img) # {} /\ \A i \in Inodes : Nodes(img, i) # {}
        /\ img[<<"files">>] = used
        /\ img[<<"blocks">>] = UNION {blocks(i) : i \in used}
        /\ \A i, j \in used : i # j => blocks(i) \intersect blocks(j) = {}
        /\ \A i \in used : Cardinality({f \in Names : root[f].ino = i}) = 1
        /\ \A f \in Names : root[f].ino # 0 => root[f].ino \in used
        /\ ext4 => LET d == img[<<"desc">>]
                       s == img[<<"super">>]
                   IN  /\ d.blocks = BLOCKS - Cardinality(img[<<"blocks">>]) /\ s.blocks = d.blocks
                       /\ d.inodes = INODES - Cardinality(used) /\ s.inodes = d.inodes
                       /\ d.dirs = 1 + Cardinality(dirs)
                       /\ img[Inode(ROOT)].links = 2 + Cardinality(dirs)
        /\ ~ext4 => \A f \in Names : root[f].ino # 0 => root[f].size = Len(node(root[f].ino).runs)

-----------------------------------------------------------------------------
(* Allocation: at most one choice, none when the operation is refused.     *)

Free(img) == Blocks \ img[<<"blocks">>]

\* The lowest n members of a set of numbers.
Lowest(set, n) == [i \in 1 .. n |-> CHOOSE b \in set : Cardinality({c \in set : c < b}) = i - 1]

Extents(runs) == {i \in 1 .. Len(runs) : i = 1 \/ runs[i] # runs[i - 1] + 1}

\* ext_alloc_runs.
ext_alloc_runs(free, n) ==
    IF n > Cardinality(free) THEN {}
    ELSE {r \in {Lowest(free, n)} : Cardinality(Extents(r)) <= EXTENTS}

\* nt_alloc_data: the first free run that is long enough.
nt_alloc_data(free, n) ==
    LET starts == {b \in free : b .. b + n - 1 \subseteq free}
    IN  IF n = 0 THEN {<<>>}
        ELSE IF starts = {} THEN {} ELSE {[i \in 1 .. n |-> Min(starts) + i - 1]}

\* Mutant: the old blocks of the file are free before the new ones are chosen.
Fresh_OldToo(img, old, n) ==
    IF ext4 THEN ext_alloc_runs(Free(img) \union Range(old), n)
    ELSE nt_alloc_data(Free(img) \union Range(old), n)

\* The blocks for n blocks of new contents of a file that now has the blocks old.
Fresh(img, old, n) == IF ext4 THEN ext_alloc_runs(Free(img), n) ELSE nt_alloc_data(Free(img), n)

-----------------------------------------------------------------------------
(* Commits.  A write maps units to values.                                 *)

DataWrites(runs, data) == [i \in 1 .. Len(runs) |-> Data(runs[i]) :> data[i]]

\* Mutant: the superblock among the staged blocks is marked clean.
ext_commit_CleanEarly(tx, order, runs, data) ==
    <<<<"super">> :> [super EXCEPT !.clean = FALSE]>>
      \o DataWrites(runs, data)
      \o [i \in 1 .. Len(order) |-> Restrict(tx, order[i])]
      \o <<<<"super">> :> tx[<<"super">>]>>

\* ext_commit: tx holds the staged blocks, order the order they were staged in.
ext_commit(tx, order, runs, data) ==
    LET s == tx[<<"super">>]
        dirty == (<<"super">> :> [s EXCEPT !.clean = FALSE]) @@ tx
    IN  <<<<"super">> :> [super EXCEPT !.clean = FALSE]>>
          \o DataWrites(runs, data)
          \o [i \in 1 .. Len(order) |-> Restrict(dirty, order[i])]
          \o <<<<"super">> :> s>>

\* nt_tx_record: the parts of a record, each a sector of the transaction.
nt_tx_record(r, usn, body) ==
    [p \in 1 .. PARTS |-> Part(r, p) :> [usn |-> usn + 1, body |-> body]]

Usn(r) == disk[Part(r, 1)].usn

\* The copy of the volume record in $MFTMirr.
Mirror(seq) == [p \in 1 .. PARTS |-> <<"mirror", p>> :> seq[p][Part(VOLUME, p)]]

\* ntfs_dirty and ntfs_store_record: the n-th write of the record in this
\* operation, whole, and its mirror.
ntfs_dirty(n, dirty) ==
    LET val == [usn |-> Usn(VOLUME) + n, body |-> [dirty |-> dirty]]
    IN  <<[u \in {Part(VOLUME, p) : p \in 1 .. PARTS} |-> val],
          [u \in {<<"mirror", p>> : p \in 1 .. PARTS} |-> val]>>

\* nt_commit.
nt_commit(staged, runs, data) ==
    LET vol == nt_tx_record(VOLUME, Usn(VOLUME), [dirty |-> TRUE])
    IN  ntfs_dirty(1, TRUE) \o DataWrites(runs, data)
          \o staged \o vol \o Mirror(vol)
          \o ntfs_dirty(2, FALSE)

-----------------------------------------------------------------------------
(* Transactions.                                                           *)

\* ext_tx_bit for every block taken or given back: the bitmap and both counters.
Accounted(taken, old, inodes, dirs) ==
    LET n == Cardinality(taken) - Cardinality(old)
        d == disk[<<"desc">>]
        s == disk[<<"super">>]
    IN  (<<"blocks">> :> (disk[<<"blocks">>] \union taken) \ old)
        @@ (<<"desc">> :> [blocks |-> d.blocks - n, inodes |-> d.inodes - inodes,
                           dirs |-> d.dirs + dirs])
        @@ (<<"super">> :> [s EXCEPT !.blocks = @ - n, !.inodes = @ - inodes])

ext_tx_inode(i, node) == Inode(i) :> node

ext_replace(i, runs, data) ==
    LET node == disk[Inode(i)]
        tx == ext_tx_inode(i, [node EXCEPT !.runs = runs])
              @@ Accounted(Range(runs), Range(node.runs), 0, 0)
        order == IF runs = <<>> /\ node.runs = <<>>
                 THEN <<{<<"desc">>}, {Inode(i)}, {<<"super">>}>>
                 ELSE <<{<<"desc">>}, {<<"blocks">>}, {<<"super">>}, {Inode(i)}>>
    IN  ext_commit(tx, order, runs, data)

ext_add_dirent(f, i) == <<"dir">> :> [disk[<<"dir">>] EXCEPT ![f] = [ino |-> i]]

\* ext_create: the entry is staged before the inode table, which holds both inodes.
ext_create(f, i, dir, runs, data) ==
    LET grown == IF dir THEN 1 ELSE 0
        tx == ext_tx_inode(i, Node(1 + grown, dir, runs))
              @@ ext_tx_inode(ROOT, [disk[Inode(ROOT)] EXCEPT !.links = @ + grown])
              @@ ext_add_dirent(f, i)
              @@ (<<"files">> :> disk[<<"files">>] \union {i})
              @@ Accounted(Range(runs), {}, 1, grown)
        blocks == IF runs = <<>> THEN <<>> ELSE <<{<<"blocks">>}>>
    IN  ext_commit(tx, <<{<<"desc">>}, {<<"files">>}, {<<"super">>}>> \o blocks
                         \o <<{<<"dir">>}, {Inode(i), Inode(ROOT)}>>, runs, data)

Bitmap(unit, val) == IF disk[unit] = val THEN <<>> ELSE <<unit :> val>>

\* nt_index_change: the entry of the name in the resident index of the root.
nt_index_change(f, i, size) ==
    LET root == CHOOSE x \in ntfs_record(disk, ROOT) : TRUE
    IN  nt_tx_record(ROOT, Usn(ROOT), [root EXCEPT ![f] = [ino |-> i, size |-> size]])

\* ntfs_replace.
ntfs_replace(f, i, runs, data) ==
    LET node == CHOOSE x \in ntfs_record(disk, i) : TRUE
    IN  nt_commit(Bitmap(<<"blocks">>, (disk[<<"blocks">>] \union Range(runs)) \ Range(node.runs))
                    \o nt_index_change(f, i, Len(runs))
                    \o nt_tx_record(i, Usn(i), [node EXCEPT !.runs = runs]), runs, data)

\* The sequence numbers of a new record start again, whatever was there before.
nt_new_record(i, node) == nt_tx_record(i, 0, node)

\* ntfs_create: $MFT's bitmap, $Bitmap, the index, the record.
ntfs_create(f, i, dir, runs, data) ==
    nt_commit(Bitmap(<<"files">>, disk[<<"files">>] \union {i})
                \o Bitmap(<<"blocks">>, disk[<<"blocks">>] \union Range(runs))
                \o nt_index_change(f, i, Len(runs))
                \o nt_new_record(i, Node(1, dir, runs)), runs, data)

-----------------------------------------------------------------------------
(* Operations.                                                             *)

\* native_probe of a volume; an ext4 volume that is not clean is read-only.
Mounted(v, img) ==
    /\ volume' = [v EXCEPT !.read_only = @ \/ (v.kind = "ext4" /\ ~img[<<"super">>].clean)]
    /\ super' = IF v.kind = "ext4" THEN img[<<"super">>] ELSE Unused
    /\ disk' = img /\ failed' = FALSE /\ todo' = <<>>

\* The image of a volume with the given files.
Formatted(v) ==
    LET used == DOMAIN v.files
        node(i) == IF i \in used THEN Node(1, FALSE, v.files[i].runs) ELSE Unused
        blocks == UNION {Range(v.files[i].runs) : i \in used}
        ino(f) == IF \E i \in used : v.files[i].name = f
                  THEN CHOOSE i \in used : v.files[i].name = f ELSE 0
        count == [blocks |-> BLOCKS - Cardinality(blocks), inodes |-> INODES - Cardinality(used)]
        record(r, body) == [u \in {Part(r, p) : p \in 1 .. PARTS} |-> [usn |-> 1, body |-> body]]
        common == [u \in {Data(b) : b \in Blocks} |-> IF u[2] \in blocks THEN Initial ELSE Stale]
                  @@ (<<"blocks">> :> blocks) @@ (<<"files">> :> used)
    IN  IF v.kind = "ext4"
        THEN common
             @@ [u \in {Inode(i) : i \in Inodes} |-> node(u[2])]
             @@ (Inode(ROOT) :> Node(2, TRUE, <<>>))
             @@ (<<"dir">> :> [f \in Names |-> [ino |-> ino(f)]])
             @@ (<<"desc">> :> (count @@ [dirs |-> 1]))
             @@ (<<"super">> :> (count @@ [clean |-> v.clean]))
        ELSE FoldSet(LAMBDA i, img : record(i, node(i)) @@ img, common, Inodes)
             @@ record(ROOT, [f \in Names |-> [ino |-> ino(f), size |-> Len(node(ino(f)).runs)]])
             @@ record(VOLUME, [dirty |-> ~v.clean])
             @@ [u \in {<<"mirror", p>> : p \in 1 .. PARTS} |->
                   [usn |-> 1, body |-> [dirty |-> ~v.clean]]]

Init ==
    \E v \in Volumes :
      /\ volume = [kind |-> v.kind, read_only |-> v.read_only \/ (v.kind = "ext4" /\ ~v.clean)]
      /\ disk = Formatted(v)
      /\ super = IF v.kind = "ext4" THEN disk[<<"super">>] ELSE Unused
      /\ failed = FALSE /\ todo = <<>> /\ ops = 0
      /\ goal = [name |-> HIBER, what |-> {}]
      /\ allowed = [f \in Names |-> {Reading(disk, f)}]

Ready == todo = <<>> /\ ops < MAX_OPS /\ ~failed /\ ~volume.read_only /\ Clean(disk)

Root == CHOOSE x \in Roots(disk) : TRUE
Ino(f) == Root[f].ino
Runs(f) == (CHOOSE x \in Nodes(disk, Ino(f)) : TRUE).runs

\* The commit begins; until it ends the name is what it was or one of "what".
Start(writes, f, what) ==
    /\ todo' = writes
    /\ goal' = [name |-> f, what |-> what]
    /\ allowed' = [allowed EXCEPT ![f] = @ \union what]
    /\ ops' = ops + 1
    /\ UNCHANGED <<volume, super, failed, disk>>

Replace(f, data) ==
    \E runs \in Fresh(disk, Runs(f), Len(data)) :
      Start(IF ext4 THEN ext_replace(Ino(f), runs, data) ELSE ntfs_replace(f, Ino(f), runs, data),
            f, {File(data)})

\* The lowest free inode, a slot in the directory; an ext4 directory has a block.
Create(f, dir, data) ==
    LET free == Inodes \ disk[<<"files">>]
        stored == IF dir /\ ext4 THEN <<Dots>> ELSE data
    IN  /\ Reading(disk, f) = Absent
        /\ free # {}
        /\ Cardinality({g \in Names : Ino(g) # 0}) < SLOTS
        /\ \E runs \in Fresh(disk, <<>>, Len(stored)) :
             Start(IF ext4 THEN ext_create(f, Min(free), dir, runs, stored)
                   ELSE ntfs_create(f, Min(free), dir, runs, stored),
                   f, {IF dir THEN Directory ELSE File(data)})

\* k_vfs_put: native_store.
k_vfs_put(f, n) ==
    /\ Ready
    /\ IF Reading(disk, f) = Absent THEN Create(f, FALSE, [i \in 1 .. n |-> ops + 2])
       ELSE Reading(disk, f).kind = "file" /\ Replace(f, [i \in 1 .. n |-> ops + 2])

\* k_vfs_create and k_vfs_mkdir: native_create.
k_vfs_create(f, dir) == Ready /\ Create(f, dir, <<>>)

\* native_write of a file that stays small: all of it is read and replaced.
native_write(f, offset, n) ==
    /\ Ready /\ Reading(disk, f).kind = "file"
    /\ LET old == Reading(disk, f).data IN
       /\ Len(old) <= LIMIT /\ offset + n <= LIMIT
       /\ Replace(f, [i \in 1 .. Max({Len(old), offset + n}) |->
                        IF i \in offset + 1 .. offset + n THEN ops + 2
                        ELSE IF i <= Len(old) THEN old[i] ELSE Zero])

\* native_write of a large file: in place, and only where it has blocks.
native_overwrite(f, offset, n) ==
    /\ Ready /\ Reading(disk, f).kind = "file"
    /\ LET old == Reading(disk, f).data
           upto(k) == [i \in 1 .. Len(old) |->
                         IF i \in offset + 1 .. offset + k THEN ops + 2 ELSE old[i]]
       IN  /\ Len(old) > LIMIT \/ offset + n > LIMIT
           /\ offset + n <= Len(old)
           /\ Start([i \in 1 .. n |-> Data(Runs(f)[offset + i]) :> ops + 2],
                    f, {File(upto(k)) : k \in 1 .. n})

\* native_write_bytes succeeds.  After the last write of ext_commit v->super is
\* the superblock on the disk.
command ==
    /\ todo # <<>> /\ ~failed
    /\ disk' = Head(todo) @@ disk
    /\ todo' = Tail(todo)
    /\ super' = IF ext4 /\ Len(todo) = 1 THEN disk'[<<"super">>] ELSE super
    /\ allowed' = IF Len(todo) > 1 THEN allowed
                  ELSE [allowed EXCEPT ![goal.name] = {Reading(disk', goal.name)} \intersect @]
    /\ UNCHANGED <<volume, failed, goal, ops>>

\* A write or its flush fails: nothing more is written until the next mount.
command_fails ==
    /\ todo # <<>> /\ ~failed
    /\ failed' = TRUE
    /\ todo' = <<Head(todo)>>
    /\ UNCHANGED <<volume, super, disk, goal, allowed, ops>>

\* What a power failure may leave: any of the sectors of the command in progress.
Images ==
    IF todo = <<>> THEN {disk}
    ELSE {Restrict(Head(todo), set) @@ disk : set \in SUBSET DOMAIN Head(todo)}

power_fails ==
    /\ \E img \in Images :
         Mounted(volume, img) /\ allowed' = [f \in Names |-> {Reading(img, f)}]
    /\ UNCHANGED <<goal, ops>>

Next ==
    \/ \E f \in Names, n \in 0 .. LIMIT : k_vfs_put(f, n)
    \/ \E f \in Names, dir \in BOOLEAN : k_vfs_create(f, dir)
    \/ \E f \in Names, offset \in 0 .. BLOCKS, n \in 1 .. BLOCKS :
          native_write(f, offset, n) \/ native_overwrite(f, offset, n)
    \/ command \/ command_fails \/ power_fails

Spec == Init /\ [][Next]_vars

-----------------------------------------------------------------------------
\* Wherever a power failure or an I/O error stops native_write, native_store or
\* native_create, every name reads as it was before or as the operation makes
\* it (the blocks so far, for a large file written in place), never as a mixture
\* and never as stale blocks.  The one exception is an NTFS record of which only
\* some sectors were written: ntfs_fixup refuses it, and native_clean the volume.
OldNewOrRefused ==
    \A img \in Images, f \in Names :
       Reading(img, f) \in allowed[f] \/ (~ext4 /\ ~Clean(img) /\ Reading(img, f) = Unreadable)

\* A volume that native_clean takes for clean has consistent metadata, wherever
\* the power failed: the dirty mark is on the disk before the first change, and
\* neither a staged block nor the order of the staged blocks takes it away
\* before the last one is there.
DirtyUntilConsistent == \A img \in Images : Clean(img) => Consistent(img)

=============================================================================
