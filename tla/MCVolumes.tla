------------------------------ MODULE MCVolumes ------------------------------
(***************************************************************************)
(* Small instances of the two kinds of writable volume, one of which runs  *)
(* while the other stays in one of its initial states: FatWrite on the     *)
(* volumes of MCFatWrite, and NativeFs on ext4 and NTFS volumes: a         *)
(* fragmented one with a small file, one with a file above LIMIT, one that *)
(* is not clean and one that is read-only.                                 *)
(***************************************************************************)
EXTENDS MCFatWrite

VARIABLES
    system,     \* the one that runs
    volume, super, failed, store, writes, change, names, changes

native == <<volume, super, failed, store, writes, change, names, changes>>

NativeVolume(kind, read_only, clean, runs) ==
    [kind |-> kind, read_only |-> read_only, clean |-> clean, files |-> <<[name |-> "a", runs |-> runs]>>]

NativeVolumes ==
    UNION {{NativeVolume(k, FALSE, TRUE, <<2>>), NativeVolume(k, FALSE, TRUE, <<1, 2, 4>>),
            NativeVolume(k, FALSE, FALSE, <<1>>), NativeVolume(k, TRUE, TRUE, <<1>>)} : k \in {"ext4", "ntfs"}}

NF == INSTANCE NativeFs WITH
    BLOCKS <- 5, INODES <- 3, Names <- {"a", "b", "hiberfil.sys"}, HIBER <- "hiberfil.sys",
    SLOTS <- 2, EXTENTS <- 2, PARTS <- 2, LIMIT <- 2, MAX_OPS <- 2, Volumes <- NativeVolumes,
    disk <- store, todo <- writes, goal <- change, allowed <- names, ops <- changes

ASSUME NF!NativeAssumption

MCInit ==
    /\ system \in {"fat", "native"} /\ Init /\ NF!Init
    /\ system = "fat" => volume = [kind |-> "ext4", read_only |-> TRUE] /\ super.clean
    /\ system = "native" => allowed["old"] = {File(0, 2)}

MCNext ==
    /\ \/ system = "fat" /\ Next /\ UNCHANGED native
       \/ system = "native" /\ NF!Next /\ UNCHANGED vars
    /\ UNCHANGED system

MCSpec == MCInit /\ [][MCNext]_<<system, vars, native>>

\* The properties of NativeFs, for its instance.
OldNewOrRefused == NF!OldNewOrRefused
DirtyUntilConsistent == NF!DirtyUntilConsistent
=============================================================================
