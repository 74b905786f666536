----------------------------- MODULE MCFatWrite -----------------------------
(* Volumes of seven clusters, four of them free, with two FAT copies of     *)
(* three sectors.  The root directory has two entries per cluster and each  *)
(* name needs two: a creation reuses deleted entries, or takes the entries  *)
(* at the end mark and moves the mark, or grows the directory by one or two *)
(* clusters, and a second one may find too few clusters.  Entries behind    *)
(* an end mark may be stale.                                                *)
EXTENDS FatWrite

OldFile(chain) ==
    <<Long("old", 1), Short("old", IF chain = <<>> THEN 0 ELSE chain[1], Len(chain), FALSE)>>
Volume(before, chain, after) ==
    [root |-> before \o OldFile(chain) \o after, chains |-> [f \in {"old"} |-> chain]]
Stale == Short("stale", 3, 1, FALSE)

FatVolumes ==
    {Volume(<<>>, <<3, 5>>, <<>>),
     Volume(<<Deleted, Deleted>>, <<4>>, <<>>),
     Volume(<<>>, <<3>>, <<End, End>>),
     Volume(<<>>, <<>>, <<Deleted, End, Stale, End>>)}

\* A stale entry right behind the end mark.
StaleVolumes == {Volume(<<>>, <<3>>, <<End, Stale>>)}
=============================================================================
