------------------------------ MODULE MCMemory ------------------------------
(***************************************************************************)
(* Small instances of the memory managers, one of which runs while the     *)
(* others stay in their initial states:                                    *)
(*   Pmm with two CPUs and five pages of which 2..4 are managed;           *)
(*   AddressSpace with tables of two entries: a user slot of eight pages,  *)
(*   a second slot that only K_ADMIN_MAP_AT reaches, and windows below     *)
(*   the first allocation but under a table shared with it, among the      *)
(*   allocations, and in the second slot;                                  *)
(*   Heap with pages of eight bytes, arenas of two pages and four units,   *)
(*   and requests for one unit, for two because of the canary, for an      *)
(*   aligned unit, and for large blocks because of size and alignment.     *)
(***************************************************************************)
EXTENDS Pmm, AddressSpace, Heap

ASSUME AddressSpaceAssumption /\ HeapAssumption

VARIABLE manager        \* the one that runs

\* Overlapping, clipped, reserved and out-of-range descriptors.
MCEfiMap ==
    {[conventional |-> TRUE,  first |-> 0, pages |-> 4],
     [conventional |-> TRUE,  first |-> 3, pages |-> 1],
     [conventional |-> FALSE, first |-> 5, pages |-> 1],
     [conventional |-> TRUE,  first |-> 4, pages |-> 9],
     [conventional |-> TRUE,  first |-> 7, pages |-> 4]}

MCMaxima == {0, 4095, 4 * 4096}

MCRequests == {<<3, 1>>, <<4, 1>>, <<2, 8>>, <<8, 1>>, <<1, 16>>}

MCInit == manager \in {"pmm", "space", "heap"} /\ Init /\ SpaceInit /\ HeapInit

MCNext ==
    /\ \/ manager = "pmm" /\ Next /\ UNCHANGED <<spaceVars, heapVars>>
       \/ manager = "space" /\ SpaceNext /\ UNCHANGED <<vars, heapVars>>
       \/ manager = "heap" /\ HeapNext /\ UNCHANGED <<vars, spaceVars>>
    /\ UNCHANGED manager

MCSpec == MCInit /\ [][MCNext]_<<manager, vars, spaceVars, heapVars>> /\ Fairness
=============================================================================
