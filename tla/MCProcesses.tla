---------------------------- MODULE MCProcesses ----------------------------
(***************************************************************************)
(* Small instances of Processes and of Ipc, one of which runs while the    *)
(* other stays in its initial state.                                       *)
(***************************************************************************)
EXTENDS Processes, Ipc, TLC

ASSUME IpcAssumption

VARIABLE part           \* the one that runs

\* Slots, partitions and service names are used and compared as names only.
Symmetry ==
    Permutations(Procs) \cup Permutations(Parts \ Protected)
        \cup Permutations(Slots) \cup Permutations(Names)

MCInit == part \in {"processes", "ipc"} /\ Init /\ IpcInit

MCNext ==
    /\ \/ part = "processes" /\ Next /\ UNCHANGED ipcVars
       \/ part = "ipc" /\ IpcNext /\ UNCHANGED vars
    /\ UNCHANGED part

MCSpec == MCInit /\ [][MCNext]_<<part, vars, ipcVars>>
=============================================================================
