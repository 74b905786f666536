----------------------------- MODULE Processes -----------------------------
(***************************************************************************)
(* Processes and what they lease: kernel/process.c.                        *)
(*                                                                         *)
(* A process is created, loaded and started, runs, is stopped, continued   *)
(* or killed, dies and is destroyed.  Meanwhile it may lease the raw input *)
(* stream and partitions and reach into the memory of others.  All of it   *)
(* is done by other processes, inside system calls, and by the kernel's    *)
(* shell.                                                                  *)
(*                                                                         *)
(* process_mutex covers the operations that take several steps; holder,    *)
(* step and target are the actor inside it, how far it is and what it      *)
(* works on.  An operation that makes one observable change while it owns  *)
(* the mutex is one step, possible while nobody holds it.  (That the       *)
(* mutex excludes, and that its owner is not stopped or killed, is what    *)
(* Scheduler shows.)  CPU affinity is left out: any process may ask for    *)
(* what the code grants on CPU 0 only.                                     *)
(***************************************************************************)
EXTENDS Naturals

CONSTANTS Procs,            \* processes[]
          Parts,            \* partitions[]
          Protected,        \* the partitions that are read_only or mounted
          Shell,            \* the kernel thread of the shell
          None,
          MAX_PID           \* bound on the number of processes ever created

ASSUME ProcessesAssumption ==
    /\ Protected \subseteq Parts
    /\ Shell \notin Procs /\ None \notin Procs \cup Parts \cup {Shell}
    /\ MAX_PID \in Nat

Actors == Procs \cup {Shell}
States == {"UNUSED", "NEW", "LOADED", "LIVE", "STOPPED", "ZOMBIE"}

VARIABLES
    pstate,             \* used, loaded, task_id and state: one of States
    pid, parent, class,
    request,            \* control_request of the process's task
    oncpu,              \* whose task is current or stack_owner of a CPU
    holder, step, target,
    reading,            \* the processes inside K_ADMIN_INPUT_READ
    input_owner,
    owner, failed,      \* owner_pid and failed of a partition
    next_pid            \* next_process_id

procVars == <<pstate, pid, parent, class, request>>
mutexVars == <<holder, step, target>>
leaseVars == <<input_owner, owner, failed>>
vars == <<procVars, oncpu, mutexVars, reading, leaseVars, next_pid>>

Pids == 0..MAX_PID
PidOf(a) == IF a = Shell THEN 0 ELSE pid[a]
HasTask(p) == pstate[p] \in {"LIVE", "STOPPED", "ZOMBIE"}
MutexFree == holder = None

Init ==
    /\ pstate = [p \in Procs |-> "UNUSED"]
    /\ pid = [p \in Procs |-> 0]
    /\ parent = [p \in Procs |-> 0]
    /\ class = [p \in Procs |-> "RING3"]
    /\ request = [p \in Procs |-> "NONE"]
    /\ oncpu = {}
    /\ holder = None /\ step = "none" /\ target = None
    /\ reading = {}
    /\ input_owner = 0
    /\ owner = [d \in Parts |-> 0]
    /\ failed = [d \in Parts |-> FALSE]
    /\ next_pid = 1

\* p executes in user mode: it may enter the kernel or be interrupted.
InUser(p) == pstate[p] = "LIVE" /\ p \in oncpu /\ holder # p /\ p \notin reading

\* Who can begin an operation: a process by a system call, or the shell.
Ready(a) == IF a = Shell THEN holder # Shell ELSE InUser(a)

Ring1(p) == InUser(p) /\ class[p] = "RING1"

Enter(a, s, x) == holder' = a /\ step' = s /\ target' = x
Leave == holder' = None /\ step' = "none" /\ target' = None
-----------------------------------------------------------------------------
(***************************************************************************)
(* Creation.  A process is launched in one go, or, by the shell only,      *)
(* created, loaded and started by separate calls.                          *)
(***************************************************************************)

\* next_process_id counts up; it is 0, and creation fails, once it has wrapped.
PidsLeft == next_pid <= MAX_PID

NextPid == next_pid + 1

\* The first critical section of process_create_locked.
Create(a, p, c, s) ==
    /\ MutexFree /\ Ready(a)
    /\ pstate[p] = "UNUSED"
    /\ PidsLeft
    /\ s = "create" => a = Shell /\ c = "RING3"
    /\ a # Shell /\ c = "RING1" => class[a] = "RING1"
    /\ pstate' = [pstate EXCEPT ![p] = "NEW"]
    /\ pid' = [pid EXCEPT ![p] = next_pid]
    /\ parent' = [parent EXCEPT ![p] = PidOf(a)]
    /\ class' = [class EXCEPT ![p] = c]
    /\ request' = [request EXCEPT ![p] = "NONE"]
    /\ next_pid' = NextPid
    /\ Enter(a, s, p)
    /\ UNCHANGED <<oncpu, reading, leaseVars>>

\* k_as_create fails: the slot is given back (its id means nothing any more).
NoSpace ==
    /\ step \in {"create", "launch"}
    /\ pstate[target] = "NEW"
    /\ pstate' = [pstate EXCEPT ![target] = "UNUSED"]
    /\ pid' = [pid EXCEPT ![target] = 0]
    /\ Leave
    /\ UNCHANGED <<parent, class, request, oncpu, reading, leaseVars, next_pid>>

\* k_process_create returns; k_process_launch goes on to load.
Created ==
    /\ step = "create"
    /\ Leave
    /\ UNCHANGED <<procVars, oncpu, reading, leaseVars, next_pid>>

LaunchLoaded ==
    /\ step = "launch" /\ pstate[target] = "NEW"
    /\ pstate' = [pstate EXCEPT ![target] = "LOADED"]
    /\ UNCHANGED <<pid, parent, class, request, oncpu, mutexVars, reading, leaseVars, next_pid>>

\* process_start_locked: the task is READY.
LaunchStarted ==
    /\ step = "launch" /\ pstate[target] = "LOADED"
    /\ pstate' = [pstate EXCEPT ![target] = "LIVE"]
    /\ Leave
    /\ UNCHANGED <<pid, parent, class, request, oncpu, reading, leaseVars, next_pid>>

\* k_rief_load and k_process_start, called by the shell.
ShellAdvance(p, from, to) ==
    /\ MutexFree
    /\ pstate[p] = from
    /\ pstate' = [pstate EXCEPT ![p] = to]
    /\ UNCHANGED <<pid, parent, class, request, oncpu, mutexVars, reading, leaseVars, next_pid>>
-----------------------------------------------------------------------------
(***************************************************************************)
(* Death and destruction.                                                  *)
(***************************************************************************)

\* process_resources_release, without the services.
Release_InputOnly(p) ==
    /\ input_owner' = IF input_owner = pid[p] THEN 0 ELSE input_owner
    /\ UNCHANGED <<owner, failed>>

Release(p) ==
    /\ owner' = [d \in Parts |-> IF owner[d] = pid[p] THEN 0 ELSE owner[d]]
    /\ input_owner' = IF input_owner = pid[p] THEN 0 ELSE input_owner
    /\ UNCHANGED failed

\* K_SYS_EXIT, k_task_exit, a user fault or a bad user frame.
Exit(p) ==
    /\ InUser(p)
    /\ pstate' = [pstate EXCEPT ![p] = "ZOMBIE"]
    /\ UNCHANGED <<pid, parent, class, request, oncpu, mutexVars, reading, leaseVars, next_pid>>

\* process_return_control: a request is applied on the way to user mode.
ReturnControl(p) ==
    /\ InUser(p)
    /\ request[p] # "NONE"
    /\ pstate' = [pstate EXCEPT ![p] = IF request[p] = "KILL" THEN "ZOMBIE" ELSE "STOPPED"]
    /\ request' = [request EXCEPT ![p] = "NONE"]
    /\ IF request[p] = "KILL" THEN Release(p) ELSE UNCHANGED leaseVars
    /\ UNCHANGED <<pid, parent, class, oncpu, mutexVars, reading, next_pid>>

\* process_control_locked.
MayControl(a, p) == a \in Procs => (a = p \/ parent[p] = pid[a] \/ class[a] = "RING1")

Control(a, p, op) ==
    /\ MutexFree /\ Ready(a)
    /\ pstate[p] \in {"LIVE", "STOPPED"}
    /\ MayControl(a, p)
    /\ request' = [request EXCEPT ![p] =
                     IF @ = "KILL" THEN @ ELSE IF op = "CONTINUE" THEN "NONE" ELSE op]
    /\ pstate' = [pstate EXCEPT ![p] = "LIVE"]
    /\ UNCHANGED <<pid, parent, class, oncpu, mutexVars, reading, leaseVars, next_pid>>

\* The test and the first critical section of process_destroy_locked: the
\* task is freed and the leases are dropped.
Destroyable_OnCpu(p) ==
    /\ pstate[p] # "UNUSED"
    /\ HasTask(p) => pstate[p] = "ZOMBIE"

Destroyable(p) ==
    /\ pstate[p] # "UNUSED"
    /\ HasTask(p) => pstate[p] = "ZOMBIE" /\ p \notin oncpu

DestroyBegin(a, p) ==
    /\ Destroyable(p)
    /\ Release(p)
    /\ Enter(a, "destroy", p)
    /\ UNCHANGED <<procVars, oncpu, reading, next_pid>>

\* A launch that fails to load or to start undoes the creation.
LaunchFailed ==
    /\ step = "launch"
    /\ pstate[target] \in {"NEW", "LOADED"}
    /\ DestroyBegin(holder, target)

\* k_process_destroy and k_process_reap_pid, called by the shell, and
\* K_SYS_WAITPID with K_WAIT_REAP, which waits for a zombie.
MayReap(a, p) ==
    a \in Procs => /\ a # p /\ pstate[p] = "ZOMBIE"
                   /\ parent[p] = pid[a] \/ class[a] = "RING1"

Reap(a, p) ==
    /\ MutexFree /\ Ready(a)
    /\ MayReap(a, p)
    /\ DestroyBegin(a, p)

\* k_as_destroy succeeds, the slot is zeroed and the mutex unlocked.
DestroyEnd ==
    /\ step = "destroy"
    /\ pstate' = [pstate EXCEPT ![target] = "UNUSED"]
    /\ pid' = [pid EXCEPT ![target] = 0]
    /\ parent' = [parent EXCEPT ![target] = 0]
    /\ class' = [class EXCEPT ![target] = "RING3"]
    /\ request' = [request EXCEPT ![target] = "NONE"]
    /\ Leave
    /\ UNCHANGED <<oncpu, reading, leaseVars, next_pid>>
-----------------------------------------------------------------------------
(***************************************************************************)
(* The scheduler, as far as it matters here.                               *)
(***************************************************************************)
Dispatch(p) ==
    /\ pstate[p] = "LIVE" /\ p \notin oncpu
    /\ oncpu' = oncpu \cup {p}
    /\ UNCHANGED <<procVars, mutexVars, reading, leaseVars, next_pid>>

Deschedule(p) ==
    /\ p \in oncpu
    /\ oncpu' = oncpu \ {p}
    /\ UNCHANGED <<procVars, mutexVars, reading, leaseVars, next_pid>>
-----------------------------------------------------------------------------
(***************************************************************************)
(* Remote memory: K_ADMIN_MEM_READ, K_ADMIN_MEM_WRITE and K_ADMIN_MAP_AT.  *)
(***************************************************************************)

\* The target is the caller, has no task, or is stopped and off every CPU.
Safe_Published(p, q) == p = q \/ ~HasTask(q) \/ pstate[q] = "STOPPED"

Safe(p, q) == p = q \/ ~HasTask(q) \/ (pstate[q] = "STOPPED" /\ q \notin oncpu)

RemoteBegin(p, q) ==
    /\ MutexFree /\ Ring1(p)
    /\ pstate[q] # "UNUSED"
    /\ Safe(p, q)
    /\ Enter(p, "remote", q)
    /\ UNCHANGED <<procVars, oncpu, reading, leaseVars, next_pid>>

\* The copy or the mapping is done, or failed.
RemoteEnd ==
    /\ step = "remote"
    /\ holder \in oncpu
    /\ Leave
    /\ UNCHANGED <<procVars, oncpu, reading, leaseVars, next_pid>>
-----------------------------------------------------------------------------
(***************************************************************************)
(* Input and partition leases.                                             *)
(***************************************************************************)
Busy(lease, p) == lease # 0 /\ lease # pid[p]

InputClaim(p) ==
    /\ Ring1(p)
    /\ ~Busy(input_owner, p)
    /\ input_owner' = pid[p]
    /\ UNCHANGED <<procVars, oncpu, mutexVars, reading, owner, failed, next_pid>>

InputRelease(p) ==
    /\ Ring1(p)
    /\ input_owner = pid[p]
    /\ input_owner' = 0
    /\ UNCHANGED <<procVars, oncpu, mutexVars, reading, owner, failed, next_pid>>

InputReadBegin(p) ==
    /\ Ring1(p)
    /\ input_owner = pid[p]
    /\ reading' = reading \cup {p}
    /\ UNCHANGED <<procVars, oncpu, mutexVars, leaseVars, next_pid>>

InputReadEnd(p) ==
    /\ p \in reading \cap oncpu
    /\ reading' = reading \ {p}
    /\ UNCHANGED <<procVars, oncpu, mutexVars, leaseVars, next_pid>>

\* k_input_claimed, polled by the shell: a dead owner loses the lease.
InputPoll ==
    /\ ~ \E p \in Procs : /\ pstate[p] \notin {"UNUSED", "ZOMBIE"}
                          /\ pid[p] = input_owner
    /\ input_owner' = 0
    /\ UNCHANGED <<procVars, oncpu, mutexVars, reading, owner, failed, next_pid>>

PartClaim(p, d) ==
    /\ MutexFree /\ Ring1(p)
    /\ d \notin Protected /\ ~failed[d]
    /\ ~Busy(owner[d], p)
    /\ owner' = [owner EXCEPT ![d] = pid[p]]
    /\ UNCHANGED <<procVars, oncpu, mutexVars, reading, input_owner, failed, next_pid>>

PartRelease(p, d) ==
    /\ MutexFree /\ Ring1(p)
    /\ owner[d] = pid[p]
    /\ owner' = [owner EXCEPT ![d] = 0]
    /\ UNCHANGED <<procVars, oncpu, mutexVars, reading, input_owner, failed, next_pid>>

\* K_ADMIN_PART_READ and K_ADMIN_PART_WRITE, up to the transfer.
MayTransfer_NoQuarantine(p, d) == owner[d] = pid[p]

MayTransfer(p, d) == owner[d] = pid[p] /\ ~failed[d]

TransferBegin(p, d, s) ==
    /\ MutexFree /\ Ring1(p)
    /\ MayTransfer(p, d)
    /\ Enter(p, s, d)
    /\ UNCHANGED <<procVars, oncpu, reading, leaseVars, next_pid>>

\* The transfer is over.  A write that failed, or could not be flushed,
\* quarantines the partition; a failed read does not.
TransferEnd(ok) ==
    /\ step \in {"read", "write"}
    /\ holder \in oncpu
    /\ failed' = [failed EXCEPT ![target] = @ \/ (step = "write" /\ ~ok)]
    /\ Leave
    /\ UNCHANGED <<procVars, oncpu, reading, input_owner, owner, next_pid>>
-----------------------------------------------------------------------------
Next ==
    \/ \E a \in Actors, p \in Procs :
        \/ \E c \in {"RING1", "RING3"}, s \in {"create", "launch"} : Create(a, p, c, s)
        \/ \E op \in {"KILL", "STOP", "CONTINUE"} : Control(a, p, op)
        \/ Reap(a, p)
    \/ NoSpace \/ Created \/ LaunchLoaded \/ LaunchStarted \/ LaunchFailed \/ DestroyEnd
    \/ \E p \in Procs :
        \/ ShellAdvance(p, "NEW", "LOADED") \/ ShellAdvance(p, "LOADED", "LIVE")
        \/ Exit(p) \/ ReturnControl(p) \/ Dispatch(p) \/ Deschedule(p)
        \/ InputClaim(p) \/ InputRelease(p) \/ InputReadBegin(p) \/ InputReadEnd(p)
    \/ \E p, q \in Procs : RemoteBegin(p, q)
    \/ RemoteEnd \/ InputPoll
    \/ \E p \in Procs, d \in Parts :
        \/ PartClaim(p, d) \/ PartRelease(p, d)
        \/ TransferBegin(p, d, "read") \/ TransferBegin(p, d, "write")
    \/ TransferEnd(TRUE) \/ TransferEnd(FALSE)

Spec == Init /\ [][Next]_vars
-----------------------------------------------------------------------------
TypeOK ==
    /\ pstate \in [Procs -> States]
    /\ pid \in [Procs -> Pids] /\ parent \in [Procs -> Pids]
    /\ class \in [Procs -> {"RING1", "RING3"}]
    /\ request \in [Procs -> {"NONE", "KILL", "STOP"}]
    /\ oncpu \subseteq Procs /\ reading \subseteq Procs
    /\ holder \in Actors \cup {None}
    /\ step \in {"none", "create", "launch", "destroy", "remote", "read", "write"}
    /\ target \in Procs \cup Parts \cup {None}
    /\ input_owner \in Pids
    /\ owner \in [Parts -> Pids] /\ failed \in [Parts -> BOOLEAN]
    /\ next_pid \in 1..(MAX_PID + 1)

\* A lease is never held by a process instance that is gone: whenever
\* input_owner or an owner_pid is set, a process with that id, which has been
\* started, is still in the table (process.c: "Resource leases cannot outlive
\* the owning process instance").
LeasesHaveOwner ==
    \A l \in {input_owner} \cup {owner[d] : d \in Parts} :
        l # 0 => \E p \in Procs : pid[p] = l /\ HasTask(p)

\* While admin_operation transfers to or from a partition, or waits for an
\* input report, the lease it tested before is still the caller's, and no
\* transfer touches a quarantined or protected partition.
AccessHoldsLease ==
    /\ step \in {"read", "write"} =>
        owner[target] = pid[holder] /\ ~failed[target] /\ target \notin Protected
    /\ \A p \in reading : input_owner = pid[p]

\* While another process's memory is copied or mapped, that process exists
\* and does not run: what the code tested before the copy stays true until
\* the end of it, although sched_lock was dropped.
RemoteTargetIsStill ==
    step = "remote" /\ target # holder =>
        /\ pstate[target] \in {"NEW", "LOADED", "STOPPED"}
        /\ target \notin oncpu

\* Between the two critical sections of process_destroy_locked the victim
\* has no task that runs or could run, so that k_as_destroy cannot refuse
\* with the destruction half done, and no CPU is on the stack that was freed.
DyingIsStill ==
    step = "destroy" =>
        /\ pstate[target] \in {"NEW", "LOADED", "ZOMBIE"}
        /\ target \notin oncpu \cup reading

\* A process id names one process: two slots in use never share one, although
\* slots are reused.
PidsAreUnique ==
    \A p, q \in Procs : pstate[p] # "UNUSED" /\ pid[p] = pid[q] => p = q

\* kernel.h: "Raw input can be leased to one helper and is released on
\* process death."
InputReleasedOnDeath ==
    \A p \in Procs : pstate[p] = "ZOMBIE" => input_owner # pid[p]
=============================================================================
