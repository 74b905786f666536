-------------------------- MODULE ProcessesProofs --------------------------
(***************************************************************************)
(* Proofs about Processes, for any number of slots, partitions and ids.    *)
(***************************************************************************)
EXTENDS Processes, TLAPS

\* What the actor inside process_mutex works on, and that it is alive: a
\* control request is applied in user mode only.
MutexInv ==
    /\ holder = None <=> step = "none"
    /\ step \in {"create", "launch", "destroy", "remote"} => target \in Procs
    /\ step \in {"read", "write"} => target \in Parts
    /\ step \in {"remote", "read", "write"} => holder \in Procs
    /\ step = "create" => pstate[target] = "NEW"
    /\ step = "launch" => pstate[target] \in {"NEW", "LOADED"}
    /\ \A p \in Procs : holder = p => pstate[p] = "LIVE"

\* Only started processes run or read input, and a reader is alive.
RunInv ==
    /\ \A p \in oncpu : HasTask(p)
    /\ \A p \in reading : pstate[p] = "LIVE" /\ holder # p

\* Ids are given out once, and a free slot has none.
PidInv ==
    /\ \A p \in Procs : IF pstate[p] = "UNUSED" THEN pid[p] = 0
                        ELSE pid[p] # 0 /\ pid[p] < next_pid
    /\ PidsAreUnique

\* The victim of a destruction holds no lease, protected partitions are
\* never leased.
LeaseInv ==
    /\ LeasesHaveOwner
    /\ step = "destroy" => /\ input_owner # pid[target]
                           /\ \A d \in Parts : owner[d] # pid[target]
    /\ \A d \in Protected : owner[d] = 0

IInv ==
    /\ TypeOK /\ MutexInv /\ RunInv /\ PidInv /\ LeaseInv
    /\ AccessHoldsLease /\ RemoteTargetIsStill /\ DyingIsStill
-----------------------------------------------------------------------------
USE DEF procVars, mutexVars, leaseVars, Ready, InUser, MutexFree, Enter, Leave, IInv

(***************************************************************************)
(* A part of the invariant can only be disturbed through its variables.    *)
(***************************************************************************)
LEMMA Kept ==
    ASSUME IInv
    PROVE  /\ UNCHANGED <<mutexVars, pstate>> => MutexInv'
           /\ UNCHANGED <<pstate, oncpu, reading, holder>> => RunInv'
           /\ UNCHANGED <<pstate, pid, next_pid>> => PidInv'
           /\ UNCHANGED <<pstate, pid, step, target, input_owner, owner>> => LeaseInv'
           /\ UNCHANGED <<mutexVars, pid, reading, leaseVars>> => AccessHoldsLease'
           /\ UNCHANGED <<mutexVars, pstate, oncpu>> => RemoteTargetIsStill'
           /\ UNCHANGED <<step, target, pstate, oncpu, reading>> => DyingIsStill'
BY DEF MutexInv, RunInv, PidInv, PidsAreUnique, LeaseInv, LeasesHaveOwner, AccessHoldsLease,
       RemoteTargetIsStill, DyingIsStill, HasTask

\* A process is created in a free slot with a fresh id.
LEMMA CreateStep ==
    ASSUME IInv, NEW a \in Actors, NEW p \in Procs, NEW c \in {"RING1", "RING3"}, NEW s \in {"create", "launch"},
           Create(a, p, c, s)
    PROVE  IInv'
<1>1. TypeOK'
    BY ProcessesAssumption DEF Create, PidsLeft, NextPid, PidOf, TypeOK, Pids, States, Actors
<1>2. MutexInv'
    BY ProcessesAssumption DEF Create, PidsLeft, NextPid, PidOf, TypeOK, MutexInv, Actors
<1>3. RunInv'
    BY ProcessesAssumption DEF Create, PidsLeft, NextPid, PidOf, TypeOK, MutexInv, RunInv, HasTask, Actors
<1>4. PidInv'
    BY ProcessesAssumption DEF Create, PidsLeft, NextPid, PidOf, TypeOK, PidInv, PidsAreUnique, Pids
<1>5. LeaseInv'
    BY ProcessesAssumption DEF Create, PidsLeft, NextPid, PidOf, TypeOK, MutexInv, PidInv, PidsAreUnique, LeaseInv,
           LeasesHaveOwner, HasTask, Pids
<1>6. AccessHoldsLease'
    BY ProcessesAssumption DEF Create, PidsLeft, NextPid, PidOf, TypeOK, MutexInv, RunInv, PidInv, PidsAreUnique, LeaseInv,
           AccessHoldsLease
<1>7. RemoteTargetIsStill'
    BY ProcessesAssumption DEF Create, PidsLeft, NextPid, PidOf, TypeOK, MutexInv, RunInv, RemoteTargetIsStill
<1>8. DyingIsStill'
    BY ProcessesAssumption DEF Create, PidsLeft, NextPid, PidOf, TypeOK, MutexInv, RunInv, DyingIsStill, HasTask
<1>. QED
    BY <1>1, <1>2, <1>3, <1>4, <1>5, <1>6, <1>7, <1>8, Kept DEF Create, PidsLeft, NextPid, PidOf

\* A control request wakes a stopped process; the mutex is free, so nobody is copying its memory.
LEMMA ControlStep ==
    ASSUME IInv, NEW a \in Actors, NEW p \in Procs, NEW c \in {"KILL", "STOP", "CONTINUE"},
           Control(a, p, c)
    PROVE  IInv'
<1>1. TypeOK'
    BY ProcessesAssumption DEF Control, TypeOK, Pids, States, Actors
<1>2. MutexInv'
    BY ProcessesAssumption DEF Control, TypeOK, MutexInv, Actors
<1>3. RunInv'
    BY ProcessesAssumption DEF Control, TypeOK, MutexInv, RunInv, HasTask, Actors
<1>4. PidInv'
    BY ProcessesAssumption DEF Control, TypeOK, PidInv, PidsAreUnique, Pids
<1>5. LeaseInv'
    BY ProcessesAssumption DEF Control, TypeOK, MutexInv, PidInv, PidsAreUnique, LeaseInv, LeasesHaveOwner, HasTask, Pids
<1>6. RemoteTargetIsStill'
    BY ProcessesAssumption DEF Control, TypeOK, MutexInv, RunInv, RemoteTargetIsStill
<1>7. DyingIsStill'
    BY ProcessesAssumption DEF Control, TypeOK, MutexInv, RunInv, DyingIsStill, HasTask
<1>. QED
    BY <1>1, <1>2, <1>3, <1>4, <1>5, <1>6, <1>7, Kept DEF Control

\* A zombie off its CPU, or a process never started, is stripped of its leases.
LEMMA ReapStep ==
    ASSUME IInv, NEW a \in Actors, NEW p \in Procs,
           Reap(a, p)
    PROVE  IInv'
<1>1. TypeOK'
    BY ProcessesAssumption DEF Reap, MayReap, DestroyBegin, Destroyable, Release, TypeOK, Pids, States, Actors
<1>2. MutexInv'
    BY ProcessesAssumption DEF Reap, MayReap, DestroyBegin, Destroyable, Release, TypeOK, MutexInv, Actors
<1>3. RunInv'
    BY ProcessesAssumption DEF Reap, MayReap, DestroyBegin, Destroyable, Release, TypeOK, MutexInv, RunInv, HasTask, Actors
<1>4. LeaseInv'
    BY ProcessesAssumption DEF Reap, MayReap, DestroyBegin, Destroyable, Release, TypeOK, MutexInv, RunInv, PidInv,
           PidsAreUnique, LeaseInv, LeasesHaveOwner, AccessHoldsLease, RemoteTargetIsStill,
           DyingIsStill, Pids, States, Actors, HasTask
<1>5. AccessHoldsLease'
    BY ProcessesAssumption DEF Reap, MayReap, DestroyBegin, Destroyable, Release, TypeOK, MutexInv, RunInv, PidInv,
           PidsAreUnique, LeaseInv, LeasesHaveOwner, AccessHoldsLease, RemoteTargetIsStill,
           DyingIsStill, Pids, States, Actors, HasTask
<1>6. RemoteTargetIsStill'
    BY ProcessesAssumption DEF Reap, MayReap, DestroyBegin, Destroyable, Release, TypeOK, MutexInv, RunInv,
           RemoteTargetIsStill
<1>7. DyingIsStill'
    BY ProcessesAssumption DEF Reap, MayReap, DestroyBegin, Destroyable, Release, TypeOK, MutexInv, RunInv, PidInv,
           PidsAreUnique, LeaseInv, LeasesHaveOwner, AccessHoldsLease, RemoteTargetIsStill,
           DyingIsStill, Pids, States, Actors, HasTask
<1>. QED
    BY <1>1, <1>2, <1>3, <1>4, <1>5, <1>6, <1>7, Kept DEF Reap, MayReap, DestroyBegin, Destroyable, Release

\* Creation fails for want of an address space.
LEMMA NoSpaceStep ==
    ASSUME IInv, NoSpace
    PROVE  IInv'
<1>1. TypeOK'
    BY ProcessesAssumption DEF NoSpace, TypeOK, MutexInv, RunInv, PidInv, PidsAreUnique, LeaseInv, LeasesHaveOwner,
           AccessHoldsLease, RemoteTargetIsStill, DyingIsStill, Pids, States, Actors,
           HasTask
<1>2. MutexInv'
    BY ProcessesAssumption DEF NoSpace, TypeOK, MutexInv, Actors
<1>3. RunInv'
    BY ProcessesAssumption DEF NoSpace, TypeOK, MutexInv, RunInv, HasTask, Actors
<1>4. PidInv'
    BY ProcessesAssumption DEF NoSpace, TypeOK, PidInv, PidsAreUnique, Pids
<1>5. LeaseInv'
    BY ProcessesAssumption DEF NoSpace, TypeOK, MutexInv, PidInv, PidsAreUnique, LeaseInv, LeasesHaveOwner, HasTask, Pids
<1>6. AccessHoldsLease'
    BY ProcessesAssumption DEF NoSpace, TypeOK, MutexInv, RunInv, PidInv, PidsAreUnique, LeaseInv, AccessHoldsLease
<1>7. RemoteTargetIsStill'
    BY ProcessesAssumption DEF NoSpace, TypeOK, MutexInv, RunInv, RemoteTargetIsStill
<1>8. DyingIsStill'
    BY ProcessesAssumption DEF NoSpace, TypeOK, MutexInv, RunInv, DyingIsStill, HasTask
<1>. QED
    BY <1>1, <1>2, <1>3, <1>4, <1>5, <1>6, <1>7, <1>8, Kept DEF NoSpace

\* k_process_create returns.
LEMMA CreatedStep ==
    ASSUME IInv, Created
    PROVE  IInv'
<1>1. TypeOK'
    BY ProcessesAssumption DEF Created, TypeOK, Pids, States, Actors
<1>2. MutexInv'
    BY ProcessesAssumption DEF Created, TypeOK, MutexInv, Actors
<1>3. RunInv'
    BY ProcessesAssumption DEF Created, TypeOK, MutexInv, RunInv, HasTask, Actors
<1>4. LeaseInv'
    BY ProcessesAssumption DEF Created, TypeOK, MutexInv, PidInv, PidsAreUnique, LeaseInv, LeasesHaveOwner, HasTask, Pids
<1>5. AccessHoldsLease'
    BY ProcessesAssumption DEF Created, TypeOK, MutexInv, RunInv, PidInv, PidsAreUnique, LeaseInv, AccessHoldsLease
<1>6. RemoteTargetIsStill'
    BY ProcessesAssumption DEF Created, TypeOK, MutexInv, RunInv, RemoteTargetIsStill
<1>7. DyingIsStill'
    BY ProcessesAssumption DEF Created, TypeOK, MutexInv, RunInv, DyingIsStill, HasTask
<1>. QED
    BY <1>1, <1>2, <1>3, <1>4, <1>5, <1>6, <1>7, Kept DEF Created

\* A launch has loaded its image.
LEMMA LaunchLoadedStep ==
    ASSUME IInv, LaunchLoaded
    PROVE  IInv'
<1>1. TypeOK'
    BY ProcessesAssumption DEF LaunchLoaded, TypeOK, Pids, States, Actors
<1>2. MutexInv'
    BY ProcessesAssumption DEF LaunchLoaded, TypeOK, MutexInv, Actors
<1>3. RunInv'
    BY ProcessesAssumption DEF LaunchLoaded, TypeOK, MutexInv, RunInv, HasTask, Actors
<1>4. PidInv'
    BY ProcessesAssumption DEF LaunchLoaded, TypeOK, PidInv, PidsAreUnique, Pids
<1>5. LeaseInv'
    BY ProcessesAssumption DEF LaunchLoaded, TypeOK, MutexInv, PidInv, PidsAreUnique, LeaseInv, LeasesHaveOwner, HasTask,
           Pids
<1>6. RemoteTargetIsStill'
    BY ProcessesAssumption DEF LaunchLoaded, TypeOK, MutexInv, RunInv, RemoteTargetIsStill
<1>7. DyingIsStill'
    BY ProcessesAssumption DEF LaunchLoaded, TypeOK, MutexInv, RunInv, DyingIsStill, HasTask
<1>. QED
    BY <1>1, <1>2, <1>3, <1>4, <1>5, <1>6, <1>7, Kept DEF LaunchLoaded

\* A launch starts the process.
LEMMA LaunchStartedStep ==
    ASSUME IInv, LaunchStarted
    PROVE  IInv'
<1>1. TypeOK'
    BY ProcessesAssumption DEF LaunchStarted, TypeOK, Pids, States, Actors
<1>2. MutexInv'
    BY ProcessesAssumption DEF LaunchStarted, TypeOK, MutexInv, Actors
<1>3. RunInv'
    BY ProcessesAssumption DEF LaunchStarted, TypeOK, MutexInv, RunInv, HasTask, Actors
<1>4. PidInv'
    BY ProcessesAssumption DEF LaunchStarted, TypeOK, PidInv, PidsAreUnique, Pids
<1>5. LeaseInv'
    BY ProcessesAssumption DEF LaunchStarted, TypeOK, MutexInv, PidInv, PidsAreUnique, LeaseInv, LeasesHaveOwner, HasTask,
           Pids
<1>6. AccessHoldsLease'
    BY ProcessesAssumption DEF LaunchStarted, TypeOK, MutexInv, RunInv, PidInv, PidsAreUnique, LeaseInv, AccessHoldsLease
<1>7. RemoteTargetIsStill'
    BY ProcessesAssumption DEF LaunchStarted, TypeOK, MutexInv, RunInv, RemoteTargetIsStill
<1>8. DyingIsStill'
    BY ProcessesAssumption DEF LaunchStarted, TypeOK, MutexInv, RunInv, DyingIsStill, HasTask
<1>. QED
    BY <1>1, <1>2, <1>3, <1>4, <1>5, <1>6, <1>7, <1>8, Kept DEF LaunchStarted

\* A launch that fails turns into a destruction.
LEMMA LaunchFailedStep ==
    ASSUME IInv, LaunchFailed
    PROVE  IInv'
<1>1. TypeOK'
    BY ProcessesAssumption DEF LaunchFailed, DestroyBegin, Destroyable, Release, TypeOK, Pids, States, Actors
<1>2. MutexInv'
    BY ProcessesAssumption DEF LaunchFailed, DestroyBegin, Destroyable, Release, TypeOK, MutexInv, Actors
<1>3. RunInv'
    BY ProcessesAssumption DEF LaunchFailed, DestroyBegin, Destroyable, Release, TypeOK, MutexInv, RunInv, HasTask, Actors
<1>4. LeaseInv'
    BY ProcessesAssumption DEF LaunchFailed, DestroyBegin, Destroyable, Release, TypeOK, MutexInv, PidInv, PidsAreUnique,
           LeaseInv, LeasesHaveOwner, HasTask, Pids
<1>5. AccessHoldsLease'
    BY ProcessesAssumption DEF LaunchFailed, DestroyBegin, Destroyable, Release, TypeOK, MutexInv, RunInv, PidInv,
           PidsAreUnique, LeaseInv, AccessHoldsLease
<1>6. RemoteTargetIsStill'
    BY ProcessesAssumption DEF LaunchFailed, DestroyBegin, Destroyable, Release, TypeOK, MutexInv, RunInv,
           RemoteTargetIsStill
<1>7. DyingIsStill'
    BY ProcessesAssumption DEF LaunchFailed, DestroyBegin, Destroyable, Release, TypeOK, MutexInv, RunInv, DyingIsStill,
           HasTask
<1>. QED
    BY <1>1, <1>2, <1>3, <1>4, <1>5, <1>6, <1>7, Kept DEF LaunchFailed, DestroyBegin, Destroyable, Release

\* The slot is zeroed; nothing refers to it any more.
LEMMA DestroyEndStep ==
    ASSUME IInv, DestroyEnd
    PROVE  IInv'
<1>1. TypeOK'
    BY ProcessesAssumption DEF DestroyEnd, TypeOK, MutexInv, RunInv, PidInv, PidsAreUnique, LeaseInv, LeasesHaveOwner,
           AccessHoldsLease, RemoteTargetIsStill, DyingIsStill, Pids, States, Actors,
           HasTask
<1>2. MutexInv'
    BY ProcessesAssumption DEF DestroyEnd, TypeOK, MutexInv, Actors
<1>3. RunInv'
    BY ProcessesAssumption DEF DestroyEnd, TypeOK, MutexInv, RunInv, PidInv, PidsAreUnique, LeaseInv, LeasesHaveOwner,
           AccessHoldsLease, RemoteTargetIsStill, DyingIsStill, Pids, States, Actors,
           HasTask
<1>4. PidInv'
    BY ProcessesAssumption DEF DestroyEnd, TypeOK, PidInv, PidsAreUnique, Pids
<1>5. LeaseInv'
    BY ProcessesAssumption DEF DestroyEnd, TypeOK, MutexInv, PidInv, PidsAreUnique, LeaseInv, LeasesHaveOwner, HasTask,
           Pids
<1>6. AccessHoldsLease'
    BY ProcessesAssumption DEF DestroyEnd, TypeOK, MutexInv, RunInv, PidInv, PidsAreUnique, LeaseInv, AccessHoldsLease
<1>7. RemoteTargetIsStill'
    BY ProcessesAssumption DEF DestroyEnd, TypeOK, MutexInv, RunInv, RemoteTargetIsStill
<1>8. DyingIsStill'
    BY ProcessesAssumption DEF DestroyEnd, TypeOK, MutexInv, RunInv, DyingIsStill, HasTask
<1>. QED
    BY <1>1, <1>2, <1>3, <1>4, <1>5, <1>6, <1>7, <1>8, Kept DEF DestroyEnd

\* The shell loads an image.
LEMMA ShellLoadStep ==
    ASSUME IInv, NEW p \in Procs,
           ShellAdvance(p, "NEW", "LOADED")
    PROVE  IInv'
<1>1. TypeOK'
    BY ProcessesAssumption DEF ShellAdvance, TypeOK, Pids, States, Actors
<1>2. MutexInv'
    BY ProcessesAssumption DEF ShellAdvance, TypeOK, MutexInv, Actors
<1>3. RunInv'
    BY ProcessesAssumption DEF ShellAdvance, TypeOK, MutexInv, RunInv, HasTask, Actors
<1>4. PidInv'
    BY ProcessesAssumption DEF ShellAdvance, TypeOK, PidInv, PidsAreUnique, Pids
<1>5. LeaseInv'
    BY ProcessesAssumption DEF ShellAdvance, TypeOK, MutexInv, PidInv, PidsAreUnique, LeaseInv, LeasesHaveOwner, HasTask,
           Pids
<1>6. RemoteTargetIsStill'
    BY ProcessesAssumption DEF ShellAdvance, TypeOK, MutexInv, RunInv, RemoteTargetIsStill
<1>7. DyingIsStill'
    BY ProcessesAssumption DEF ShellAdvance, TypeOK, MutexInv, RunInv, DyingIsStill, HasTask
<1>. QED
    BY <1>1, <1>2, <1>3, <1>4, <1>5, <1>6, <1>7, Kept DEF ShellAdvance

\* The shell starts a process.
LEMMA ShellStartStep ==
    ASSUME IInv, NEW p \in Procs,
           ShellAdvance(p, "LOADED", "LIVE")
    PROVE  IInv'
<1>1. TypeOK'
    BY ProcessesAssumption DEF ShellAdvance, TypeOK, Pids, States, Actors
<1>2. MutexInv'
    BY ProcessesAssumption DEF ShellAdvance, TypeOK, MutexInv, Actors
<1>3. RunInv'
    BY ProcessesAssumption DEF ShellAdvance, TypeOK, MutexInv, RunInv, HasTask, Actors
<1>4. PidInv'
    BY ProcessesAssumption DEF ShellAdvance, TypeOK, PidInv, PidsAreUnique, Pids
<1>5. LeaseInv'
    BY ProcessesAssumption DEF ShellAdvance, TypeOK, MutexInv, PidInv, PidsAreUnique, LeaseInv, LeasesHaveOwner, HasTask,
           Pids
<1>6. RemoteTargetIsStill'
    BY ProcessesAssumption DEF ShellAdvance, TypeOK, MutexInv, RunInv, RemoteTargetIsStill
<1>7. DyingIsStill'
    BY ProcessesAssumption DEF ShellAdvance, TypeOK, MutexInv, RunInv, DyingIsStill, HasTask
<1>. QED
    BY <1>1, <1>2, <1>3, <1>4, <1>5, <1>6, <1>7, Kept DEF ShellAdvance

\* A process dies and keeps its leases until it is destroyed.
LEMMA ExitStep ==
    ASSUME IInv, NEW p \in Procs,
           Exit(p)
    PROVE  IInv'
<1>1. TypeOK'
    BY ProcessesAssumption DEF Exit, TypeOK, Pids, States, Actors
<1>2. MutexInv'
    BY ProcessesAssumption DEF Exit, TypeOK, MutexInv, Actors
<1>3. RunInv'
    BY ProcessesAssumption DEF Exit, TypeOK, MutexInv, RunInv, HasTask, Actors
<1>4. PidInv'
    BY ProcessesAssumption DEF Exit, TypeOK, PidInv, PidsAreUnique, Pids
<1>5. LeaseInv'
    BY ProcessesAssumption DEF Exit, TypeOK, MutexInv, PidInv, PidsAreUnique, LeaseInv, LeasesHaveOwner, HasTask, Pids
<1>6. RemoteTargetIsStill'
    BY ProcessesAssumption DEF Exit, TypeOK, MutexInv, RunInv, RemoteTargetIsStill
<1>7. DyingIsStill'
    BY ProcessesAssumption DEF Exit, TypeOK, MutexInv, RunInv, DyingIsStill, HasTask
<1>. QED
    BY <1>1, <1>2, <1>3, <1>4, <1>5, <1>6, <1>7, Kept DEF Exit

\* A pending request is applied: KILL drops the leases.
LEMMA ReturnControlStep ==
    ASSUME IInv, NEW p \in Procs,
           ReturnControl(p)
    PROVE  IInv'
<1>1. TypeOK'
    BY ProcessesAssumption DEF ReturnControl, Release, TypeOK, Pids, States, Actors
<1>2. MutexInv'
    BY ProcessesAssumption DEF ReturnControl, Release, TypeOK, MutexInv, Actors
<1>3. RunInv'
    BY ProcessesAssumption DEF ReturnControl, Release, TypeOK, MutexInv, RunInv, HasTask, Actors
<1>4. PidInv'
    BY ProcessesAssumption DEF ReturnControl, Release, TypeOK, PidInv, PidsAreUnique, Pids
<1>5. LeaseInv'
    BY ProcessesAssumption DEF ReturnControl, Release, TypeOK, MutexInv, RunInv, PidInv, PidsAreUnique, LeaseInv,
           LeasesHaveOwner, AccessHoldsLease, RemoteTargetIsStill, DyingIsStill, Pids,
           States, Actors, HasTask
<1>6. AccessHoldsLease'
    BY ProcessesAssumption DEF ReturnControl, Release, TypeOK, MutexInv, RunInv, PidInv, PidsAreUnique, LeaseInv,
           AccessHoldsLease
<1>7. RemoteTargetIsStill'
    BY ProcessesAssumption DEF ReturnControl, Release, TypeOK, MutexInv, RunInv, RemoteTargetIsStill
<1>8. DyingIsStill'
    BY ProcessesAssumption, SMTT(30) DEF ReturnControl, Release, TypeOK, MutexInv, RunInv, DyingIsStill, HasTask
<1>. QED
    BY <1>1, <1>2, <1>3, <1>4, <1>5, <1>6, <1>7, <1>8, Kept DEF ReturnControl, Release

\* A CPU starts to run a live process, which is no target of a copy or a destruction.
LEMMA DispatchStep ==
    ASSUME IInv, NEW p \in Procs,
           Dispatch(p)
    PROVE  IInv'
<1>1. TypeOK'
    BY ProcessesAssumption DEF Dispatch, TypeOK, Pids, States, Actors
<1>2. RunInv'
    BY ProcessesAssumption DEF Dispatch, TypeOK, MutexInv, RunInv, HasTask, Actors
<1>3. RemoteTargetIsStill'
    BY ProcessesAssumption DEF Dispatch, TypeOK, MutexInv, RunInv, RemoteTargetIsStill
<1>4. DyingIsStill'
    BY ProcessesAssumption DEF Dispatch, TypeOK, MutexInv, RunInv, DyingIsStill, HasTask
<1>. QED
    BY <1>1, <1>2, <1>3, <1>4, Kept DEF Dispatch

\* A CPU leaves a process.
LEMMA DescheduleStep ==
    ASSUME IInv, NEW p \in Procs,
           Deschedule(p)
    PROVE  IInv'
<1>1. TypeOK'
    BY ProcessesAssumption DEF Deschedule, TypeOK, Pids, States, Actors
<1>2. RunInv'
    BY ProcessesAssumption DEF Deschedule, TypeOK, MutexInv, RunInv, HasTask, Actors
<1>3. RemoteTargetIsStill'
    BY ProcessesAssumption DEF Deschedule, TypeOK, MutexInv, RunInv, RemoteTargetIsStill
<1>4. DyingIsStill'
    BY ProcessesAssumption DEF Deschedule, TypeOK, MutexInv, RunInv, DyingIsStill, HasTask
<1>. QED
    BY <1>1, <1>2, <1>3, <1>4, Kept DEF Deschedule

\* The input lease passes to a live caller.
LEMMA InputClaimStep ==
    ASSUME IInv, NEW p \in Procs,
           InputClaim(p)
    PROVE  IInv'
<1>1. TypeOK'
    BY ProcessesAssumption DEF InputClaim, Ring1, Busy, TypeOK, Pids, States, Actors
<1>2. LeaseInv'
    BY ProcessesAssumption DEF InputClaim, Ring1, Busy, TypeOK, MutexInv, RunInv, PidInv, PidsAreUnique, LeaseInv,
           LeasesHaveOwner, AccessHoldsLease, RemoteTargetIsStill, DyingIsStill, Pids,
           States, Actors, HasTask
<1>3. AccessHoldsLease'
    BY ProcessesAssumption, SMTT(30) DEF InputClaim, Ring1, Busy, TypeOK, MutexInv, RunInv, PidInv, PidsAreUnique, LeaseInv,
           AccessHoldsLease
<1>. QED
    BY <1>1, <1>2, <1>3, Kept DEF InputClaim, Ring1, Busy

\* The caller gives up the input lease.
LEMMA InputReleaseStep ==
    ASSUME IInv, NEW p \in Procs,
           InputRelease(p)
    PROVE  IInv'
<1>1. TypeOK'
    BY ProcessesAssumption DEF InputRelease, Ring1, TypeOK, Pids, States, Actors
<1>2. LeaseInv'
    BY ProcessesAssumption DEF InputRelease, Ring1, TypeOK, MutexInv, RunInv, PidInv, PidsAreUnique, LeaseInv,
           LeasesHaveOwner, AccessHoldsLease, RemoteTargetIsStill, DyingIsStill, Pids,
           States, Actors, HasTask
<1>3. AccessHoldsLease'
    BY ProcessesAssumption DEF InputRelease, Ring1, TypeOK, MutexInv, RunInv, PidInv, PidsAreUnique, LeaseInv,
           AccessHoldsLease
<1>. QED
    BY <1>1, <1>2, <1>3, Kept DEF InputRelease, Ring1

\* A read of input begins.
LEMMA InputReadBeginStep ==
    ASSUME IInv, NEW p \in Procs,
           InputReadBegin(p)
    PROVE  IInv'
<1>1. TypeOK'
    BY ProcessesAssumption DEF InputReadBegin, Ring1, TypeOK, Pids, States, Actors
<1>2. RunInv'
    BY ProcessesAssumption DEF InputReadBegin, Ring1, TypeOK, MutexInv, RunInv, HasTask, Actors
<1>3. AccessHoldsLease'
    BY ProcessesAssumption DEF InputReadBegin, Ring1, TypeOK, MutexInv, RunInv, PidInv, PidsAreUnique, LeaseInv,
           AccessHoldsLease
<1>4. DyingIsStill'
    BY ProcessesAssumption DEF InputReadBegin, Ring1, TypeOK, MutexInv, RunInv, DyingIsStill, HasTask
<1>. QED
    BY <1>1, <1>2, <1>3, <1>4, Kept DEF InputReadBegin, Ring1

\* A read of input ends.
LEMMA InputReadEndStep ==
    ASSUME IInv, NEW p \in Procs,
           InputReadEnd(p)
    PROVE  IInv'
<1>1. TypeOK'
    BY ProcessesAssumption DEF InputReadEnd, TypeOK, Pids, States, Actors
<1>2. RunInv'
    BY ProcessesAssumption DEF InputReadEnd, TypeOK, MutexInv, RunInv, HasTask, Actors
<1>3. AccessHoldsLease'
    BY ProcessesAssumption DEF InputReadEnd, TypeOK, MutexInv, RunInv, PidInv, PidsAreUnique, LeaseInv, AccessHoldsLease
<1>4. DyingIsStill'
    BY ProcessesAssumption, SMTT(30) DEF InputReadEnd, TypeOK, MutexInv, RunInv, DyingIsStill, HasTask
<1>. QED
    BY <1>1, <1>2, <1>3, <1>4, Kept DEF InputReadEnd

\* A copy begins, the target being stopped.
LEMMA RemoteBeginStep ==
    ASSUME IInv, NEW p \in Procs, NEW q \in Procs,
           RemoteBegin(p, q)
    PROVE  IInv'
<1>1. TypeOK'
    BY ProcessesAssumption DEF RemoteBegin, Ring1, Safe, TypeOK, Pids, States, Actors
<1>2. MutexInv'
    BY ProcessesAssumption DEF RemoteBegin, Ring1, Safe, TypeOK, MutexInv, Actors
<1>3. RunInv'
    BY ProcessesAssumption DEF RemoteBegin, Ring1, Safe, TypeOK, MutexInv, RunInv, HasTask, Actors
<1>4. LeaseInv'
    BY ProcessesAssumption DEF RemoteBegin, Ring1, Safe, TypeOK, MutexInv, PidInv, PidsAreUnique, LeaseInv,
           LeasesHaveOwner, HasTask, Pids
<1>5. AccessHoldsLease'
    BY ProcessesAssumption DEF RemoteBegin, Ring1, Safe, TypeOK, MutexInv, RunInv, PidInv, PidsAreUnique, LeaseInv,
           AccessHoldsLease
<1>6. RemoteTargetIsStill'
    BY ProcessesAssumption DEF RemoteBegin, Ring1, Safe, TypeOK, MutexInv, RunInv, PidInv, PidsAreUnique, LeaseInv,
           LeasesHaveOwner, AccessHoldsLease, RemoteTargetIsStill, DyingIsStill, Pids,
           States, Actors, HasTask
<1>7. DyingIsStill'
    BY ProcessesAssumption DEF RemoteBegin, Ring1, Safe, TypeOK, MutexInv, RunInv, DyingIsStill, HasTask
<1>. QED
    BY <1>1, <1>2, <1>3, <1>4, <1>5, <1>6, <1>7, Kept DEF RemoteBegin, Ring1, Safe

\* A copy ends.
LEMMA RemoteEndStep ==
    ASSUME IInv, RemoteEnd
    PROVE  IInv'
<1>1. TypeOK'
    BY ProcessesAssumption DEF RemoteEnd, TypeOK, Pids, States, Actors
<1>2. MutexInv'
    BY ProcessesAssumption DEF RemoteEnd, TypeOK, MutexInv, Actors
<1>3. RunInv'
    BY ProcessesAssumption DEF RemoteEnd, TypeOK, MutexInv, RunInv, HasTask, Actors
<1>4. LeaseInv'
    BY ProcessesAssumption DEF RemoteEnd, TypeOK, MutexInv, PidInv, PidsAreUnique, LeaseInv, LeasesHaveOwner, HasTask, Pids
<1>5. AccessHoldsLease'
    BY ProcessesAssumption DEF RemoteEnd, TypeOK, MutexInv, RunInv, PidInv, PidsAreUnique, LeaseInv, AccessHoldsLease
<1>6. RemoteTargetIsStill'
    BY ProcessesAssumption DEF RemoteEnd, TypeOK, MutexInv, RunInv, RemoteTargetIsStill
<1>7. DyingIsStill'
    BY ProcessesAssumption DEF RemoteEnd, TypeOK, MutexInv, RunInv, DyingIsStill, HasTask
<1>. QED
    BY <1>1, <1>2, <1>3, <1>4, <1>5, <1>6, <1>7, Kept DEF RemoteEnd

\* The shell's poll takes the input lease from a dead owner only.
LEMMA InputPollStep ==
    ASSUME IInv, InputPoll
    PROVE  IInv'
<1>1. TypeOK'
    BY ProcessesAssumption, SMTT(30) DEF InputPoll, TypeOK, Pids, States, Actors
<1>2. LeaseInv'
    BY ProcessesAssumption DEF InputPoll, TypeOK, MutexInv, RunInv, PidInv, PidsAreUnique, LeaseInv, LeasesHaveOwner,
           AccessHoldsLease, RemoteTargetIsStill, DyingIsStill, Pids, States, Actors,
           HasTask
<1>3. AccessHoldsLease'
    BY ProcessesAssumption, SMTT(30) DEF InputPoll, TypeOK, MutexInv, RunInv, PidInv, PidsAreUnique, LeaseInv, AccessHoldsLease
<1>. QED
    BY <1>1, <1>2, <1>3, Kept DEF InputPoll

\* A partition lease passes to a live caller.
LEMMA PartClaimStep ==
    ASSUME IInv, NEW p \in Procs, NEW d \in Parts,
           PartClaim(p, d)
    PROVE  IInv'
<1>1. TypeOK'
    BY ProcessesAssumption DEF PartClaim, Ring1, Busy, TypeOK, Pids, States, Actors
<1>2. LeaseInv'
    BY ProcessesAssumption DEF PartClaim, Ring1, Busy, TypeOK, MutexInv, PidInv, PidsAreUnique, LeaseInv, LeasesHaveOwner,
           HasTask, Pids
<1>3. AccessHoldsLease'
    BY ProcessesAssumption, SMTT(30) DEF PartClaim, Ring1, Busy, TypeOK, MutexInv, RunInv, PidInv, PidsAreUnique, LeaseInv,
           AccessHoldsLease
<1>. QED
    BY <1>1, <1>2, <1>3, Kept DEF PartClaim, Ring1, Busy

\* The caller gives up a partition.
LEMMA PartReleaseStep ==
    ASSUME IInv, NEW p \in Procs, NEW d \in Parts,
           PartRelease(p, d)
    PROVE  IInv'
<1>1. TypeOK'
    BY ProcessesAssumption, SMTT(30) DEF PartRelease, Ring1, TypeOK, Pids, States, Actors
<1>2. LeaseInv'
    BY ProcessesAssumption DEF PartRelease, Ring1, TypeOK, MutexInv, PidInv, PidsAreUnique, LeaseInv, LeasesHaveOwner,
           HasTask, Pids
<1>3. AccessHoldsLease'
    BY ProcessesAssumption, SMTT(30) DEF PartRelease, Ring1, TypeOK, MutexInv, RunInv, PidInv, PidsAreUnique, LeaseInv,
           AccessHoldsLease
<1>. QED
    BY <1>1, <1>2, <1>3, Kept DEF PartRelease, Ring1

\* A transfer begins.
LEMMA TransferBeginStep ==
    ASSUME IInv, NEW p \in Procs, NEW d \in Parts, NEW s \in {"read", "write"},
           TransferBegin(p, d, s)
    PROVE  IInv'
<1>1. TypeOK'
    BY ProcessesAssumption DEF TransferBegin, Ring1, MayTransfer, TypeOK, Pids, States, Actors
<1>2. MutexInv'
    BY ProcessesAssumption DEF TransferBegin, Ring1, MayTransfer, TypeOK, MutexInv, Actors
<1>3. RunInv'
    BY ProcessesAssumption DEF TransferBegin, Ring1, MayTransfer, TypeOK, MutexInv, RunInv, HasTask, Actors
<1>4. LeaseInv'
    BY ProcessesAssumption DEF TransferBegin, Ring1, MayTransfer, TypeOK, MutexInv, PidInv, PidsAreUnique, LeaseInv,
           LeasesHaveOwner, HasTask, Pids
<1>5. AccessHoldsLease'
    BY ProcessesAssumption DEF TransferBegin, Ring1, MayTransfer, TypeOK, MutexInv, RunInv, PidInv, PidsAreUnique,
           LeaseInv, AccessHoldsLease
<1>6. RemoteTargetIsStill'
    BY ProcessesAssumption DEF TransferBegin, Ring1, MayTransfer, TypeOK, MutexInv, RunInv, RemoteTargetIsStill
<1>7. DyingIsStill'
    BY ProcessesAssumption DEF TransferBegin, Ring1, MayTransfer, TypeOK, MutexInv, RunInv, DyingIsStill, HasTask
<1>. QED
    BY <1>1, <1>2, <1>3, <1>4, <1>5, <1>6, <1>7, Kept DEF TransferBegin, Ring1, MayTransfer

\* A transfer ends, perhaps with a quarantine.
LEMMA TransferEndStep ==
    ASSUME IInv, NEW ok \in BOOLEAN,
           TransferEnd(ok)
    PROVE  IInv'
<1>1. TypeOK'
    BY ProcessesAssumption DEF TransferEnd, TypeOK, Pids, States, Actors
<1>2. MutexInv'
    BY ProcessesAssumption DEF TransferEnd, TypeOK, MutexInv, Actors
<1>3. RunInv'
    BY ProcessesAssumption DEF TransferEnd, TypeOK, MutexInv, RunInv, HasTask, Actors
<1>4. LeaseInv'
    BY ProcessesAssumption DEF TransferEnd, TypeOK, MutexInv, PidInv, PidsAreUnique, LeaseInv, LeasesHaveOwner, HasTask,
           Pids
<1>5. AccessHoldsLease'
    BY ProcessesAssumption DEF TransferEnd, TypeOK, MutexInv, RunInv, PidInv, PidsAreUnique, LeaseInv, AccessHoldsLease
<1>6. RemoteTargetIsStill'
    BY ProcessesAssumption DEF TransferEnd, TypeOK, MutexInv, RunInv, RemoteTargetIsStill
<1>7. DyingIsStill'
    BY ProcessesAssumption DEF TransferEnd, TypeOK, MutexInv, RunInv, DyingIsStill, HasTask
<1>. QED
    BY <1>1, <1>2, <1>3, <1>4, <1>5, <1>6, <1>7, Kept DEF TransferEnd

HIDE DEF Ready, InUser, MutexFree, Enter, Leave, IInv

\* At boot no slot is used, nothing is leased and the mutex is free.
LEMMA InitInv == Init => IInv
BY ProcessesAssumption DEF Init, IInv, TypeOK, MutexInv, RunInv, PidInv, PidsAreUnique, LeaseInv,
       LeasesHaveOwner, AccessHoldsLease, RemoteTargetIsStill, DyingIsStill, Pids, States, Actors

\* Every operation, and a step in which nothing happens, keeps the invariant.
LEMMA NextInv == ASSUME IInv, [Next]_vars PROVE IInv'
<1>1. CASE \E a \in Actors, p \in Procs :
              \/ \E c \in {"RING1", "RING3"}, s \in {"create", "launch"} : Create(a, p, c, s)
              \/ \E op \in {"KILL", "STOP", "CONTINUE"} : Control(a, p, op)
              \/ Reap(a, p)
    BY <1>1, CreateStep, ControlStep, ReapStep
<1>2. CASE NoSpace \/ Created \/ LaunchLoaded \/ LaunchStarted \/ LaunchFailed \/ DestroyEnd
    BY <1>2, NoSpaceStep, CreatedStep, LaunchLoadedStep, LaunchStartedStep, LaunchFailedStep,
       DestroyEndStep
<1>3. CASE \E p \in Procs :
              \/ ShellAdvance(p, "NEW", "LOADED") \/ ShellAdvance(p, "LOADED", "LIVE")
              \/ Exit(p) \/ ReturnControl(p) \/ Dispatch(p) \/ Deschedule(p)
    BY <1>3, ShellLoadStep, ShellStartStep, ExitStep, ReturnControlStep, DispatchStep, DescheduleStep
<1>4. CASE \E p \in Procs : \/ InputClaim(p) \/ InputRelease(p)
                            \/ InputReadBegin(p) \/ InputReadEnd(p)
    BY <1>4, InputClaimStep, InputReleaseStep, InputReadBeginStep, InputReadEndStep
<1>5. CASE (\E p, q \in Procs : RemoteBegin(p, q)) \/ RemoteEnd \/ InputPoll
    BY <1>5, RemoteBeginStep, RemoteEndStep, InputPollStep
<1>6. CASE \E p \in Procs, d \in Parts :
              \/ PartClaim(p, d) \/ PartRelease(p, d)
              \/ TransferBegin(p, d, "read") \/ TransferBegin(p, d, "write")
    BY <1>6, PartClaimStep, PartReleaseStep, TransferBeginStep
<1>7. CASE TransferEnd(TRUE) \/ TransferEnd(FALSE)
    BY <1>7, TransferEndStep
<1>8. CASE UNCHANGED vars
    <2>1. TypeOK'
        BY <1>8 DEF IInv, TypeOK, vars
    <2>. QED
        BY <1>8, <2>1, Kept DEF IInv, vars
<1>. QED
    BY <1>1, <1>2, <1>3, <1>4, <1>5, <1>6, <1>7, <1>8 DEF Next

\* The inductive invariant holds throughout.
THEOREM Invariance == Spec => []IInv
BY InitInv, NextInv, PTL DEF Spec
-----------------------------------------------------------------------------
\* Every variable keeps its type; in particular no process id passes the
\* last one that next_process_id can give out.
THEOREM TypeCorrectness == Spec => []TypeOK
<1>1. IInv => TypeOK
    BY DEF IInv
<1>. QED
    BY <1>1, Invariance, PTL

\* No lease outlives the process instance it was given to, whatever the
\* order of exits, kills, claims and destructions.
THEOREM LeaseSafety == Spec => []LeasesHaveOwner
<1>1. IInv => LeasesHaveOwner
    BY DEF IInv, LeaseInv
<1>. QED
    BY <1>1, Invariance, PTL

\* What admin_operation tested before a transfer or a wait for input is
\* still true during it.
THEOREM AccessSafety == Spec => []AccessHoldsLease
<1>1. IInv => AccessHoldsLease
    BY DEF IInv
<1>. QED
    BY <1>1, Invariance, PTL

\* A process whose memory is being copied or mapped does not run.
THEOREM RemoteSafety == Spec => []RemoteTargetIsStill
<1>1. IInv => RemoteTargetIsStill
    BY DEF IInv
<1>. QED
    BY <1>1, Invariance, PTL

\* A process in the middle of its destruction does not run, nor read input.
THEOREM DestroySafety == Spec => []DyingIsStill
<1>1. IInv => DyingIsStill
    BY DEF IInv
<1>. QED
    BY <1>1, Invariance, PTL

\* A process id names one process.
THEOREM PidUniqueness == Spec => []PidsAreUnique
<1>1. IInv => PidsAreUnique
    BY DEF IInv, PidInv
<1>. QED
    BY <1>1, Invariance, PTL
=============================================================================
