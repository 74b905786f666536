-------------------------- MODULE SchedulerProofs ---------------------------
(***************************************************************************)
(* The theorems about Scheduler, for any number of CPUs, task slots,       *)
(* mutexes and semaphores: the inductive invariant, that each step keeps   *)
(* it, and what follows.                                                   *)
(***************************************************************************)
EXTENDS Scheduler, TLAPS

IInv ==
    /\ TypeOK /\ CpuInv /\ TaskInv /\ IdInv /\ RunningIsCurrent /\ NoLostWakeup
    /\ IdleSeesWork /\ MutualExclusion /\ ProcessStateAgrees

\* What the provers need of the two bounds.
LEMMA Bounds == MAX_ID \in Nat /\ MAX_ID > 0 /\ SEM_MAX \in Nat /\ SEM_MAX > 0
BY ConstantsAssumption

\* Steps that lock nothing and neither create nor free a task.
LEMMA LocksKept ==
    ASSUME IdInv, MutualExclusion, UNCHANGED <<id, next_task_id, owner, held>>,
           \A t \in Tasks : state'[t] = "UNUSED" <=> state[t] = "UNUSED"
    PROVE  IdInv' /\ MutualExclusion'
<1>1. MutualExclusion'
    BY Zenon DEF MutualExclusion
<1>2. ASSUME NEW t \in Tasks
      PROVE /\ id'[t] = 0 <=> state'[t] = "UNUSED"
            /\ next_task_id' # 0 => id'[t] < next_task_id'
            /\ \A u \in Tasks : t # u /\ id'[t] = id'[u] => id'[t] = 0
    BY Zenon DEF IdInv
<1>3. ASSUME NEW m \in Mutexes, owner'[m] # 0
      PROVE \E t \in Tasks : m \in held'[t]
    BY Zenon, <1>3 DEF IdInv
<1> QED BY Zenon, <1>1, <1>2, <1>3 DEF IdInv

\* Steps after which whoever waits for an idle CPU waited before, or is
\* published.
LEMMA IdleKept ==
    ASSUME TypeOK, IdleSeesWork, UNCHANGED <<cpu, current>>,
           \A d \in CPUS : work_pending[d] => work_pending'[d],
           \A t \in Tasks : state'[t] \in {"READY", "SLEEPING"} =>
               state[t] \in {"READY", "SLEEPING"} \/ work_pending'[cpu[t]]
    PROVE  IdleSeesWork'
BY Zenon DEF IdleSeesWork, TypeOK

\* What is known of a task survives a step that changes only states, and
\* leaves idle tasks and unused slots as they are.
LEMMA TaskInvKept ==
    ASSUME TaskInv,
           UNCHANGED <<cpu, mode, loop, held>>,
           \A d \in CPUS : /\ state'[IDLE[d]] \in {"READY", "RUNNING"}
                           /\ ~yielding'[IDLE[d]] /\ pstate'[IDLE[d]] = "none",
           \A t \in Tasks :
               /\ yielding'[t] => yielding[t]
               /\ pstate'[t] = "none" <=> pstate[t] = "none"
               /\ state'[t] \in {"UNUSED", "ZOMBIE", "STOPPED"} => state'[t] = state[t]
               /\ state'[t] = "UNUSED" => control_request'[t] = control_request[t]
    PROVE  TaskInv'
<1>1. \A d \in CPUS : /\ state'[IDLE[d]] \in {"READY", "RUNNING"}
                      /\ cpu'[IDLE[d]] = d /\ mode'[IDLE[d]] = "kernel"
                      /\ ~yielding'[IDLE[d]] /\ pstate'[IDLE[d]] = "none"
    BY Zenon DEF TaskInv
<1>2. ASSUME NEW t \in Tasks, mode[t] = "user"
      PROVE  pstate'[t] # "none" /\ ~yielding'[t] /\ loop[t] = Nothing /\ held[t] = {}
    BY Zenon, <1>2 DEF TaskInv
<1>3. ASSUME NEW t \in Tasks, state'[t] \in {"UNUSED", "ZOMBIE", "STOPPED"}
      PROVE  held[t] = {}
  <2>1. state[t] \in {"UNUSED", "ZOMBIE", "STOPPED"}
      BY Zenon, <1>3
  <2> QED BY Zenon, <2>1 DEF TaskInv
<1>4. ASSUME NEW t \in Tasks, state'[t] = "UNUSED"
      PROVE  /\ pstate'[t] = "none" /\ control_request'[t] = "none"
             /\ mode[t] = "kernel" /\ ~yielding'[t] /\ loop[t] = Nothing
  <2>1. state[t] = "UNUSED"
      BY Zenon, <1>4
  <2>2. /\ pstate[t] = "none" /\ control_request[t] = "none"
        /\ mode[t] = "kernel" /\ ~yielding[t] /\ loop[t] = Nothing
      BY Zenon, <2>1 DEF TaskInv
  <2> QED BY Zenon, <1>4, <2>2
<1> QED BY ZenonT(40), <1>1, <1>2, <1>3, <1>4 DEF TaskInv

\* task_ready: the woken tasks are READY, and their CPUs know.
LEMMA Wake ==
    ASSUME TypeOK, NEW c \in CPUS, NEW woken \in SUBSET Tasks, task_ready(c, woken)
    PROVE  /\ state' \in [Tasks -> States]
           /\ wait_object' \in [Tasks -> Mutexes \union Semaphores \union {Nothing}]
           /\ work_pending' \in [CPUS -> BOOLEAN]
           /\ ipi' \in [CPUS -> BOOLEAN]
           /\ \A t \in woken : state'[t] = "READY" /\ work_pending'[cpu[t]]
           /\ \A t \in Tasks \ woken : state'[t] = state[t]
                                       /\ wait_object'[t] = wait_object[t]
           /\ \A d \in CPUS : work_pending[d] => work_pending'[d]
<1>1. state' \in [Tasks -> States]
    BY Zenon DEF TypeOK, task_ready, Readied, States
<1>2. wait_object' \in [Tasks -> Mutexes \union Semaphores \union {Nothing}]
    BY Zenon DEF TypeOK, task_ready, Forgotten
<1>3. work_pending' \in [CPUS -> BOOLEAN] /\ ipi' \in [CPUS -> BOOLEAN]
    BY Zenon DEF TypeOK, task_ready, Published
<1>4. ASSUME NEW t \in woken PROVE state'[t] = "READY" /\ work_pending'[cpu[t]]
    BY Zenon DEF TypeOK, task_ready, Readied, Published, CpusOf
<1>5. ASSUME NEW t \in Tasks \ woken
      PROVE state'[t] = state[t] /\ wait_object'[t] = wait_object[t]
    BY Zenon DEF TypeOK, task_ready, Readied, Forgotten
<1>6. ASSUME NEW d \in CPUS, work_pending[d] PROVE work_pending'[d]
    BY Zenon, <1>6 DEF task_ready, Published
<1> QED BY Zenon, <1>1, <1>2, <1>3, <1>4, <1>5, <1>6

\* process_return_control changes only the task it runs for.
LEMMA ReturnControlStep ==
    ASSUME IInv, NEW c \in CPUS, ControlDue(c), at[c] \in {"task", "return"},
           process_return_control(c), ipi' \in [CPUS -> BOOLEAN]
    PROVE  IInv'
<1> USE ConstantsAssumption
<1>1. TypeOK'
    BY Zenon DEF IInv, TypeOK, ControlDue, process_return_control, ControlledState, vars, taskVars, cpuVars, lockVars, States, Idles
<1>2. CpuInv'
    BY DEF IInv, CpuInv, TaskInv, RunningIsCurrent, TypeOK, ControlDue, process_return_control, ControlledState, vars, taskVars, cpuVars, lockVars, States, Idles
<1>3. TaskInv'
    BY DEF IInv, TaskInv, CpuInv, TypeOK, ControlDue, process_return_control, ControlledState, vars, taskVars, cpuVars, lockVars, States, Idles
<1>4. \A u \in Tasks : state'[u] = "UNUSED" <=> state[u] = "UNUSED"
    BY DEF IInv, TypeOK, CpuInv, ControlDue, process_return_control, ControlledState, vars, taskVars, cpuVars, lockVars, States, Idles
<1>5. IdInv' /\ MutualExclusion'
    BY Zenon, <1>4, LocksKept DEF IInv, ControlDue, process_return_control, ControlledState, vars, taskVars, cpuVars, lockVars, States, Idles
<1>6. RunningIsCurrent'
    BY DEF IInv, RunningIsCurrent, CpuInv, TypeOK, ControlDue, process_return_control, ControlledState, vars, taskVars, cpuVars, lockVars, States, Idles
<1>7. NoLostWakeup'
    BY Zenon DEF IInv, NoLostWakeup, TypeOK, ControlDue, process_return_control, ControlledState, vars, taskVars, cpuVars, lockVars, States, Idles
<1>8. IdleSeesWork'
    BY Zenon, IdleKept DEF IInv, TypeOK, process_return_control, ControlledState
<1>9. ProcessStateAgrees'
    BY DEF IInv, ProcessStateAgrees, TaskInv, CpuInv, TypeOK, ControlDue, process_return_control, ControlledState, vars, taskVars, cpuVars, lockVars, States, Idles
<1> QED BY Zenon, <1>1, <1>2, <1>3, <1>5, <1>6, <1>7, <1>8, <1>9 DEF IInv

\* A step that changes nothing preserves the invariant.
LEMMA StutterStep ==
    ASSUME IInv, UNCHANGED vars
    PROVE  IInv'
<1> USE DEF vars, taskVars, cpuVars, lockVars
<1>1. TypeOK' /\ CpuInv' /\ TaskInv'
    BY DEF IInv, TypeOK, CpuInv, TaskInv
<1>2. RunningIsCurrent' /\ NoLostWakeup' /\ IdleSeesWork' /\ ProcessStateAgrees'
    BY Zenon DEF IInv, RunningIsCurrent, NoLostWakeup, IdleSeesWork, ProcessStateAgrees
<1>3. IdInv' /\ MutualExclusion'
    BY Zenon, LocksKept DEF IInv
<1> QED BY Zenon, <1>1, <1>2, <1>3 DEF IInv

\* kernel_schedule's fast path: a tick on an idle CPU with no work published
\* leaves tasks and CPUs as they are.
LEMMA IdleStep ==
    ASSUME IInv, NEW c \in CPUS, at[c] = "task", IdleFastPath(c), UNCHANGED ipi
    PROVE  IInv'
<1> USE ConstantsAssumption
<1>1. TypeOK'
    BY Zenon DEF IInv, TypeOK, IdleFastPath, Goto, vars, taskVars, cpuVars, lockVars, States, Idles
<1>2. CpuInv'
    BY DEF IInv, CpuInv, TaskInv, RunningIsCurrent, TypeOK, IdleFastPath, Goto, vars, taskVars, cpuVars, lockVars, States, Idles
<1>3. TaskInv'
    BY ZenonT(40) DEF IInv, TaskInv, CpuInv, TypeOK, IdleFastPath, Goto, vars, taskVars, cpuVars, lockVars, States, Idles
<1>4. \A u \in Tasks : state'[u] = "UNUSED" <=> state[u] = "UNUSED"
    BY Zenon DEF IInv, TypeOK, CpuInv, IdleFastPath, Goto, vars, taskVars, cpuVars, lockVars, States, Idles
<1>5. IdInv' /\ MutualExclusion'
    BY Zenon, <1>4, LocksKept DEF IInv, IdleFastPath, Goto, vars, taskVars, cpuVars, lockVars, States, Idles
<1>6. RunningIsCurrent'
    BY Zenon DEF IInv, RunningIsCurrent, CpuInv, TypeOK, IdleFastPath, Goto, vars, taskVars, cpuVars, lockVars, States, Idles
<1>7. NoLostWakeup'
    BY Zenon DEF IInv, NoLostWakeup, TypeOK, IdleFastPath, Goto, vars, taskVars, cpuVars, lockVars, States, Idles
<1>8. IdleSeesWork'
    BY Zenon DEF IInv, IdleSeesWork, CpuInv, TaskInv, TypeOK, IdleFastPath, Goto, vars, taskVars, cpuVars, lockVars, States, Idles
<1>9. ProcessStateAgrees'
    BY Zenon DEF IInv, ProcessStateAgrees, TaskInv, CpuInv, TypeOK, IdleFastPath, Goto, vars, taskVars, cpuVars, lockVars, States, Idles
<1> QED BY Zenon, <1>1, <1>2, <1>3, <1>5, <1>6, <1>7, <1>8, <1>9 DEF IInv

\* x86_64_irq_dispatch that finds a bad user frame makes its process a zombie.
LEMMA BadFrameStep ==
    ASSUME IInv, NEW c \in CPUS, BadUserFrame(c)
    PROVE  IInv'
<1> USE ConstantsAssumption
<1>1. TypeOK'
    BY Zenon DEF IInv, TypeOK, BadUserFrame, ControlDue, Die, Goto, vars, taskVars, cpuVars, lockVars, States, Idles
<1>2. CpuInv'
    BY DEF IInv, CpuInv, TaskInv, RunningIsCurrent, TypeOK, BadUserFrame, ControlDue, Die, Goto, vars, taskVars, cpuVars, lockVars, States, Idles
<1>3. TaskInv'
    BY DEF IInv, TaskInv, CpuInv, TypeOK, BadUserFrame, ControlDue, Die, Goto, vars, taskVars, cpuVars, lockVars, States, Idles
<1>4. \A u \in Tasks : state'[u] = "UNUSED" <=> state[u] = "UNUSED"
    BY DEF IInv, TypeOK, CpuInv, BadUserFrame, ControlDue, Die, Goto, vars, taskVars, cpuVars, lockVars, States, Idles
<1>5. IdInv' /\ MutualExclusion'
    BY Zenon, <1>4, LocksKept DEF IInv, BadUserFrame, ControlDue, Die, Goto, vars, taskVars, cpuVars, lockVars, States, Idles
<1>6. RunningIsCurrent'
    BY DEF IInv, RunningIsCurrent, CpuInv, TypeOK, BadUserFrame, ControlDue, Die, Goto, vars, taskVars, cpuVars, lockVars, States, Idles
<1>7. NoLostWakeup'
    BY Zenon DEF IInv, NoLostWakeup, TypeOK, BadUserFrame, ControlDue, Die, Goto, vars, taskVars, cpuVars, lockVars, States, Idles
<1>8. IdleSeesWork'
  <2>1. \A t \in Tasks : state'[t] \in {"READY", "SLEEPING"} => state[t] = state'[t]
      BY Zenon DEF IInv, TypeOK, BadUserFrame, Die
  <2> QED BY Zenon, <2>1, IdleKept DEF IInv, BadUserFrame
<1>9. ProcessStateAgrees'
    BY DEF IInv, ProcessStateAgrees, TaskInv, CpuInv, TypeOK, BadUserFrame, ControlDue, Die, Goto, vars, taskVars, cpuVars, lockVars, States, Idles
<1> QED BY Zenon, <1>1, <1>2, <1>3, <1>5, <1>6, <1>7, <1>8, <1>9 DEF IInv

\* entry.S loads the stack pointer of the task that was picked.
LEMMA SwitchStackStep ==
    ASSUME IInv, NEW c \in CPUS, SwitchStack(c)
    PROVE  IInv'
<1> USE ConstantsAssumption
<1>1. TypeOK'
    BY Zenon DEF IInv, TypeOK, SwitchStack, Goto, vars, taskVars, cpuVars, lockVars, States, Idles
<1>2. CpuInv'
    BY DEF IInv, CpuInv, TaskInv, RunningIsCurrent, TypeOK, SwitchStack, Goto, vars, taskVars, cpuVars, lockVars, States, Idles
<1>3. TaskInv'
    BY Zenon DEF IInv, TaskInv, CpuInv, TypeOK, SwitchStack, Goto, vars, taskVars, cpuVars, lockVars, States, Idles
<1>4. \A u \in Tasks : state'[u] = "UNUSED" <=> state[u] = "UNUSED"
    BY Zenon DEF IInv, TypeOK, CpuInv, SwitchStack, Goto, vars, taskVars, cpuVars, lockVars, States, Idles
<1>5. IdInv' /\ MutualExclusion'
    BY Zenon, <1>4, LocksKept DEF IInv, SwitchStack, Goto, vars, taskVars, cpuVars, lockVars, States, Idles
<1>6. RunningIsCurrent'
    BY Zenon DEF IInv, RunningIsCurrent, CpuInv, TypeOK, SwitchStack, Goto, vars, taskVars, cpuVars, lockVars, States, Idles
<1>7. NoLostWakeup'
    BY Zenon DEF IInv, NoLostWakeup, TypeOK, SwitchStack, Goto, vars, taskVars, cpuVars, lockVars, States, Idles
<1>8. IdleSeesWork'
    BY Zenon DEF IInv, IdleSeesWork, CpuInv, TaskInv, TypeOK, SwitchStack, Goto, vars, taskVars, cpuVars, lockVars, States, Idles
<1>9. ProcessStateAgrees'
    BY Zenon DEF IInv, ProcessStateAgrees, TaskInv, CpuInv, TypeOK, SwitchStack, Goto, vars, taskVars, cpuVars, lockVars, States, Idles
<1> QED BY Zenon, <1>1, <1>2, <1>3, <1>5, <1>6, <1>7, <1>8, <1>9 DEF IInv

\* entry.S stores stack_owner once the new stack is in use.
LEMMA StoreOwnerStep ==
    ASSUME IInv, NEW c \in CPUS, StoreOwner(c)
    PROVE  IInv'
<1> USE ConstantsAssumption
<1>1. TypeOK'
    BY Zenon DEF IInv, TypeOK, StoreOwner, Goto, vars, taskVars, cpuVars, lockVars, States, Idles
<1>2. CpuInv'
    BY DEF IInv, CpuInv, TaskInv, RunningIsCurrent, TypeOK, StoreOwner, Goto, vars, taskVars, cpuVars, lockVars, States, Idles
<1>3. TaskInv'
    BY Zenon DEF IInv, TaskInv, CpuInv, TypeOK, StoreOwner, Goto, vars, taskVars, cpuVars, lockVars, States, Idles
<1>4. \A u \in Tasks : state'[u] = "UNUSED" <=> state[u] = "UNUSED"
    BY Zenon DEF IInv, TypeOK, CpuInv, StoreOwner, Goto, vars, taskVars, cpuVars, lockVars, States, Idles
<1>5. IdInv' /\ MutualExclusion'
    BY Zenon, <1>4, LocksKept DEF IInv, StoreOwner, Goto, vars, taskVars, cpuVars, lockVars, States, Idles
<1>6. RunningIsCurrent'
    BY Zenon DEF IInv, RunningIsCurrent, CpuInv, TypeOK, StoreOwner, Goto, vars, taskVars, cpuVars, lockVars, States, Idles
<1>7. NoLostWakeup'
    BY Zenon DEF IInv, NoLostWakeup, TypeOK, StoreOwner, Goto, vars, taskVars, cpuVars, lockVars, States, Idles
<1>8. IdleSeesWork'
    BY Zenon DEF IInv, IdleSeesWork, CpuInv, TaskInv, TypeOK, StoreOwner, Goto, vars, taskVars, cpuVars, lockVars, States, Idles
<1>9. ProcessStateAgrees'
    BY Zenon DEF IInv, ProcessStateAgrees, TaskInv, CpuInv, TypeOK, StoreOwner, Goto, vars, taskVars, cpuVars, lockVars, States, Idles
<1> QED BY Zenon, <1>1, <1>2, <1>3, <1>5, <1>6, <1>7, <1>8, <1>9 DEF IInv

\* A reschedule IPI that is lost takes nothing with it but the hint.
LEMMA IpiStep ==
    ASSUME IInv, NEW c \in CPUS, IpiLost(c)
    PROVE  IInv'
<1> USE ConstantsAssumption
<1>1. TypeOK'
    BY Zenon DEF IInv, TypeOK, IpiLost, vars, taskVars, cpuVars, lockVars, States, Idles
<1>2. CpuInv'
    BY DEF IInv, CpuInv, TaskInv, RunningIsCurrent, TypeOK, IpiLost, vars, taskVars, cpuVars, lockVars, States, Idles
<1>3. TaskInv'
    BY Zenon DEF IInv, TaskInv, CpuInv, TypeOK, IpiLost, vars, taskVars, cpuVars, lockVars, States, Idles
<1>4. \A u \in Tasks : state'[u] = "UNUSED" <=> state[u] = "UNUSED"
    BY Zenon DEF IInv, TypeOK, CpuInv, IpiLost, vars, taskVars, cpuVars, lockVars, States, Idles
<1>5. IdInv' /\ MutualExclusion'
    BY Zenon, <1>4, LocksKept DEF IInv, IpiLost, vars, taskVars, cpuVars, lockVars, States, Idles
<1>6. RunningIsCurrent'
    BY Zenon DEF IInv, RunningIsCurrent, CpuInv, TypeOK, IpiLost, vars, taskVars, cpuVars, lockVars, States, Idles
<1>7. NoLostWakeup'
    BY Zenon DEF IInv, NoLostWakeup, TypeOK, IpiLost, vars, taskVars, cpuVars, lockVars, States, Idles
<1>8. IdleSeesWork'
    BY Zenon DEF IInv, IdleSeesWork, CpuInv, TaskInv, TypeOK, IpiLost, vars, taskVars, cpuVars, lockVars, States, Idles
<1>9. ProcessStateAgrees'
    BY Zenon DEF IInv, ProcessStateAgrees, TaskInv, CpuInv, TypeOK, IpiLost, vars, taskVars, cpuVars, lockVars, States, Idles
<1> QED BY Zenon, <1>1, <1>2, <1>3, <1>5, <1>6, <1>7, <1>8, <1>9 DEF IInv

\* A wait loop of k_mutex_lock or k_sem_wait that returns without its object.
LEMMA LeaveLoopStep ==
    ASSUME IInv, NEW c \in CPUS, NEW t \in Tasks, Executes(c, t), loop' = [loop EXCEPT ![t] = Nothing],
           UNCHANGED <<state, wait_object, yielding, lockVars, held, id, cpu,
                       preempt_depth, control_request, pstate, mode, cpuVars, next_task_id>>
    PROVE  IInv'
<1> USE ConstantsAssumption
<1>1. TypeOK'
    BY Zenon DEF IInv, TypeOK, Executes, vars, taskVars, cpuVars, lockVars, States, Idles
<1>2. CpuInv'
    BY DEF IInv, CpuInv, TaskInv, RunningIsCurrent, TypeOK, Executes, vars, taskVars, cpuVars, lockVars, States, Idles
<1>3. TaskInv'
    BY DEF IInv, TaskInv, CpuInv, TypeOK, Executes, vars, taskVars, cpuVars, lockVars, States, Idles
<1>4. \A u \in Tasks : state'[u] = "UNUSED" <=> state[u] = "UNUSED"
    BY Zenon DEF IInv, TypeOK, CpuInv, Executes, vars, taskVars, cpuVars, lockVars, States, Idles
<1>5. IdInv' /\ MutualExclusion'
    BY Zenon, <1>4, LocksKept DEF IInv, Executes, vars, taskVars, cpuVars, lockVars, States, Idles
<1>6. RunningIsCurrent'
    BY Zenon DEF IInv, RunningIsCurrent, CpuInv, TypeOK, Executes, vars, taskVars, cpuVars, lockVars, States, Idles
<1>7. NoLostWakeup'
    BY Zenon DEF IInv, NoLostWakeup, TypeOK, Executes, vars, taskVars, cpuVars, lockVars, States, Idles
<1>8. IdleSeesWork'
    BY Zenon DEF IInv, IdleSeesWork, CpuInv, TaskInv, TypeOK, Executes, vars, taskVars, cpuVars, lockVars, States, Idles
<1>9. ProcessStateAgrees'
    BY Zenon DEF IInv, ProcessStateAgrees, TaskInv, CpuInv, TypeOK, Executes, vars, taskVars, cpuVars, lockVars, States, Idles
<1> QED BY Zenon, <1>1, <1>2, <1>3, <1>5, <1>6, <1>7, <1>8, <1>9 DEF IInv

\* A wait loop that finds its object taken publishes BLOCKED.
LEMMA BlockStep ==
    ASSUME IInv, NEW c \in CPUS, NEW t \in Tasks, NEW o \in Mutexes \union Semaphores,
           Executes(c, t), BlockOn(t, o),
           o \in Mutexes => owner[o] # 0, o \in Semaphores => count[o] = 0,
           UNCHANGED <<id, cpu, preempt_depth, control_request, pstate, mode,
                       cpuVars, next_task_id>>
    PROVE  IInv'
<1> USE ConstantsAssumption
<1>1. TypeOK'
    BY Zenon DEF IInv, TypeOK, Executes, BlockOn, PublishAndYield, vars, taskVars, cpuVars, lockVars, States, Idles
<1>2. CpuInv'
    BY DEF IInv, CpuInv, TaskInv, RunningIsCurrent, TypeOK, Executes, BlockOn, PublishAndYield, vars, taskVars, cpuVars, lockVars, States, Idles
<1>3. TaskInv'
    BY DEF IInv, TaskInv, CpuInv, TypeOK, Executes, BlockOn, PublishAndYield, vars, taskVars, cpuVars, lockVars, States, Idles
<1>4. \A u \in Tasks : state'[u] = "UNUSED" <=> state[u] = "UNUSED"
    BY DEF IInv, TypeOK, CpuInv, Executes, BlockOn, PublishAndYield, vars, taskVars, cpuVars, lockVars, States, Idles
<1>5. IdInv' /\ MutualExclusion'
    BY Zenon, <1>4, LocksKept DEF IInv, Executes, BlockOn, PublishAndYield, vars, taskVars, cpuVars, lockVars, States, Idles
<1>6. RunningIsCurrent'
    BY DEF IInv, RunningIsCurrent, CpuInv, TypeOK, Executes, BlockOn, PublishAndYield, vars, taskVars, cpuVars, lockVars, States, Idles
<1>7. NoLostWakeup'
    BY ZenonT(40) DEF IInv, NoLostWakeup, TypeOK, Executes, BlockOn, PublishAndYield, vars, taskVars, cpuVars, lockVars, States, Idles
<1>8. IdleSeesWork'
    BY DEF IInv, IdleSeesWork, CpuInv, TaskInv, TypeOK, Executes, BlockOn, PublishAndYield, vars, taskVars, cpuVars, lockVars, States, Idles
<1>9. ProcessStateAgrees'
    BY DEF IInv, ProcessStateAgrees, TaskInv, CpuInv, TypeOK, Executes, BlockOn, PublishAndYield, vars, taskVars, cpuVars, lockVars, States, Idles
<1> QED BY Zenon, <1>1, <1>2, <1>3, <1>5, <1>6, <1>7, <1>8, <1>9 DEF IInv

\* k_task_sleep publishes SLEEPING and then yields.
LEMMA SleepStep ==
    ASSUME IInv, NEW c \in CPUS, NEW t \in Tasks, k_sleep(c, t)
    PROVE  IInv'
<1> USE ConstantsAssumption
<1>1. TypeOK'
    BY Zenon DEF IInv, TypeOK, k_sleep, PublishAndYield, Executes, vars, taskVars, cpuVars, lockVars, States, Idles
<1>2. CpuInv'
    BY DEF IInv, CpuInv, TaskInv, RunningIsCurrent, TypeOK, k_sleep, PublishAndYield, Executes, vars, taskVars, cpuVars, lockVars, States, Idles
<1>3. TaskInv'
    BY DEF IInv, TaskInv, CpuInv, TypeOK, k_sleep, PublishAndYield, Executes, vars, taskVars, cpuVars, lockVars, States, Idles
<1>4. \A u \in Tasks : state'[u] = "UNUSED" <=> state[u] = "UNUSED"
    BY DEF IInv, TypeOK, CpuInv, k_sleep, PublishAndYield, Executes, vars, taskVars, cpuVars, lockVars, States, Idles
<1>5. IdInv' /\ MutualExclusion'
    BY Zenon, <1>4, LocksKept DEF IInv, k_sleep, PublishAndYield, Executes, vars, taskVars, cpuVars, lockVars, States, Idles
<1>6. RunningIsCurrent'
    BY DEF IInv, RunningIsCurrent, CpuInv, TypeOK, k_sleep, PublishAndYield, Executes, vars, taskVars, cpuVars, lockVars, States, Idles
<1>7. NoLostWakeup'
    BY ZenonT(40) DEF IInv, NoLostWakeup, TypeOK, k_sleep, PublishAndYield, Executes, vars, taskVars, cpuVars, lockVars, States, Idles
<1>8. IdleSeesWork'
    BY DEF IInv, IdleSeesWork, CpuInv, TaskInv, TypeOK, k_sleep, PublishAndYield, Executes, vars, taskVars, cpuVars, lockVars, States, Idles
<1>9. ProcessStateAgrees'
    BY DEF IInv, ProcessStateAgrees, TaskInv, CpuInv, TypeOK, k_sleep, PublishAndYield, Executes, vars, taskVars, cpuVars, lockVars, States, Idles
<1> QED BY Zenon, <1>1, <1>2, <1>3, <1>5, <1>6, <1>7, <1>8, <1>9 DEF IInv

\* k_task_yield asks for a reschedule interrupt.
LEMMA YieldStep ==
    ASSUME IInv, NEW c \in CPUS, NEW t \in Tasks, k_yield(c, t)
    PROVE  IInv'
<1> USE ConstantsAssumption
<1>1. TypeOK'
    BY Zenon DEF IInv, TypeOK, k_yield, Executes, vars, taskVars, cpuVars, lockVars, States, Idles
<1>2. CpuInv'
    BY DEF IInv, CpuInv, TaskInv, RunningIsCurrent, TypeOK, k_yield, Executes, vars, taskVars, cpuVars, lockVars, States, Idles
<1>3. TaskInv'
    BY DEF IInv, TaskInv, CpuInv, TypeOK, k_yield, Executes, vars, taskVars, cpuVars, lockVars, States, Idles
<1>4. \A u \in Tasks : state'[u] = "UNUSED" <=> state[u] = "UNUSED"
    BY Zenon DEF IInv, TypeOK, CpuInv, k_yield, Executes, vars, taskVars, cpuVars, lockVars, States, Idles
<1>5. IdInv' /\ MutualExclusion'
    BY Zenon, <1>4, LocksKept DEF IInv, k_yield, Executes, vars, taskVars, cpuVars, lockVars, States, Idles
<1>6. RunningIsCurrent'
    BY Zenon DEF IInv, RunningIsCurrent, CpuInv, TypeOK, k_yield, Executes, vars, taskVars, cpuVars, lockVars, States, Idles
<1>7. NoLostWakeup'
    BY Zenon DEF IInv, NoLostWakeup, TypeOK, k_yield, Executes, vars, taskVars, cpuVars, lockVars, States, Idles
<1>8. IdleSeesWork'
    BY Zenon DEF IInv, IdleSeesWork, CpuInv, TaskInv, TypeOK, k_yield, Executes, vars, taskVars, cpuVars, lockVars, States, Idles
<1>9. ProcessStateAgrees'
    BY Zenon DEF IInv, ProcessStateAgrees, TaskInv, CpuInv, TypeOK, k_yield, Executes, vars, taskVars, cpuVars, lockVars, States, Idles
<1> QED BY Zenon, <1>1, <1>2, <1>3, <1>5, <1>6, <1>7, <1>8, <1>9 DEF IInv

\* k_preempt_disable and k_preempt_enable count.
LEMMA DepthStep ==
    ASSUME IInv, NEW c \in CPUS, NEW t \in Tasks, NEW n \in Nat, SetDepth(c, t, n)
    PROVE  IInv'
<1> USE ConstantsAssumption
<1>1. TypeOK'
    BY Zenon DEF IInv, TypeOK, SetDepth, Executes, vars, taskVars, cpuVars, lockVars, States, Idles
<1>2. CpuInv'
    BY DEF IInv, CpuInv, TaskInv, RunningIsCurrent, TypeOK, SetDepth, Executes, vars, taskVars, cpuVars, lockVars, States, Idles
<1>3. TaskInv'
    BY DEF IInv, TaskInv, CpuInv, TypeOK, SetDepth, Executes, vars, taskVars, cpuVars, lockVars, States, Idles
<1>4. \A u \in Tasks : state'[u] = "UNUSED" <=> state[u] = "UNUSED"
    BY Zenon DEF IInv, TypeOK, CpuInv, SetDepth, Executes, vars, taskVars, cpuVars, lockVars, States, Idles
<1>5. IdInv' /\ MutualExclusion'
    BY Zenon, <1>4, LocksKept DEF IInv, SetDepth, Executes, vars, taskVars, cpuVars, lockVars, States, Idles
<1>6. RunningIsCurrent'
    BY Zenon DEF IInv, RunningIsCurrent, CpuInv, TypeOK, SetDepth, Executes, vars, taskVars, cpuVars, lockVars, States, Idles
<1>7. NoLostWakeup'
    BY Zenon DEF IInv, NoLostWakeup, TypeOK, SetDepth, Executes, vars, taskVars, cpuVars, lockVars, States, Idles
<1>8. IdleSeesWork'
    BY Zenon DEF IInv, IdleSeesWork, CpuInv, TaskInv, TypeOK, SetDepth, Executes, vars, taskVars, cpuVars, lockVars, States, Idles
<1>9. ProcessStateAgrees'
    BY Zenon DEF IInv, ProcessStateAgrees, TaskInv, CpuInv, TypeOK, SetDepth, Executes, vars, taskVars, cpuVars, lockVars, States, Idles
<1> QED BY Zenon, <1>1, <1>2, <1>3, <1>5, <1>6, <1>7, <1>8, <1>9 DEF IInv

\* k_task_exit makes the running task a zombie that still has to leave its CPU.
LEMMA ExitStep ==
    ASSUME IInv, NEW c \in CPUS, NEW t \in Tasks, k_task_exit(c, t)
    PROVE  IInv'
<1> USE ConstantsAssumption
<1>1. TypeOK'
    BY Zenon DEF IInv, TypeOK, k_task_exit, Die, Executes, vars, taskVars, cpuVars, lockVars, States, Idles
<1>2. CpuInv'
    BY DEF IInv, CpuInv, TaskInv, RunningIsCurrent, TypeOK, k_task_exit, Die, Executes, vars, taskVars, cpuVars, lockVars, States, Idles
<1>3. TaskInv'
    BY DEF IInv, TaskInv, CpuInv, TypeOK, k_task_exit, Die, Executes, vars, taskVars, cpuVars, lockVars, States, Idles
<1>4. \A u \in Tasks : state'[u] = "UNUSED" <=> state[u] = "UNUSED"
    BY DEF IInv, TypeOK, CpuInv, k_task_exit, Die, Executes, vars, taskVars, cpuVars, lockVars, States, Idles
<1>5. IdInv' /\ MutualExclusion'
    BY Zenon, <1>4, LocksKept DEF IInv, k_task_exit, Die, Executes, vars, taskVars, cpuVars, lockVars, States, Idles
<1>6. RunningIsCurrent'
    BY DEF IInv, RunningIsCurrent, CpuInv, TypeOK, k_task_exit, Die, Executes, vars, taskVars, cpuVars, lockVars, States, Idles
<1>7. NoLostWakeup'
    BY ZenonT(40) DEF IInv, NoLostWakeup, TypeOK, k_task_exit, Die, Executes, vars, taskVars, cpuVars, lockVars, States, Idles
<1>8. IdleSeesWork'
    BY DEF IInv, IdleSeesWork, CpuInv, TaskInv, TypeOK, k_task_exit, Die, Executes, vars, taskVars, cpuVars, lockVars, States, Idles
<1>9. ProcessStateAgrees'
    BY DEF IInv, ProcessStateAgrees, TaskInv, CpuInv, TypeOK, k_task_exit, Die, Executes, vars, taskVars, cpuVars, lockVars, States, Idles
<1> QED BY Zenon, <1>1, <1>2, <1>3, <1>5, <1>6, <1>7, <1>8, <1>9 DEF IInv

\* A system call enters the kernel on the task's own stack.
LEMMA SyscallStep ==
    ASSUME IInv, NEW c \in CPUS, NEW t \in Tasks, InUser(c, t), mode' = [mode EXCEPT ![t] = "kernel"],
           UNCHANGED <<state, id, cpu, wait_object, preempt_depth, control_request,
                       pstate, yielding, loop, held, cpuVars, next_task_id, lockVars>>
    PROVE  IInv'
<1> USE ConstantsAssumption
<1>1. TypeOK'
    BY Zenon DEF IInv, TypeOK, InUser, vars, taskVars, cpuVars, lockVars, States, Idles
<1>2. CpuInv'
    BY DEF IInv, CpuInv, TaskInv, RunningIsCurrent, TypeOK, InUser, vars, taskVars, cpuVars, lockVars, States, Idles
<1>3. TaskInv'
    BY DEF IInv, TaskInv, CpuInv, TypeOK, InUser, vars, taskVars, cpuVars, lockVars, States, Idles
<1>4. \A u \in Tasks : state'[u] = "UNUSED" <=> state[u] = "UNUSED"
    BY Zenon DEF IInv, TypeOK, CpuInv, InUser, vars, taskVars, cpuVars, lockVars, States, Idles
<1>5. IdInv' /\ MutualExclusion'
    BY Zenon, <1>4, LocksKept DEF IInv, InUser, vars, taskVars, cpuVars, lockVars, States, Idles
<1>6. RunningIsCurrent'
    BY Zenon DEF IInv, RunningIsCurrent, CpuInv, TypeOK, InUser, vars, taskVars, cpuVars, lockVars, States, Idles
<1>7. NoLostWakeup'
    BY Zenon DEF IInv, NoLostWakeup, TypeOK, InUser, vars, taskVars, cpuVars, lockVars, States, Idles
<1>8. IdleSeesWork'
    BY Zenon DEF IInv, IdleSeesWork, CpuInv, TaskInv, TypeOK, InUser, vars, taskVars, cpuVars, lockVars, States, Idles
<1>9. ProcessStateAgrees'
    BY Zenon DEF IInv, ProcessStateAgrees, TaskInv, CpuInv, TypeOK, InUser, vars, taskVars, cpuVars, lockVars, States, Idles
<1> QED BY Zenon, <1>1, <1>2, <1>3, <1>5, <1>6, <1>7, <1>8, <1>9 DEF IInv

\* The way back to user mode applies a pending control request.
LEMMA SyscallReturnStep ==
    ASSUME IInv, NEW c \in CPUS, NEW t \in Tasks, SyscallReturn(c, t)
    PROVE  IInv'
<1> USE ConstantsAssumption
<1>1. TypeOK'
    BY Zenon DEF IInv, TypeOK, SyscallReturn, Executes, Goto, vars, taskVars, cpuVars, lockVars, States, Idles
<1>2. CpuInv'
    BY DEF IInv, CpuInv, TaskInv, RunningIsCurrent, TypeOK, SyscallReturn, Executes, Goto, vars, taskVars, cpuVars, lockVars, States, Idles
<1>3. TaskInv'
    BY DEF IInv, TaskInv, CpuInv, TypeOK, SyscallReturn, Executes, Goto, vars, taskVars, cpuVars, lockVars, States, Idles
<1>4. \A u \in Tasks : state'[u] = "UNUSED" <=> state[u] = "UNUSED"
    BY Zenon DEF IInv, TypeOK, CpuInv, SyscallReturn, Executes, Goto, vars, taskVars, cpuVars, lockVars, States, Idles
<1>5. IdInv' /\ MutualExclusion'
    BY Zenon, <1>4, LocksKept DEF IInv, SyscallReturn, Executes, Goto, vars, taskVars, cpuVars, lockVars, States, Idles
<1>6. RunningIsCurrent'
    BY Zenon DEF IInv, RunningIsCurrent, CpuInv, TypeOK, SyscallReturn, Executes, Goto, vars, taskVars, cpuVars, lockVars, States, Idles
<1>7. NoLostWakeup'
    BY Zenon DEF IInv, NoLostWakeup, TypeOK, SyscallReturn, Executes, Goto, vars, taskVars, cpuVars, lockVars, States, Idles
<1>8. IdleSeesWork'
    BY Zenon DEF IInv, IdleSeesWork, CpuInv, TaskInv, TypeOK, SyscallReturn, Executes, Goto, vars, taskVars, cpuVars, lockVars, States, Idles
<1>9. ProcessStateAgrees'
    BY Zenon DEF IInv, ProcessStateAgrees, TaskInv, CpuInv, TypeOK, SyscallReturn, Executes, Goto, vars, taskVars, cpuVars, lockVars, States, Idles
<1> QED BY Zenon, <1>1, <1>2, <1>3, <1>5, <1>6, <1>7, <1>8, <1>9 DEF IInv

\* A fault in user mode makes the process a zombie.
LEMMA FaultStep ==
    ASSUME IInv, NEW c \in CPUS, NEW t \in Tasks, InUser(c, t), Die(t), Goto(c, "resched"),
           UNCHANGED <<id, cpu, wait_object, preempt_depth, control_request, mode,
                       yielding, loop, held, current, stack_owner, work_pending,
                       rsp, ipi, next_task_id, lockVars>>
    PROVE  IInv'
<1> USE ConstantsAssumption
<1>1. TypeOK'
    BY Zenon DEF IInv, TypeOK, InUser, Die, Goto, vars, taskVars, cpuVars, lockVars, States, Idles
<1>2. CpuInv'
    BY DEF IInv, CpuInv, TaskInv, RunningIsCurrent, TypeOK, InUser, Die, Goto, vars, taskVars, cpuVars, lockVars, States, Idles
<1>3. TaskInv'
    BY DEF IInv, TaskInv, CpuInv, TypeOK, InUser, Die, Goto, vars, taskVars, cpuVars, lockVars, States, Idles
<1>4. \A u \in Tasks : state'[u] = "UNUSED" <=> state[u] = "UNUSED"
    BY DEF IInv, TypeOK, CpuInv, InUser, Die, Goto, vars, taskVars, cpuVars, lockVars, States, Idles
<1>5. IdInv' /\ MutualExclusion'
    BY Zenon, <1>4, LocksKept DEF IInv, InUser, Die, Goto, vars, taskVars, cpuVars, lockVars, States, Idles
<1>6. RunningIsCurrent'
    BY DEF IInv, RunningIsCurrent, CpuInv, TypeOK, InUser, Die, Goto, vars, taskVars, cpuVars, lockVars, States, Idles
<1>7. NoLostWakeup'
    BY ZenonT(40) DEF IInv, NoLostWakeup, TypeOK, InUser, Die, Goto, vars, taskVars, cpuVars, lockVars, States, Idles
<1>8. IdleSeesWork'
    BY Zenon, IdleKept DEF IInv, TypeOK, Die
<1>9. ProcessStateAgrees'
    BY DEF IInv, ProcessStateAgrees, TaskInv, CpuInv, TypeOK, InUser, Die, Goto, vars, taskVars, cpuVars, lockVars, States, Idles
<1> QED BY Zenon, <1>1, <1>2, <1>3, <1>5, <1>6, <1>7, <1>8, <1>9 DEF IInv


\* Taking a free mutex, in k_mutex_lock or k_mutex_trylock.
LEMMA AcquireStep ==
    ASSUME IInv, NEW c \in CPUS, NEW t \in Tasks, NEW m \in Mutexes,
           Executes(c, t), Acquire(t, m),
           UNCHANGED <<id, cpu, preempt_depth, control_request, pstate, mode,
                       cpuVars, next_task_id, count>>
    PROVE  IInv'
<1> USE DEF Acquire, cpuVars
<1>1. TypeOK'
    BY Zenon DEF IInv, TypeOK
<1>2. state[t] = "RUNNING" /\ id[t] # 0
    BY Zenon DEF IInv, CpuInv, IdInv, Executes
<1>3. CpuInv' /\ TaskInv' /\ RunningIsCurrent' /\ IdleSeesWork' /\ ProcessStateAgrees'
    BY <1>2 DEF IInv, TypeOK, CpuInv, TaskInv, RunningIsCurrent, IdleSeesWork,
                ProcessStateAgrees, Executes
<1>4. NoLostWakeup'
    BY Zenon, <1>2 DEF IInv, TypeOK, NoLostWakeup
<1>5. MutualExclusion'
  <2> SUFFICES ASSUME NEW k \in Mutexes, NEW u \in Tasks
               PROVE  k \in held'[u] <=> owner'[k] # 0 /\ owner'[k] = id[u]
      BY DEF MutualExclusion
  <2>1. CASE k # m
      BY Zenon, <2>1 DEF IInv, TypeOK, MutualExclusion
  <2>2. CASE k = m /\ u = t
      BY Zenon, <2>2, <1>2 DEF IInv, TypeOK
  <2>3. CASE k = m /\ u # t
      BY <2>3, <1>2 DEF IInv, TypeOK, MutualExclusion, IdInv
  <2> QED BY Zenon, <2>1, <2>2, <2>3
<1>6. IdInv'
  <2>1. ASSUME NEW k \in Mutexes, owner'[k] # 0
        PROVE  \E u \in Tasks : k \in held'[u]
    <3>1. CASE k = m
        BY Zenon, <3>1 DEF IInv, TypeOK
    <3>2. CASE k # m
      <4>1. PICK u \in Tasks : k \in held[u]
          BY Zenon, <2>1, <3>2 DEF IInv, TypeOK, IdInv
      <4> QED BY Zenon, <4>1 DEF IInv, TypeOK
    <3> QED BY Zenon, <3>1, <3>2
  <2> QED BY Zenon, <2>1 DEF IInv, IdInv
<1> QED BY Zenon, <1>1, <1>3, <1>4, <1>5, <1>6 DEF IInv

\* k_mutex_unlock wakes every waiter, so none is left waiting for a free mutex.
LEMMA UnlockStep ==
    ASSUME IInv, NEW c \in CPUS, NEW t \in Tasks, NEW m \in Mutexes,
           k_mutex_unlock(c, t, m)
    PROVE  IInv'
<1> DEFINE woken == Waiters(m)
<1>1. woken \in SUBSET Tasks /\ task_ready(c, woken)
    BY Zenon DEF k_mutex_unlock, wake_object, Waiters
<1>2. \A u \in woken : state[u] = "BLOCKED"
    BY Zenon DEF Waiters
<1>3. \A u \in Tasks \ woken : state[u] = "BLOCKED" => wait_object[u] # m
    BY Zenon DEF Waiters
<1> HIDE DEF woken
<1>4. /\ state' \in [Tasks -> States]
      /\ wait_object' \in [Tasks -> Mutexes \union Semaphores \union {Nothing}]
      /\ work_pending' \in [CPUS -> BOOLEAN] /\ ipi' \in [CPUS -> BOOLEAN]
      /\ \A u \in woken : state'[u] = "READY" /\ work_pending'[cpu[u]]
      /\ \A u \in Tasks \ woken : state'[u] = state[u] /\ wait_object'[u] = wait_object[u]
      /\ \A d \in CPUS : work_pending[d] => work_pending'[d]
    BY Zenon, <1>1, Wake DEF IInv
<1>5. /\ owner[m] # 0 /\ owner[m] = id[t]
      /\ owner' = [owner EXCEPT ![m] = 0]
      /\ held' = [held EXCEPT ![t] = @ \ {m}]
      /\ UNCHANGED <<id, cpu, preempt_depth, control_request, pstate, mode, yielding,
                     loop, current, stack_owner, rsp, at, next_task_id, count>>
    BY Zenon DEF k_mutex_unlock
<1>6. TypeOK'
  <2>1. owner' \in [Mutexes -> 0 .. MAX_ID]
      BY <1>5, Bounds DEF IInv, TypeOK
  <2>2. held' \in [Tasks -> SUBSET Mutexes]
      BY Zenon, <1>5 DEF IInv, TypeOK
  <2> QED BY Zenon, <2>1, <2>2, <1>4, <1>5 DEF IInv, TypeOK
<1>7. CpuInv' /\ RunningIsCurrent'
    BY SMTT(30), <1>1, <1>2, <1>4, <1>5 DEF IInv, TypeOK, CpuInv, RunningIsCurrent
<1>8. TaskInv'
  <2>1. \A d \in CPUS : IDLE[d] \in Tasks /\ IDLE[d] \notin woken
      BY <1>2, ConstantsAssumption DEF IInv, TaskInv
  <2>2. \A u \in Tasks : held'[u] \subseteq held[u]
      BY Zenon, <1>5 DEF IInv, TypeOK
  <2> QED BY SMTT(60), <2>1, <2>2, <1>2, <1>4, <1>5 DEF IInv, TaskInv
<1>9. IdleSeesWork'
    BY Zenon, <1>1, <1>4, <1>5, IdleKept DEF IInv
<1>10. ProcessStateAgrees'
    BY SMTT(30), <1>1, <1>2, <1>4, <1>5 DEF IInv, TypeOK, ProcessStateAgrees
<1>11. NoLostWakeup'
  <2> SUFFICES ASSUME NEW u \in Tasks, state'[u] = "BLOCKED"
               PROVE  \/ wait_object'[u] \in Mutexes /\ owner'[wait_object'[u]] # 0
                      \/ wait_object'[u] \in Semaphores /\ count'[wait_object'[u]] = 0
      BY Zenon DEF NoLostWakeup
  <2>1. u \notin woken
      BY Zenon, <1>4
  <2>2. state[u] = "BLOCKED" /\ wait_object'[u] = wait_object[u] /\ wait_object[u] # m
      BY Zenon, <2>1, <1>3, <1>4
  <2> QED BY ZenonT(40), <2>2, <1>5 DEF IInv, TypeOK, NoLostWakeup
<1>12. MutualExclusion'
  <2> SUFFICES ASSUME NEW k \in Mutexes, NEW u \in Tasks
               PROVE  k \in held'[u] <=> owner'[k] # 0 /\ owner'[k] = id[u]
      BY <1>5 DEF MutualExclusion
  <2>1. CASE k # m
      BY <2>1, <1>5 DEF IInv, TypeOK, MutualExclusion
  <2>2. CASE k = m /\ u = t
      BY Zenon, <2>2, <1>5 DEF IInv, TypeOK
  <2>3. CASE k = m /\ u # t
      BY <2>3, <1>5 DEF IInv, TypeOK, MutualExclusion, IdInv
  <2> QED BY Zenon, <2>1, <2>2, <2>3
<1>13. IdInv'
  <2>1. ASSUME NEW k \in Mutexes, owner'[k] # 0
        PROVE  \E u \in Tasks : k \in held'[u]
    <3>1. k # m /\ owner[k] # 0
        BY Zenon, <2>1, <1>5 DEF IInv, TypeOK
    <3>2. PICK u \in Tasks : k \in held[u]
        BY Zenon, <3>1 DEF IInv, IdInv
    <3> QED BY <3>1, <3>2, <1>5 DEF IInv, TypeOK
  <2>2. \A u \in Tasks : state'[u] = "UNUSED" <=> state[u] = "UNUSED"
      BY Zenon, <1>1, <1>2, <1>4
  <2> QED BY Zenon, <2>1, <2>2, <1>5 DEF IInv, IdInv
<1> QED BY Zenon, <1>6, <1>7, <1>8, <1>9, <1>10, <1>11, <1>12, <1>13 DEF IInv
-----------------------------------------------------------------------------
(***************************************************************************)
(* The invariant survives the steps that move a task between queues or     *)
(* CPUs: semaphores, task creation and reaping, control requests, and the  *)
(* reschedule that keeps the task or picks another.                        *)
(***************************************************************************)

\* k_sem_post wakes every waiter of a semaphore it makes positive.
LEMMA PostStep ==
    ASSUME IInv, NEW c \in CPUS, NEW t \in Tasks, NEW s \in Semaphores,
           k_sem_post(c, t, s)
    PROVE  IInv'
<1> DEFINE woken == Waiters(s)
<1>1. woken \in SUBSET Tasks /\ task_ready(c, woken)
    BY Zenon DEF k_sem_post, wake_object, Waiters
<1>2. \A u \in woken : state[u] = "BLOCKED"
    BY Zenon DEF Waiters
<1>3. \A u \in Tasks \ woken : state[u] = "BLOCKED" => wait_object[u] # s
    BY Zenon DEF Waiters
<1> HIDE DEF woken
<1>4. /\ state' \in [Tasks -> States]
      /\ wait_object' \in [Tasks -> Mutexes \union Semaphores \union {Nothing}]
      /\ work_pending' \in [CPUS -> BOOLEAN] /\ ipi' \in [CPUS -> BOOLEAN]
      /\ \A u \in woken : state'[u] = "READY" /\ work_pending'[cpu[u]]
      /\ \A u \in Tasks \ woken : state'[u] = state[u] /\ wait_object'[u] = wait_object[u]
      /\ \A d \in CPUS : work_pending[d] => work_pending'[d]
    BY Zenon, <1>1, Wake DEF IInv
<1>5. /\ count' = [count EXCEPT ![s] = Posted(@)]
      /\ UNCHANGED <<id, cpu, preempt_depth, control_request, pstate, mode, yielding,
                     loop, held, current, stack_owner, rsp, at, next_task_id, owner>>
    BY Zenon DEF k_sem_post
<1>6. TypeOK'
  <2>1. count' \in [Semaphores -> 0 .. SEM_MAX]
    <3>1. count[s] \in 0 .. SEM_MAX
        BY Zenon DEF IInv, TypeOK
    <3>2. Posted(count[s]) \in 0 .. SEM_MAX
        BY <3>1, Bounds DEF Posted
    <3> QED BY Zenon, <3>2, <1>5 DEF IInv, TypeOK
  <2> QED BY Zenon, <2>1, <1>4, <1>5 DEF IInv, TypeOK
<1>7. CpuInv' /\ RunningIsCurrent'
    BY <1>1, <1>2, <1>4, <1>5 DEF IInv, TypeOK, CpuInv, RunningIsCurrent
<1>8. TaskInv'
  <2>1. \A d \in CPUS : IDLE[d] \in Tasks /\ IDLE[d] \notin woken
      BY <1>2, ConstantsAssumption DEF IInv, TaskInv
  <2> QED BY <2>1, <1>2, <1>4, <1>5 DEF IInv, TaskInv
<1>9. IdleSeesWork'
    BY Zenon, <1>1, <1>4, <1>5, IdleKept DEF IInv
<1>10. ProcessStateAgrees'
    BY <1>1, <1>2, <1>4, <1>5 DEF IInv, TypeOK, ProcessStateAgrees
<1>11. NoLostWakeup'
  <2> SUFFICES ASSUME NEW u \in Tasks, state'[u] = "BLOCKED"
               PROVE  \/ wait_object'[u] \in Mutexes /\ owner'[wait_object'[u]] # 0
                      \/ wait_object'[u] \in Semaphores /\ count'[wait_object'[u]] = 0
      BY Zenon DEF NoLostWakeup
  <2>1. state[u] = "BLOCKED" /\ wait_object'[u] = wait_object[u] /\ wait_object[u] # s
      BY Zenon, <1>3, <1>4
  <2> QED BY Zenon, <2>1, <1>5 DEF IInv, TypeOK, NoLostWakeup
<1>12. IdInv' /\ MutualExclusion'
  <2>1. \A u \in Tasks : state'[u] = "UNUSED" <=> state[u] = "UNUSED"
      BY Zenon, <1>1, <1>2, <1>4
  <2> QED BY Zenon, <2>1, <1>5, LocksKept DEF IInv
<1> QED BY Zenon, <1>6, <1>7, <1>8, <1>9, <1>10, <1>11, <1>12 DEF IInv

\* k_sem_wait that finds a positive count.
LEMMA SemTakeStep ==
    ASSUME IInv, NEW c \in CPUS, NEW t \in Tasks, NEW s \in Semaphores,
           count[s] > 0, count' = [count EXCEPT ![s] = @ - 1],
           loop' = [loop EXCEPT ![t] = Nothing],
           UNCHANGED <<state, wait_object, yielding, owner, held, id, cpu,
                       preempt_depth, control_request, pstate, mode, cpuVars,
                       next_task_id>>
    PROVE  IInv'
<1> USE DEF cpuVars
<1>1. TypeOK'
  <2>1. count' \in [Semaphores -> 0 .. SEM_MAX]
    <3>1. count[s] \in 0 .. SEM_MAX
        BY Zenon DEF IInv, TypeOK
    <3>2. count[s] - 1 \in 0 .. SEM_MAX
        BY <3>1, Bounds
    <3> QED BY Zenon, <3>2 DEF IInv, TypeOK
  <2>2. loop' \in [Tasks -> Mutexes \union Semaphores \union {Nothing}]
      BY Zenon DEF IInv, TypeOK
  <2> QED BY Zenon, <2>1, <2>2 DEF IInv, TypeOK
<1>2. CpuInv' /\ RunningIsCurrent' /\ IdleSeesWork' /\ ProcessStateAgrees'
    BY DEF IInv, CpuInv, RunningIsCurrent, IdleSeesWork, ProcessStateAgrees
<1>3. TaskInv'
    BY DEF IInv, TypeOK, TaskInv
<1>4. NoLostWakeup'
  <2>1. \A k \in Semaphores : count[k] = 0 => count'[k] = 0
      BY DEF IInv, TypeOK
  <2> QED BY Zenon, <2>1 DEF IInv, NoLostWakeup
<1>5. IdInv' /\ MutualExclusion'
    BY Zenon, LocksKept DEF IInv
<1> QED BY Zenon, <1>1, <1>2, <1>3, <1>4, <1>5 DEF IInv

\* new_task hands out an id above all others.
LEMMA CreateStep ==
    ASSUME IInv, NEW c \in CPUS, NEW u \in Tasks, NEW d \in CPUS,
           NEW user \in BOOLEAN, new_task(c, u, d, user)
    PROVE  IInv'
<1> USE DEF new_task, NextId, lockVars
<1>1. TypeOK'
  <2>1. next_task_id' \in 0 .. MAX_ID
      BY Bounds DEF IInv, TypeOK
  <2>5. id' \in [Tasks -> 0 .. MAX_ID]
      BY Zenon DEF IInv, TypeOK
  <2>2. ipi' \in [CPUS -> BOOLEAN] /\ work_pending' \in [CPUS -> BOOLEAN]
      BY Zenon DEF IInv, TypeOK
  <2>3. /\ state' \in [Tasks -> States]
        /\ pstate' \in [Tasks -> (States \ {"UNUSED"}) \union {"none"}]
      BY Zenon DEF IInv, TypeOK, States
  <2>4. cpu' \in [Tasks -> CPUS] /\ mode' \in [Tasks -> {"user", "kernel"}]
      BY Zenon DEF IInv, TypeOK
  <2> QED BY Zenon, <2>1, <2>2, <2>3, <2>4, <2>5 DEF IInv, TypeOK
<1>2. \A e \in CPUS : u \notin {current[e], rsp[e], stack_owner[e], IDLE[e]}
    BY DEF IInv, TypeOK, CpuInv, TaskInv
<1>3. CpuInv' /\ RunningIsCurrent'
    BY <1>2 DEF IInv, TypeOK, CpuInv, RunningIsCurrent
<1>4. TaskInv'
  <2>1. \A e \in CPUS : IDLE[e] \in Tasks
      BY Zenon, ConstantsAssumption
  <2> QED BY SMTT(30), <1>2, <2>1 DEF IInv, TypeOK, TaskInv
<1>5. IdleSeesWork'
    BY <1>2 DEF IInv, TypeOK, IdleSeesWork
<1>6. NoLostWakeup'
    BY Zenon DEF IInv, TypeOK, NoLostWakeup
<1>7. ProcessStateAgrees'
    BY Zenon DEF IInv, TypeOK, ProcessStateAgrees
<1>8. held[u] = {} /\ id[u] = 0 /\ next_task_id # 0
    BY Zenon DEF IInv, TaskInv, IdInv
<1>9. MutualExclusion'
  <2> SUFFICES ASSUME NEW k \in Mutexes, NEW v \in Tasks
               PROVE  k \in held[v] <=> owner[k] # 0 /\ owner[k] = id'[v]
      BY Zenon DEF MutualExclusion
  <2>1. CASE v # u
      BY Zenon, <2>1 DEF IInv, TypeOK, MutualExclusion
  <2>2. CASE v = u
    <3>1. ASSUME owner[k] # 0 PROVE owner[k] # next_task_id
      <4>1. PICK w \in Tasks : k \in held[w]
          BY Zenon, <3>1 DEF IInv, IdInv
      <4> QED BY <4>1, <1>8 DEF IInv, TypeOK, MutualExclusion, IdInv
    <3> QED BY Zenon, <3>1, <2>2, <1>8 DEF IInv, TypeOK
  <2> QED BY Zenon, <2>1, <2>2
<1>10. IdInv'
  <2>1. /\ id'[u] = next_task_id /\ state'[u] = "READY"
        /\ \A v \in Tasks \ {u} : id'[v] = id[v] /\ state'[v] = state[v]
        /\ next_task_id' # 0 => next_task_id' = next_task_id + 1
        /\ \A v \in Tasks : id[v] < next_task_id /\ id[v] \in Nat
        /\ next_task_id \in Nat
      BY <1>8 DEF IInv, TypeOK, IdInv
  <2>2. ASSUME NEW v \in Tasks
        PROVE /\ id'[v] = 0 <=> state'[v] = "UNUSED"
              /\ next_task_id' # 0 => id'[v] < next_task_id'
    <3>1. CASE v = u
        BY <3>1, <2>1, <1>8
    <3>2. CASE v # u
        BY <3>2, <2>1 DEF IInv, IdInv
    <3> QED BY Zenon, <3>1, <3>2
  <2>3. ASSUME NEW v \in Tasks, NEW w \in Tasks, v # w, id'[v] = id'[w]
        PROVE  id'[v] = 0
      BY <2>3, <2>1 DEF IInv, IdInv
  <2>4. \A k \in Mutexes : owner'[k] # 0 => \E v \in Tasks : k \in held'[v]
      BY Zenon DEF IInv, IdInv
  <2> QED BY Zenon, <2>2, <2>3, <2>4 DEF IdInv
<1> QED BY Zenon, <1>1, <1>3, <1>4, <1>5, <1>6, <1>7, <1>9, <1>10 DEF IInv

\* free_task of a zombie that no CPU uses.
LEMMA FreeStep ==
    ASSUME IInv, NEW u \in Tasks, state[u] = "ZOMBIE", OffCpu(u), free_task(u)
    PROVE  IInv'
<1> USE DEF free_task, cpuVars, lockVars
<1>1. TypeOK'
  <2>5. cpu' \in [Tasks -> CPUS]
      BY Zenon, ConstantsAssumption DEF IInv, TypeOK
  <2>1. /\ state' \in [Tasks -> States]
        /\ preempt_depth' \in [Tasks -> Nat]
      BY Zenon DEF IInv, TypeOK, States
  <2>4. id' \in [Tasks -> 0 .. MAX_ID]
      BY Bounds DEF IInv, TypeOK
  <2>2. /\ wait_object' \in [Tasks -> Mutexes \union Semaphores \union {Nothing}]
        /\ loop' \in [Tasks -> Mutexes \union Semaphores \union {Nothing}]
        /\ held' \in [Tasks -> SUBSET Mutexes]
      BY Zenon DEF IInv, TypeOK
  <2>3. /\ control_request' \in [Tasks -> {"none", "KILL", "STOP"}]
        /\ pstate' \in [Tasks -> (States \ {"UNUSED"}) \union {"none"}]
        /\ mode' \in [Tasks -> {"user", "kernel"}]
        /\ yielding' \in [Tasks -> BOOLEAN]
      BY Zenon DEF IInv, TypeOK
  <2> QED BY Zenon, <2>1, <2>2, <2>3, <2>4, <2>5 DEF IInv, TypeOK
<1>2. \A e \in CPUS : u \notin {current[e], rsp[e], stack_owner[e], IDLE[e]}
    BY SMTT(30) DEF IInv, TypeOK, CpuInv, TaskInv, OffCpu
<1>3. CpuInv' /\ RunningIsCurrent'
    BY SMTT(30), <1>2 DEF IInv, TypeOK, CpuInv, RunningIsCurrent
<1>4. TaskInv'
  <2>1. \A e \in CPUS : IDLE[e] \in Tasks \ {u}
      BY Zenon, <1>2, ConstantsAssumption
  <2>2. ASSUME NEW e \in CPUS
        PROVE  /\ state'[IDLE[e]] = state[IDLE[e]] /\ cpu'[IDLE[e]] = cpu[IDLE[e]]
               /\ mode'[IDLE[e]] = mode[IDLE[e]] /\ yielding'[IDLE[e]] = yielding[IDLE[e]]
               /\ pstate'[IDLE[e]] = pstate[IDLE[e]]
      BY Zenon, <2>1 DEF IInv, TypeOK
  <2> QED BY SMTT(30), <2>2 DEF IInv, TypeOK, TaskInv
<1>5. IdleSeesWork'
    BY Zenon, <1>2 DEF IInv, TypeOK, IdleSeesWork
<1>6. NoLostWakeup'
    BY Zenon DEF IInv, TypeOK, NoLostWakeup
<1>7. ProcessStateAgrees'
    BY Zenon DEF IInv, TypeOK, ProcessStateAgrees
<1>8. held[u] = {} /\ held' = held
    BY DEF IInv, TypeOK, TaskInv
<1>9. MutualExclusion'
  <2> SUFFICES ASSUME NEW k \in Mutexes, NEW v \in Tasks
               PROVE  k \in held[v] <=> owner[k] # 0 /\ owner[k] = id'[v]
      BY Zenon, <1>8 DEF MutualExclusion
  <2>1. CASE v # u
      BY Zenon, <2>1 DEF IInv, TypeOK, MutualExclusion
  <2>2. CASE v = u
      BY <2>2, <1>8 DEF IInv, TypeOK
  <2> QED BY Zenon, <2>1, <2>2
<1>10. IdInv'
  <2>1. ASSUME NEW v \in Tasks
        PROVE /\ id'[v] = 0 <=> state'[v] = "UNUSED"
              /\ next_task_id' # 0 => id'[v] < next_task_id'
      BY DEF IInv, TypeOK, IdInv
  <2>2. ASSUME NEW v \in Tasks, NEW w \in Tasks, v # w, id'[v] = id'[w]
        PROVE  id'[v] = 0
      BY Zenon, <2>2 DEF IInv, TypeOK, IdInv
  <2>3. \A k \in Mutexes : owner'[k] # 0 => \E v \in Tasks : k \in held'[v]
      BY Zenon, <1>8 DEF IInv, IdInv
  <2> QED BY Zenon, <2>1, <2>2, <2>3 DEF IdInv
<1> QED BY Zenon, <1>1, <1>3, <1>4, <1>5, <1>6, <1>7, <1>9, <1>10 DEF IInv

\* process_control_locked wakes a stopped task, or a sleeping one it is to stop
\* or kill, and publishes it.
LEMMA ControlStep ==
    ASSUME IInv, NEW c \in CPUS, NEW t \in Tasks, NEW u \in Tasks,
           NEW op \in {"KILL", "STOP", "CONTINUE"}, process_control(c, t, u, op)
    PROVE  IInv'
<1> DEFINE woken == IF state[u] = "STOPPED" \/ (op # "CONTINUE" /\ state[u] = "SLEEPING")
                    THEN {u} ELSE {}
<1>1. /\ control_request' = [control_request EXCEPT ![u] = Requested(@, op)]
      /\ state' = Readied(woken)
      /\ wait_object' = Forgotten(woken)
      /\ work_pending' = [work_pending EXCEPT ![cpu[u]] = TRUE]
      /\ ipi' = [d \in CPUS |-> ipi[d] \/ d \in CpusOf(woken) \ {c}]
      /\ pstate' = IF woken = {} THEN pstate ELSE [pstate EXCEPT ![u] = "READY"]
      /\ pstate[u] # "none" /\ state[u] # "ZOMBIE"
      /\ UNCHANGED <<id, cpu, preempt_depth, mode, yielding, loop, held, current,
                     stack_owner, rsp, at, next_task_id, owner, count>>
    BY Zenon DEF process_control, lockVars
<1>2. /\ woken \subseteq {u}
      /\ u \in woken => state[u] \in {"STOPPED", "SLEEPING"}
    BY Zenon
<1> HIDE DEF woken
<1>3. TypeOK'
  <2>1. state' \in [Tasks -> States]
      BY Zenon, <1>1, <1>2 DEF IInv, TypeOK, Readied, States
  <2>2. wait_object' \in [Tasks -> Mutexes \union Semaphores \union {Nothing}]
      BY Zenon, <1>1, <1>2 DEF IInv, TypeOK, Forgotten
  <2>3. /\ control_request' \in [Tasks -> {"none", "KILL", "STOP"}]
        /\ pstate' \in [Tasks -> (States \ {"UNUSED"}) \union {"none"}]
      BY Zenon, <1>1 DEF IInv, TypeOK, States, Requested
  <2>4. ipi' \in [CPUS -> BOOLEAN]
      BY Zenon, <1>1, Zenon
  <2>5. work_pending' \in [CPUS -> BOOLEAN]
      BY Zenon, <1>1 DEF IInv, TypeOK
  <2> QED BY Zenon, <1>1, <2>1, <2>2, <2>3, <2>4, <2>5 DEF IInv, TypeOK
<1>4. /\ \A v \in Tasks : state'[v] = IF v \in woken THEN "READY" ELSE state[v]
      /\ \A v \in Tasks \ {u} : /\ pstate'[v] = pstate[v]
                                /\ control_request'[v] = control_request[v]
      /\ \A v \in Tasks : pstate'[v] = IF v \in woken THEN "READY" ELSE pstate[v]
    BY ZenonT(40), <1>1, <1>2 DEF IInv, TypeOK, Readied
<1>5. u \notin Idles /\ state[u] # "UNUSED" /\ \A d \in CPUS : IDLE[d] \in Tasks \ {u}
    BY <1>1, ConstantsAssumption DEF IInv, TaskInv, Idles
<1>6. CpuInv' /\ RunningIsCurrent'
    BY <1>1, <1>2, <1>4 DEF IInv, TypeOK, CpuInv, RunningIsCurrent
<1>7. TaskInv'
  <2>1. \A d \in CPUS : /\ state'[IDLE[d]] \in {"READY", "RUNNING"}
                        /\ ~yielding'[IDLE[d]] /\ pstate'[IDLE[d]] = "none"
    <3> SUFFICES ASSUME NEW d \in CPUS
                 PROVE  /\ state'[IDLE[d]] \in {"READY", "RUNNING"}
                        /\ ~yielding'[IDLE[d]] /\ pstate'[IDLE[d]] = "none"
        BY Zenon
    <3>1. state'[IDLE[d]] = state[IDLE[d]] /\ pstate'[IDLE[d]] = pstate[IDLE[d]]
        BY Zenon, <1>2, <1>4, <1>5
    <3> QED BY Zenon, <1>1, <3>1 DEF IInv, TaskInv
  <2>2. \A v \in Tasks :
           /\ pstate'[v] = "none" <=> pstate[v] = "none"
           /\ state'[v] \in {"UNUSED", "ZOMBIE", "STOPPED"} => state'[v] = state[v]
      BY Zenon, <1>1, <1>2, <1>4
  <2>3. \A v \in Tasks : state'[v] = "UNUSED" => control_request'[v] = control_request[v]
      BY Zenon, <1>2, <1>4, <1>5
  <2>4. \A v \in Tasks : yielding'[v] => yielding[v]
      BY Zenon, <1>1
  <2> QED BY Zenon, <1>1, <2>1, <2>2, <2>3, <2>4, TaskInvKept DEF IInv
<1>8. IdleSeesWork'
  <2>1. work_pending'[cpu[u]] /\ \A d \in CPUS : work_pending[d] => work_pending'[d]
      BY Zenon, <1>1 DEF IInv, TypeOK
  <2> QED BY Zenon, <1>1, <1>2, <1>4, <2>1, IdleKept DEF IInv
<1>9. NoLostWakeup'
    BY <1>1, <1>2, <1>4 DEF IInv, TypeOK, NoLostWakeup, Forgotten
<1>10. ProcessStateAgrees'
  <2>1. \A v \in Tasks : v \in woken \/ (state'[v] = state[v] /\ pstate'[v] = pstate[v])
      BY Zenon, <1>4
  <2>2. \A v \in woken : state'[v] = "READY" /\ pstate'[v] = "READY"
      BY Zenon, <1>2, <1>4
  <2> QED BY Zenon, <2>1, <2>2 DEF IInv, ProcessStateAgrees
<1>11. IdInv' /\ MutualExclusion'
    BY ZenonT(40), <1>1, <1>2, <1>4, <1>5, LocksKept DEF IInv
<1> QED BY Zenon, <1>3, <1>6, <1>7, <1>8, <1>9, <1>10, <1>11 DEF IInv

\* What CpuInv says of one CPU.
CpuOk(d) ==
    /\ current[d] \in Tasks /\ state[current[d]] # "UNUSED" /\ cpu[current[d]] = d
    /\ rsp[d] \in Tasks /\ state[rsp[d]] # "UNUSED" /\ cpu[rsp[d]] = d
    /\ stack_owner[d] \in Tasks /\ state[stack_owner[d]] # "UNUSED" /\ cpu[stack_owner[d]] = d
    /\ at[d] = "task" => rsp[d] = current[d] /\ stack_owner[d] = current[d]
    /\ at[d] \in {"resched", "return"} => rsp[d] = stack_owner[d]
    /\ at[d] = "owner" => rsp[d] = current[d]
    /\ at[d] \in {"return", "owner"} => state[current[d]] = "RUNNING"
    /\ at[d] = "task" /\ ~yielding[current[d]] => state[current[d]] = "RUNNING"

LEMMA OfCpu ==
    ASSUME IInv, NEW d \in CPUS
    PROVE  CpuOk(d)
<1>1. current[d] \in Tasks /\ rsp[d] \in Tasks /\ stack_owner[d] \in Tasks
    BY Zenon DEF IInv, TypeOK
<1>2. CpuInv
    BY Zenon DEF IInv
<1> QED BY SMT, <1>1, <1>2 DEF CpuInv, CpuOk

LEMMA EveryCpu ==
    ASSUME \A d \in CPUS : CpuOk(d)'
    PROVE  CpuInv'
    BY SMT DEF CpuInv, CpuOk

\* kernel_schedule hands CPU d the task it returns to.
LEMMA CpuPicks ==
    ASSUME NEW d \in CPUS, CpuOk(d), at[d] \in {"task", "resched"},
           UNCHANGED <<cpu, rsp, stack_owner>>,
           \A t \in Tasks : state[t] # "UNUSED" => state'[t] # "UNUSED",
           current'[d] \in Tasks, cpu[current'[d]] = d, state'[current'[d]] = "RUNNING",
           at'[d] = "return"
    PROVE  CpuOk(d)'
    BY SMT DEF CpuOk

\* A step of another CPU leaves d alone.
LEMMA CpuWatches ==
    ASSUME NEW d \in CPUS, CpuOk(d),
           UNCHANGED <<cpu, rsp, stack_owner>>,
           \A t \in Tasks : state[t] # "UNUSED" => state'[t] # "UNUSED",
           current'[d] = current[d], at'[d] = at[d],
           state'[current[d]] = state[current[d]],
           yielding'[current[d]] = yielding[current[d]]
    PROVE  CpuOk(d)'
    BY SMT DEF CpuOk

\* kernel_schedule when the running task keeps the CPU.
LEMMA KeepStep ==
    ASSUME IInv, NEW c \in CPUS, NEW due \in SUBSET Sleepers(c),
           at[c] \in {"task", "resched"}, state[current[c]] = "RUNNING",
           Keep(c, due), Goto(c, "return"),
           ipi' \in [CPUS -> BOOLEAN],
           yielding' \in {yielding, [yielding EXCEPT ![current[c]] = FALSE]},
           UNCHANGED <<id, cpu, preempt_depth, control_request, mode, loop, held,
                       stack_owner, rsp, next_task_id, lockVars>>
    PROVE  IInv'
<1> USE DEF lockVars
<1>1. due \in SUBSET Tasks /\ \A t \in due : state[t] = "SLEEPING" /\ cpu[t] = c
    BY Zenon DEF Sleepers
<1>2. TypeOK'
  <2>1. state' \in [Tasks -> States]
      BY Zenon DEF IInv, TypeOK, Keep, Readied, States
  <2>2. wait_object' \in [Tasks -> Mutexes \union Semaphores \union {Nothing}]
      BY Zenon DEF IInv, TypeOK, Keep, Forgotten
  <2>3. work_pending' \in [CPUS -> BOOLEAN]
      BY Zenon DEF Keep, Published
  <2>4. yielding' \in [Tasks -> BOOLEAN]
      BY Zenon DEF IInv, TypeOK
  <2>5. at' \in [CPUS -> {"task", "resched", "return", "owner"}]
      BY Zenon DEF IInv, TypeOK, Goto
  <2> QED BY Zenon, <2>1, <2>2, <2>3, <2>4, <2>5 DEF IInv, TypeOK, Keep
<1>3. /\ \A t \in Tasks : state'[t] = IF t \in due THEN "READY" ELSE state[t]
      /\ \A t \in Tasks \ due : wait_object'[t] = wait_object[t]
      /\ \A t \in due : work_pending'[cpu[t]]
      /\ \A d \in CPUS : work_pending[d] => work_pending'[d]
      /\ UNCHANGED <<pstate, current>>
  <2>1. ASSUME NEW t \in due PROVE work_pending'[cpu[t]]
    <3>1. cpu[t] \in CpusOf(due) /\ cpu[t] \in CPUS
        BY Zenon, <1>1 DEF CpusOf
    <3> QED BY Zenon, <3>1 DEF Keep, Published
  <2> QED BY Zenon, <1>1, <2>1 DEF Keep, Readied, Forgotten, Published
<1>4. \A t \in Tasks : yielding'[t] => yielding[t]
    BY ZenonT(40) DEF IInv, TypeOK
<1>5. \A d \in CPUS : d # c => current[d] # current[c] /\ at'[d] = at[d]
    BY DEF IInv, TypeOK, CpuInv, Goto
<1>6. at'[c] = "return"
    BY DEF IInv, TypeOK, Goto
<1>7. \A t \in Tasks \ {current[c]} : yielding'[t] = yielding[t]
    BY ZenonT(40) DEF IInv, TypeOK
<1>8. CpuInv'
  <2>1. /\ \A t \in Tasks : state[t] # "UNUSED" => state'[t] # "UNUSED"
        /\ \A t \in Tasks : state[t] = "RUNNING" => state'[t] = state[t]
      BY Zenon, <1>1, <1>3
  <2>2. ASSUME NEW d \in CPUS PROVE CpuOk(d)'
    <3>1. CpuOk(d) /\ current'[d] = current[d]
        BY Zenon, <1>3, OfCpu
    <3>2. current[d] \in Tasks /\ cpu[current[d]] = d
        BY Zenon, <3>1 DEF CpuOk
    <3>3. CASE d = c
      <4>1. state'[current[d]] = "RUNNING"
          BY Zenon, <3>2, <3>3, <2>1
      <4> QED BY Zenon, <3>1, <3>2, <3>3, <4>1, <2>1, <1>6, CpuPicks
    <3>4. CASE d # c
      <4>1. current[d] \notin due
          BY Zenon, <3>2, <3>4, <1>1
      <4>2. state'[current[d]] = state[current[d]]
          BY Zenon, <4>1, <3>2, <1>3
      <4>3. at'[d] = at[d] /\ yielding'[current[d]] = yielding[current[d]]
          BY Zenon, <3>2, <3>4, <1>5, <1>7
      <4> QED BY Zenon, <3>1, <4>2, <4>3, <2>1, CpuWatches
    <3> QED BY Zenon, <3>3, <3>4
  <2> QED BY Zenon, <2>2, EveryCpu
<1>9. RunningIsCurrent' /\ ProcessStateAgrees'
  <2>1. ASSUME NEW t \in Tasks, state'[t] = "RUNNING"
        PROVE  current'[cpu'[t]] = t
    <3>1. state[t] = "RUNNING"
        BY Zenon, <2>1, <1>3
    <3>2. current[cpu[t]] = t
        BY Zenon, <3>1 DEF IInv, RunningIsCurrent
    <3> QED BY Zenon, <3>2, <1>3
  <2>2. RunningIsCurrent'
      BY Zenon, <2>1 DEF RunningIsCurrent
  <2>3. \A t \in Tasks : state'[t] = "ZOMBIE" <=> state[t] = "ZOMBIE"
      BY Zenon, <1>1, <1>3
  <2>4. ProcessStateAgrees'
      BY Zenon, <2>3, <1>3 DEF IInv, ProcessStateAgrees
  <2> QED BY Zenon, <2>2, <2>4
<1>10. TaskInv'
  <2>1. ASSUME NEW d \in CPUS
        PROVE  /\ state'[IDLE[d]] \in {"READY", "RUNNING"}
               /\ ~yielding'[IDLE[d]] /\ pstate'[IDLE[d]] = "none"
    <3>1. IDLE[d] \in Tasks
        BY Zenon, ConstantsAssumption
    <3>2. state[IDLE[d]] \in {"READY", "RUNNING"} /\ ~yielding[IDLE[d]] /\ pstate[IDLE[d]] = "none"
        BY Zenon DEF IInv, TaskInv
    <3>3. state'[IDLE[d]] \in {"READY", "RUNNING"}
        BY Zenon, <3>1, <3>2, <1>3
    <3> QED BY Zenon, <3>1, <3>2, <3>3, <1>3, <1>4
  <2>2. \A t \in Tasks : state'[t] \in {"UNUSED", "ZOMBIE", "STOPPED"} => state'[t] = state[t]
      BY Zenon, <1>3
  <2> QED BY Zenon, <2>1, <2>2, <1>3, <1>4, TaskInvKept DEF IInv
<1>11. IdleSeesWork'
    BY Zenon, <1>1, <1>3, IdleKept DEF IInv
<1>12. NoLostWakeup'
  <2>1. \A t \in Tasks : state'[t] = "BLOCKED" =>
            state[t] = "BLOCKED" /\ wait_object'[t] = wait_object[t]
      BY Zenon, <1>3
  <2> QED BY ZenonT(40), <2>1 DEF IInv, NoLostWakeup
<1>13. IdInv' /\ MutualExclusion'
    BY Zenon, <1>1, <1>3, LocksKept DEF IInv
<1> QED BY Zenon, <1>2, <1>8, <1>9, <1>10, <1>11, <1>12, <1>13 DEF IInv

\* The task kernel_schedule picks is a READY task of this CPU.
LEMMA BestIsReady ==
    ASSUME IInv, NEW c \in CPUS, NEW due \in SUBSET Sleepers(c),
           NEW best \in Best(c, due)
    PROVE  /\ best \in Tasks /\ cpu[best] = c /\ Queued(c, due)[best] = "READY"
           /\ best \in Idles => best = IDLE[c] /\ Runnable(c, due) = {}
<1>1. CASE Runnable(c, due) # {}
    BY Zenon, <1>1 DEF Best, Runnable
<1>2. CASE Runnable(c, due) = {}
  <2>1. best = IDLE[c] /\ best \in Tasks
      BY Zenon, <1>2, ConstantsAssumption DEF Best
  <2>2. state[best] = "RUNNING" => best = current[c]
      BY <2>1 DEF IInv, TaskInv, RunningIsCurrent
  <2>3. cpu[best] = c /\ state[best] \in {"READY", "RUNNING"}
      BY Zenon, <2>1 DEF IInv, TaskInv
  <2> QED BY Zenon, <2>1, <2>2, <2>3, <1>2 DEF Queued
<1> QED BY Zenon, <1>1, <1>2

\* kernel_schedule when it picks the next task.
LEMMA PickStep ==
    ASSUME IInv, NEW c \in CPUS, NEW due \in SUBSET Sleepers(c),
           NEW best \in Best(c, due),
           at[c] \in {"task", "resched"}, PickNext(c, due, best), Goto(c, "return"),
           ipi' \in [CPUS -> BOOLEAN],
           yielding' \in {yielding, [yielding EXCEPT ![current[c]] = FALSE]},
           UNCHANGED <<id, cpu, preempt_depth, control_request, mode, loop, held,
                       stack_owner, rsp, next_task_id, lockVars>>
    PROVE  IInv'
<1> USE DEF lockVars
<1>1. due \in SUBSET Tasks /\ \A t \in due : state[t] = "SLEEPING" /\ cpu[t] = c
    BY Zenon DEF Sleepers
<1>2. /\ best \in Tasks /\ cpu[best] = c /\ Queued(c, due)[best] = "READY"
      /\ best \in Idles => best = IDLE[c] /\ Runnable(c, due) = {}
    BY Zenon, BestIsReady
<1>3. current[c] \in Tasks /\ cpu[current[c]] = c /\ state[current[c]] # "UNUSED"
    BY Zenon, OfCpu DEF CpuOk
<1>4. TypeOK'
  <2>1. state' \in [Tasks -> States]
      BY Zenon DEF IInv, TypeOK, PickNext, Queued, States
  <2>2. pstate' \in [Tasks -> (States \ {"UNUSED"}) \union {"none"}]
      BY Zenon DEF IInv, TypeOK, PickNext, States
  <2>3. wait_object' \in [Tasks -> Mutexes \union Semaphores \union {Nothing}]
      BY Zenon DEF IInv, TypeOK, PickNext, Forgotten
  <2>4. work_pending' \in [CPUS -> BOOLEAN]
      BY Zenon DEF IInv, TypeOK, PickNext, MoreWork
  <2>5. yielding' \in [Tasks -> BOOLEAN]
      BY Zenon DEF IInv, TypeOK
  <2>6. at' \in [CPUS -> {"task", "resched", "return", "owner"}]
      BY Zenon DEF IInv, TypeOK, Goto
  <2>7. current' \in [CPUS -> Tasks]
      BY ZenonT(40), <1>2 DEF IInv, TypeOK, PickNext
  <2> QED BY Zenon, <2>1, <2>2, <2>3, <2>4, <2>5, <2>6, <2>7 DEF IInv, TypeOK
<1>5. /\ \A t \in Tasks : state'[t] =
             IF t = best THEN "RUNNING"
             ELSE IF t \in due \/ (t = current[c] /\ state[t] = "RUNNING") THEN "READY"
             ELSE state[t]
      /\ \A t \in Tasks \ due : wait_object'[t] = wait_object[t]
      /\ \A t \in Tasks : pstate'[t] =
             IF pstate[t] = "none" THEN "none"
             ELSE IF t = best THEN "RUNNING"
             ELSE IF t = current[c] /\ state[t] = "RUNNING" THEN "READY"
             ELSE pstate[t]
      /\ current'[c] = best /\ \A d \in CPUS \ {c} : current'[d] = current[d]
      /\ at'[c] = "return" /\ \A d \in CPUS \ {c} : at'[d] = at[d]
    BY <1>2 DEF IInv, TypeOK, PickNext, Queued, Forgotten, Goto
<1>6. \A t \in Tasks \ {current[c]} : yielding'[t] = yielding[t]
    BY Zenon DEF IInv, TypeOK
<1>7. \A t \in Tasks : yielding'[t] => yielding[t]
    BY Zenon DEF IInv, TypeOK
<1>8. state[best] \in {"READY", "RUNNING", "SLEEPING"}
    BY Zenon, <1>1, <1>2 DEF Queued
<1>9. CpuInv'
  <2>1. \A t \in Tasks : state[t] # "UNUSED" => state'[t] # "UNUSED"
      BY Zenon, <1>5
  <2>2. ASSUME NEW d \in CPUS PROVE CpuOk(d)'
    <3>1. CpuOk(d)
        BY Zenon, OfCpu
    <3>2. CASE d = c
      <4>1. at'[d] = "return"
          BY Zenon, <3>2, <1>5
      <4>2. current'[d] = best
          BY Zenon, <3>2, <1>5
      <4>3. state'[best] = "RUNNING"
          BY Zenon, <1>2, <1>5
      <4> QED BY Zenon, <3>1, <3>2, <4>1, <4>2, <4>3, <2>1, <1>2, CpuPicks
    <3>3. CASE d # c
      <4>1. current[d] \in Tasks /\ cpu[current[d]] = d
          BY Zenon, <3>1 DEF CpuOk
      <4>2. current[d] # current[c] /\ current[d] # best /\ current[d] \notin due
          BY Zenon, <3>3, <4>1, <1>1, <1>2, <1>3
      <4>3. state'[current[d]] = state[current[d]] /\ yielding'[current[d]] = yielding[current[d]]
          BY Zenon, <4>1, <4>2, <1>5, <1>6
      <4>4. current'[d] = current[d] /\ at'[d] = at[d]
          BY Zenon, <3>3, <1>5
      <4> QED BY Zenon, <3>1, <4>3, <4>4, <2>1, CpuWatches
    <3> QED BY Zenon, <3>2, <3>3
  <2> QED BY Zenon, <2>2, EveryCpu
<1>10. RunningIsCurrent'
  <2> SUFFICES ASSUME NEW t \in Tasks, state'[t] = "RUNNING"
               PROVE  current'[cpu[t]] = t
      BY Zenon DEF RunningIsCurrent
  <2>1. CASE t = best
      BY Zenon, <2>1, <1>2, <1>5
  <2>2. CASE t # best
    <3>1. state[t] = "RUNNING" /\ t # current[c]
        BY ZenonT(40), <2>2, <1>5
    <3>2. current[cpu[t]] = t /\ cpu[t] \in CPUS \ {c}
        BY Zenon, <3>1 DEF IInv, TypeOK, RunningIsCurrent
    <3> QED BY Zenon, <3>2, <1>5
  <2> QED BY Zenon, <2>1, <2>2
<1>11. ProcessStateAgrees'
  <2> SUFFICES ASSUME NEW t \in Tasks, pstate'[t] # "none"
               PROVE  pstate'[t] = "ZOMBIE" <=> state'[t] = "ZOMBIE"
      BY Zenon DEF ProcessStateAgrees
  <2>1. pstate[t] # "none" /\ (pstate[t] = "ZOMBIE" <=> state[t] = "ZOMBIE")
      BY Zenon, <1>5 DEF IInv, ProcessStateAgrees
  <2>2. CASE t = best \/ (t = current[c] /\ state[t] = "RUNNING")
      BY Zenon, <2>1, <2>2, <1>5
  <2>3. CASE t # best /\ ~(t = current[c] /\ state[t] = "RUNNING")
    <3>1. pstate'[t] = pstate[t]
        BY Zenon, <2>1, <2>3, <1>5
    <3>2. state'[t] = "ZOMBIE" <=> state[t] = "ZOMBIE"
        BY Zenon, <2>3, <1>1, <1>5
    <3> QED BY Zenon, <2>1, <3>1, <3>2
  <2> QED BY Zenon, <2>2, <2>3
<1>12. TaskInv'
  <2>1. \A d \in CPUS : IDLE[d] \in Tasks
      BY Zenon, ConstantsAssumption
  <2>2. \A t \in Tasks : state'[t] \in {"UNUSED", "ZOMBIE", "STOPPED"} => state[t] = state'[t]
      BY Zenon, <1>5
  <2>3. \A t \in Tasks : pstate'[t] = "none" <=> pstate[t] = "none"
      BY ZenonT(40), <1>5 DEF IInv, TypeOK
  <2>4. ASSUME NEW d \in CPUS
        PROVE  /\ state'[IDLE[d]] \in {"READY", "RUNNING"}
               /\ ~yielding'[IDLE[d]] /\ pstate'[IDLE[d]] = "none"
    <3>1. /\ state[IDLE[d]] \in {"READY", "RUNNING"}
          /\ ~yielding[IDLE[d]] /\ pstate[IDLE[d]] = "none"
        BY Zenon DEF IInv, TaskInv
    <3>2. state'[IDLE[d]] \in {"READY", "RUNNING"}
        BY Zenon, <2>1, <3>1, <1>5
    <3> QED BY Zenon, <2>1, <2>3, <3>1, <3>2, <1>7
  <2> QED BY Zenon, <2>2, <2>3, <2>4, <1>7, TaskInvKept DEF IInv
<1>13. IdleSeesWork'
  <2> SUFFICES ASSUME NEW t \in Tasks \ Idles, state'[t] \in {"READY", "SLEEPING"},
                      current'[cpu[t]] = IDLE[cpu[t]]
               PROVE  work_pending'[cpu[t]]
      BY Zenon DEF IdleSeesWork
  <2>1. CASE cpu[t] # c
    <3>1. state'[t] = state[t] /\ current'[cpu[t]] = current[cpu[t]]
        BY ZenonT(40), <2>1, <1>1, <1>2, <1>3, <1>5 DEF IInv, TypeOK
    <3>2. work_pending[cpu[t]]
        BY Zenon, <3>1 DEF IInv, IdleSeesWork
    <3> QED BY Zenon, <3>2, <2>1 DEF IInv, TypeOK, PickNext
  <2>2. CASE cpu[t] = c
    <3>1. best = IDLE[c] /\ best \in Idles /\ Runnable(c, due) = {}
        BY ZenonT(40), <2>2, <1>2, <1>5 DEF Idles
    <3>2. Queued(c, due)[t] # "READY" /\ t # best
        BY Zenon, <2>2, <3>1 DEF Runnable
    <3>3. state[t] = "SLEEPING" /\ t \notin due
        BY Zenon, <3>2, <1>5 DEF Queued
    <3>4. t \in Sleepers(c) \ due
        BY Zenon, <3>3, <2>2 DEF Sleepers
    <3> QED BY Zenon, <3>4, <2>2 DEF IInv, TypeOK, PickNext, MoreWork
  <2> QED BY Zenon, <2>1, <2>2
<1>14. NoLostWakeup'
  <2>1. \A t \in Tasks : state'[t] = "BLOCKED" =>
            state[t] = "BLOCKED" /\ wait_object'[t] = wait_object[t]
      BY Zenon, <1>5
  <2> QED BY Zenon, <2>1 DEF IInv, NoLostWakeup
<1>15. IdInv' /\ MutualExclusion'
  <2>1. \A t \in Tasks : state'[t] = "UNUSED" <=> state[t] = "UNUSED"
      BY Zenon, <1>1, <1>5, <1>8
  <2> QED BY Zenon, <2>1, LocksKept DEF IInv
<1> QED BY Zenon, <1>4, <1>9, <1>10, <1>11, <1>12, <1>13, <1>14, <1>15 DEF IInv
-----------------------------------------------------------------------------
(***************************************************************************)
(* It survives every step, and implies the properties.                     *)
(***************************************************************************)

\* kernel_schedule preserves the invariant, whether it keeps the running task
\* or picks another.
LEMMA ScheduleStep ==
    ASSUME IInv, NEW c \in CPUS, NEW forced \in BOOLEAN,
           at[c] \in {"task", "resched"}, Interrupted(c, forced),
           ipi' \in [CPUS -> BOOLEAN],
           yielding' \in {yielding, [yielding EXCEPT ![current[c]] = FALSE]}
    PROVE  IInv'
<1>1. PICK due \in SUBSET Sleepers(c) :
          \/ MayKeep(c, forced) /\ Keep(c, due)
          \/ ~MustKeep(c) /\ \E best \in Best(c, due) : PickNext(c, due, best)
    BY Zenon DEF Interrupted, kernel_schedule
<1>2. /\ Goto(c, "return")
      /\ UNCHANGED <<id, cpu, preempt_depth, control_request, mode, loop, held,
                     stack_owner, rsp, next_task_id, lockVars>>
    BY Zenon DEF Interrupted
<1>3. CASE MayKeep(c, forced) /\ Keep(c, due)
    BY Zenon, <1>2, <1>3, KeepStep DEF MayKeep
<1>4. CASE \E best \in Best(c, due) : PickNext(c, due, best)
    BY Zenon, <1>2, <1>4, PickStep
<1> QED BY Zenon, <1>1, <1>3, <1>4

\* So does every step of the interrupt path,
LEMMA InterruptStep ==
    ASSUME IInv, NEW c \in CPUS, InterruptPath(c)
    PROVE  IInv'
<1>1. ipi \in [CPUS -> BOOLEAN] /\ [ipi EXCEPT ![c] = FALSE] \in [CPUS -> BOOLEAN]
    BY Zenon DEF IInv, TypeOK
<1>2. CASE TimerTick(c)
  <2>1. CASE ControlDue(c) /\ process_return_control(c)
      BY Zenon, <1>1, <1>2, <2>1, ReturnControlStep DEF TimerTick
  <2>2. CASE IdleFastPath(c)
      BY Zenon, <1>2, <2>2, IdleStep DEF TimerTick
  <2>3. CASE Interrupted(c, FALSE) /\ UNCHANGED yielding
      BY Zenon, <1>1, <1>2, <2>3, ScheduleStep DEF TimerTick
  <2> QED BY Zenon, <1>2, <2>1, <2>2, <2>3 DEF TimerTick
<1>3. CASE RescheduleIpi(c)
    BY Zenon, <1>1, <1>3, ReturnControlStep, ScheduleStep DEF RescheduleIpi
<1>4. CASE IpiLost(c)
    BY Zenon, <1>4, IpiStep
<1>5. CASE Yield(c)
    BY Zenon, <1>1, <1>5, ScheduleStep DEF Yield
<1>6. CASE Reschedule(c)
    BY Zenon, <1>1, <1>6, ScheduleStep DEF Reschedule
<1>7. CASE ReturnControl(c)
    BY Zenon, <1>1, <1>7, ReturnControlStep DEF ReturnControl
<1>8. CASE BadUserFrame(c)
    BY Zenon, <1>8, BadFrameStep
<1>9. CASE SwitchStack(c)
    BY Zenon, <1>9, SwitchStackStep
<1>10. CASE StoreOwner(c)
    BY Zenon, <1>10, StoreOwnerStep
<1>11. CASE Nmi(c)
    BY Zenon, <1>11, StutterStep DEF Nmi
<1> QED BY Zenon, <1>2, <1>3, <1>4, <1>5, <1>6, <1>7, <1>8, <1>9, <1>10, <1>11
        DEF InterruptPath

\* every call of kernel code,
LEMMA KernelStep ==
    ASSUME IInv, NEW c \in CPUS, NEW t \in Tasks, KernelCall(c, t)
    PROVE  IInv'
<1>1. ASSUME NEW m \in Mutexes, k_mutex_lock(c, t, m) PROVE IInv'
  <2>1. CASE Acquire(t, m) /\ UNCHANGED count
      BY Zenon, <1>1, <2>1, AcquireStep DEF k_mutex_lock
  <2>2. CASE WouldDeadlock(t, m) /\ UNCHANGED count
      BY Zenon, <1>1, <2>2, LeaveLoopStep DEF k_mutex_lock, WouldDeadlock, lockVars
  <2>3. CASE owner[m] # 0 /\ BlockOn(t, m)
      BY Zenon, <1>1, <2>3, BlockStep, ConstantsAssumption DEF k_mutex_lock
  <2> QED BY Zenon, <1>1, <2>1, <2>2, <2>3 DEF k_mutex_lock
<1>2. ASSUME NEW m \in Mutexes, k_mutex_trylock(c, t, m) PROVE IInv'
    BY Zenon, <1>2, AcquireStep DEF k_mutex_trylock
<1>3. ASSUME NEW m \in Mutexes, k_mutex_unlock(c, t, m) PROVE IInv'
    BY Zenon, <1>3, UnlockStep
<1>4. ASSUME NEW s \in Semaphores, k_sem_wait(c, t, s) PROVE IInv'
  <2>1. CASE /\ count[s] > 0
             /\ count' = [count EXCEPT ![s] = @ - 1]
             /\ loop' = [loop EXCEPT ![t] = Nothing]
             /\ UNCHANGED <<state, wait_object, yielding, owner, held>>
      BY Zenon, <1>4, <2>1, SemTakeStep DEF k_sem_wait
  <2>2. CASE loop' = [loop EXCEPT ![t] = Nothing] /\ UNCHANGED <<state, wait_object, yielding, lockVars, held>>
      BY Zenon, <1>4, <2>2, LeaveLoopStep DEF k_sem_wait
  <2>3. CASE count[s] = 0 /\ BlockOn(t, s)
      BY Zenon, <1>4, <2>3, BlockStep, ConstantsAssumption DEF k_sem_wait
  <2> QED BY Zenon, <1>4, <2>1, <2>2, <2>3 DEF k_sem_wait
<1>5. ASSUME NEW s \in Semaphores, k_sem_post(c, t, s) PROVE IInv'
    BY Zenon, <1>5, PostStep
<1>6. CASE k_sleep(c, t) \/ k_yield(c, t) \/ k_task_exit(c, t) \/ SyscallReturn(c, t)
    BY Zenon, <1>6, SleepStep, YieldStep, ExitStep, SyscallReturnStep
<1>7. CASE k_preempt_disable(c, t) \/ k_preempt_enable(c, t)
  <2>1. preempt_depth[t] \in Nat
      BY Zenon DEF IInv, TypeOK
  <2> QED BY <1>7, <2>1, DepthStep DEF k_preempt_disable, k_preempt_enable
<1>8. ASSUME NEW u \in Tasks, NEW d \in CPUS, NEW user \in BOOLEAN,
             Create(c, t, u, d, user)
      PROVE  IInv'
    BY Zenon, <1>8, CreateStep DEF Create
<1>9. ASSUME NEW u \in Tasks, k_task_reap(c, t, u) \/ process_destroy(c, t, u)
      PROVE  IInv'
  <2>1. state[u] = "ZOMBIE" /\ OffCpu(u) /\ free_task(u)
      BY Zenon, <1>9 DEF k_task_reap, process_destroy, IInv, ProcessStateAgrees
  <2> QED BY Zenon, <2>1, FreeStep
<1>10. ASSUME NEW u \in Tasks, NEW op \in {"KILL", "STOP", "CONTINUE"},
              process_control(c, t, u, op)
       PROVE  IInv'
    BY Zenon, <1>10, ControlStep
<1> QED BY Zenon, <1>1, <1>2, <1>3, <1>4, <1>5, <1>6, <1>7, <1>8, <1>9, <1>10 DEF KernelCall

\* and hence every step of Next.
LEMMA NextInv == IInv /\ [Next]_vars => IInv'
<1> SUFFICES ASSUME IInv, [Next]_vars PROVE IInv'
    BY Zenon
<1>1. CASE UNCHANGED vars
    BY Zenon, <1>1, StutterStep
<1>2. ASSUME NEW c \in CPUS, InterruptPath(c) PROVE IInv'
    BY Zenon, <1>2, InterruptStep
<1>3. ASSUME NEW c \in CPUS, NEW t \in Tasks, KernelCall(c, t) PROVE IInv'
    BY Zenon, <1>3, KernelStep
<1>4. ASSUME NEW c \in CPUS, NEW t \in Tasks, Syscall(c, t) PROVE IInv'
  <2>1. CASE ControlDue(c) /\ process_return_control(c) /\ UNCHANGED ipi
      BY Zenon, <1>4, <2>1, ReturnControlStep DEF Syscall, InUser, IInv, TypeOK
  <2> QED BY Zenon, <1>4, <2>1, SyscallStep DEF Syscall
<1>5. ASSUME NEW c \in CPUS, NEW t \in Tasks, UserFault(c, t) PROVE IInv'
  <2>1. CASE ControlDue(c) /\ process_return_control(c) /\ UNCHANGED ipi
      BY Zenon, <1>5, <2>1, ReturnControlStep DEF UserFault, InUser, IInv, TypeOK
  <2> QED BY Zenon, <1>5, <2>1, FaultStep DEF UserFault
<1>6. \A c \in CPUS : current[c] \in Tasks
    BY Zenon DEF IInv, TypeOK
<1> QED BY Zenon, <1>1, <1>2, <1>3, <1>4, <1>5, <1>6 DEF Next

\* k_scheduler_init establishes the invariant.
LEMMA InitInv == Init => IInv
<1> SUFFICES ASSUME Init PROVE IInv
    BY Zenon
<1>1. /\ Cardinality(Idles) \in Nat /\ MAX_ID \in Nat /\ MAX_ID > Cardinality(Idles) + 1
      /\ \A c \in CPUS : IDLE[c] \in Tasks /\ IDLE[c] \in Idles
      /\ BOOT \in Tasks /\ BOOT \notin Idles /\ BOOT_CPU \in CPUS
    BY Zenon, ConstantsAssumption DEF Idles
<1>2. ASSUME NEW c \in CPUS PROVE (CHOOSE d \in CPUS : IDLE[d] = IDLE[c]) = c
    BY Zenon, ConstantsAssumption
<1>3. ASSUME NEW t \in Idles PROVE (CHOOSE d \in CPUS : IDLE[d] = t) \in CPUS
    BY Zenon, <1>2 DEF Idles
<1>4. \A c \in CPUS : cpu[IDLE[c]] = c
    BY Zenon, <1>1, <1>2 DEF Init
<1>5. cpu \in [Tasks -> CPUS] /\ current \in [CPUS -> Tasks]
    BY ZenonT(40), <1>1, <1>3 DEF Init
<1>6. TypeOK
  <2>1. id \in [Tasks -> 0 .. MAX_ID] /\ next_task_id \in 0 .. MAX_ID
    <3>1. \A t \in Tasks : id[t] \in 0 .. MAX_ID
        BY <1>1 DEF Init
    <3> QED BY <3>1, <1>1 DEF Init
  <2>2. state \in [Tasks -> States]
      BY Zenon DEF Init, States
  <2>3. owner \in [Mutexes -> 0 .. MAX_ID] /\ count \in [Semaphores -> 0 .. SEM_MAX]
      BY Bounds DEF Init
  <2> QED BY Zenon, <2>1, <2>2, <2>3, <1>5 DEF Init, TypeOK
<1>7. CpuInv
  <2>1. \A c \in CPUS : state[current[c]] = "RUNNING" /\ cpu[current[c]] = c
    <3> SUFFICES ASSUME NEW c \in CPUS
                 PROVE  state[current[c]] = "RUNNING" /\ cpu[current[c]] = c
        BY Zenon
    <3>1. CASE c = BOOT_CPU
        BY Zenon, <3>1, <1>1 DEF Init
    <3>2. CASE c # BOOT_CPU
        BY <3>2, <1>1, <1>4, ConstantsAssumption DEF Init
    <3> QED BY Zenon, <3>1, <3>2
  <2>2. stack_owner = current /\ rsp = current /\ \A c \in CPUS : at[c] = "task"
      BY Zenon DEF Init
  <2> QED BY Zenon, <2>1, <2>2 DEF CpuInv
<1>8. TaskInv
    BY Zenon, <1>1, <1>4 DEF Init, TaskInv
<1>9. RunningIsCurrent
  <2> SUFFICES ASSUME NEW t \in Tasks, state[t] = "RUNNING"
               PROVE  current[cpu[t]] = t
      BY Zenon DEF RunningIsCurrent
  <2>1. CASE t = BOOT
      BY Zenon, <2>1, <1>1 DEF Init
  <2>2. CASE t # BOOT
    <3>1. t \in Idles /\ t # IDLE[BOOT_CPU]
        BY Zenon, <2>2 DEF Init
    <3>2. PICK c \in CPUS : IDLE[c] = t
        BY Zenon, <3>1 DEF Idles
    <3> QED BY Zenon, <3>1, <3>2, <1>4 DEF Init
  <2> QED BY Zenon, <2>1, <2>2
<1>10. NoLostWakeup /\ ProcessStateAgrees
    BY Zenon DEF Init, NoLostWakeup, ProcessStateAgrees
<1>11. IdleSeesWork
  <2>1. \A t \in Tasks \ Idles : state[t] \in {"RUNNING", "UNUSED"}
      BY Zenon, <1>1 DEF Init
  <2> QED BY Zenon, <2>1 DEF IdleSeesWork
<1>12. MutualExclusion
    BY Zenon DEF Init, MutualExclusion
<1>13. IdInv
  <2>1. ASSUME NEW t \in Tasks
        PROVE  (id[t] = 0 <=> state[t] = "UNUSED") /\ id[t] < next_task_id
      BY <1>1 DEF Init
  <2>2. \A t, u \in Tasks : t # u /\ id[t] = id[u] => id[t] = 0
      BY Zenon DEF Init
  <2>3. \A m \in Mutexes : owner[m] = 0
      BY Zenon DEF Init
  <2> QED BY Zenon, <2>1, <2>2, <2>3 DEF IdInv
<1> QED BY Zenon, <1>6, <1>7, <1>8, <1>9, <1>10, <1>11, <1>12, <1>13 DEF IInv

\* The scheduler's state is consistent after every critical section.
THEOREM Invariance == Spec => []IInv
BY InitInv, NextInv, PTL DEF Spec

\* Reaping and process_destroy_locked never free a stack that a CPU still
\* uses, between kernel_schedule and entry.S included.
THEOREM StacksStayAllocated == Spec => []StackInUseIsAllocated
<1>1. IInv => StackInUseIsAllocated
    BY DEF IInv, TypeOK, CpuInv, StackInUseIsAllocated
<1> QED BY <1>1, Invariance, PTL

\* k_mutex_unlock and k_sem_post miss no task that has published BLOCKED.
THEOREM WakeupsAreNotLost == Spec => []NoLostWakeup
<1>1. IInv => NoLostWakeup
    BY Zenon DEF IInv
<1> QED BY <1>1, Invariance, PTL

\* The idle fast path of kernel_schedule never hides a waiting task.
THEOREM IdleCpusSeeWork == Spec => []IdleSeesWork
<1>1. IInv => IdleSeesWork
    BY Zenon DEF IInv
<1> QED BY <1>1, Invariance, PTL

\* k_mutex is a mutual exclusion lock, although task slots are reused.
THEOREM MutexesExclude == Spec => []MutualExclusion
<1>1. IInv => MutualExclusion
    BY Zenon DEF IInv
<1> QED BY <1>1, Invariance, PTL

\* No control request strands a kernel mutex with a dead or stopped owner.
THEOREM OwnersMakeProgress == Spec => []OwnerMakesProgress
<1>1. ASSUME IInv PROVE OwnerMakesProgress
  <2> SUFFICES ASSUME NEW m \in Mutexes, owner[m] # 0
               PROVE  \E t \in Tasks : /\ id[t] = owner[m]
                                       /\ state[t] \notin {"UNUSED", "ZOMBIE", "STOPPED"}
      BY Zenon DEF OwnerMakesProgress
  <2>1. PICK t \in Tasks : m \in held[t]
      BY Zenon, <1>1 DEF IInv, IdInv
  <2> QED BY <1>1, <2>1 DEF IInv, TaskInv, MutualExclusion
<1> QED BY <1>1, Invariance, PTL

-----------------------------------------------------------------------------
(* Action properties *)

\* What a step may do to task t.
Lawful(t) ==
    /\ state[t] = "ZOMBIE" => state'[t] \in {"ZOMBIE", "UNUSED"}
    /\ control_request[t] = "KILL" =>
           control_request'[t] = "KILL" \/ state'[t] \in {"ZOMBIE", "UNUSED"}

\* A task that applies a control request is RUNNING.
LEMMA ReturnControlLawful ==
    ASSUME IInv, NEW c \in CPUS, ControlDue(c), at[c] \in {"task", "return"},
           process_return_control(c), NEW t \in Tasks
    PROVE  Lawful(t)
<1>1. current[c] \in Tasks /\ state[current[c]] = "RUNNING"
    BY ZenonT(40) DEF IInv, TypeOK, CpuInv, TaskInv, ControlDue
<1> QED BY Zenon, <1>1 DEF IInv, TypeOK, process_return_control, ControlledState, Lawful

\* kernel_schedule picks READY tasks and readies sleeping or running ones.
LEMMA ScheduleLawful ==
    ASSUME IInv, NEW c \in CPUS, NEW forced \in BOOLEAN, Interrupted(c, forced),
           NEW t \in Tasks
    PROVE  Lawful(t)
<1>1. PICK due \in SUBSET Sleepers(c) :
          \/ Keep(c, due)
          \/ \E best \in Best(c, due) : PickNext(c, due, best)
    BY Zenon DEF Interrupted, kernel_schedule
<1>2. t \in due => state[t] = "SLEEPING"
    BY Zenon DEF Sleepers
<1>3. UNCHANGED control_request
    BY Zenon DEF Interrupted
<1>4. CASE Keep(c, due)
    BY Zenon, <1>2, <1>3, <1>4 DEF Keep, Readied, Lawful
<1>5. ASSUME NEW best \in Best(c, due), PickNext(c, due, best) PROVE Lawful(t)
  <2>1. Queued(c, due)[best] = "READY" /\ best \in Tasks
      BY BestIsReady
  <2>2. state[best] # "ZOMBIE"
      BY Zenon, <2>1 DEF Queued, Sleepers
  <2> QED BY Zenon, <1>2, <1>3, <1>5, <2>2 DEF PickNext, Queued, Lawful
<1> QED BY Zenon, <1>1, <1>4, <1>5

\* The steps of the interrupt path.
LEMMA InterruptLawful ==
    ASSUME IInv, NEW c \in CPUS, InterruptPath(c), NEW t \in Tasks
    PROVE  Lawful(t)
<1>1. CASE TimerTick(c)
  <2>1. CASE ControlDue(c) /\ process_return_control(c)
      BY Zenon, <1>1, <2>1, ReturnControlLawful DEF TimerTick
  <2>2. CASE IdleFastPath(c)
      BY Zenon, <2>2 DEF IdleFastPath, taskVars, Lawful
  <2>3. CASE Interrupted(c, FALSE)
      BY Zenon, <2>3, ScheduleLawful
  <2> QED BY Zenon, <1>1, <2>1, <2>2, <2>3 DEF TimerTick
<1>2. CASE RescheduleIpi(c)
    BY Zenon, <1>2, ReturnControlLawful, ScheduleLawful DEF RescheduleIpi
<1>3. CASE Yield(c) \/ Reschedule(c)
    BY Zenon, <1>3, ScheduleLawful DEF Yield, Reschedule
<1>4. CASE ReturnControl(c)
    BY Zenon, <1>4, ReturnControlLawful DEF ReturnControl
<1>5. CASE BadUserFrame(c)
    BY Zenon, <1>5 DEF IInv, TypeOK, BadUserFrame, Die, Lawful
<1>6. CASE IpiLost(c) \/ SwitchStack(c) \/ StoreOwner(c) \/ Nmi(c)
    BY Zenon, <1>6 DEF IpiLost, SwitchStack, StoreOwner, Nmi, vars, taskVars, Lawful
<1> QED BY Zenon, <1>1, <1>2, <1>3, <1>4, <1>5, <1>6 DEF InterruptPath

\* The steps of kernel code: a task that gives up the CPU is RUNNING, and only
\* BLOCKED, STOPPED or SLEEPING tasks are woken.
LEMMA KernelLawful ==
    ASSUME IInv, NEW c \in CPUS, NEW u \in Tasks, KernelCall(c, u), NEW t \in Tasks
    PROVE  Lawful(t)
<1>1. Executes(c, u) => state[u] = "RUNNING"
    BY Zenon DEF IInv, CpuInv, Executes
<1>2. ASSUME NEW m \in Mutexes, k_mutex_lock(c, u, m) \/ k_mutex_trylock(c, u, m)
      PROVE  Lawful(t)
    BY Zenon, <1>1, <1>2 DEF IInv, TypeOK, k_mutex_lock, k_mutex_trylock, Acquire,
                      WouldDeadlock, BlockOn, PublishAndYield, Lawful
<1>3. ASSUME NEW m \in Mutexes, k_mutex_unlock(c, u, m) PROVE Lawful(t)
    BY Zenon, <1>3 DEF k_mutex_unlock, wake_object, task_ready, Readied, Waiters, Lawful
<1>4. ASSUME NEW s \in Semaphores, k_sem_wait(c, u, s) PROVE Lawful(t)
    BY SMTT(30), <1>1, <1>4 DEF IInv, TypeOK, k_sem_wait, BlockOn, PublishAndYield, Lawful
<1>5. ASSUME NEW s \in Semaphores, k_sem_post(c, u, s) PROVE Lawful(t)
    BY Zenon, <1>5 DEF k_sem_post, wake_object, task_ready, Readied, Waiters, Lawful
<1>6. CASE k_sleep(c, u) \/ k_yield(c, u) \/ k_task_exit(c, u) \/ SyscallReturn(c, u)
    BY SMTT(60), <1>1, <1>6 DEF IInv, TypeOK, k_sleep, k_yield, k_task_exit, SyscallReturn,
                      PublishAndYield, Die, Lawful
<1>7. CASE k_preempt_disable(c, u) \/ k_preempt_enable(c, u)
    BY Zenon, <1>7 DEF k_preempt_disable, k_preempt_enable, SetDepth, Lawful
<1>8. ASSUME NEW v \in Tasks, NEW d \in CPUS, NEW user \in BOOLEAN,
             Create(c, u, v, d, user)
      PROVE  Lawful(t)
    BY Zenon, <1>8 DEF IInv, TypeOK, Create, new_task, Lawful
<1>9. ASSUME NEW v \in Tasks, k_task_reap(c, u, v) \/ process_destroy(c, u, v)
      PROVE  Lawful(t)
    BY <1>9 DEF IInv, TypeOK, k_task_reap, process_destroy, free_task, Lawful
<1>10. ASSUME NEW v \in Tasks, NEW op \in {"KILL", "STOP", "CONTINUE"},
              process_control(c, u, v, op)
       PROVE  Lawful(t)
    BY Zenon, <1>10 DEF IInv, TypeOK, process_control, Requested, Readied, Lawful
<1> QED BY Zenon, <1>2, <1>3, <1>4, <1>5, <1>6, <1>7, <1>8, <1>9, <1>10 DEF KernelCall

\* Every step changes the states of tasks lawfully.
LEMMA NextLawful ==
    ASSUME IInv, [Next]_vars, NEW t \in Tasks
    PROVE  Lawful(t)
<1>1. CASE UNCHANGED vars
    BY Zenon, <1>1 DEF vars, taskVars, Lawful
<1>2. ASSUME NEW c \in CPUS, InterruptPath(c) PROVE Lawful(t)
    BY Zenon, <1>2, InterruptLawful
<1>3. ASSUME NEW c \in CPUS, NEW u \in Tasks, KernelCall(c, u) PROVE Lawful(t)
    BY Zenon, <1>3, KernelLawful
<1>4. ASSUME NEW c \in CPUS, NEW u \in Tasks, Syscall(c, u) \/ UserFault(c, u)
      PROVE  Lawful(t)
  <2>1. CASE ControlDue(c) /\ process_return_control(c)
      BY Zenon, <1>4, <2>1, ReturnControlLawful DEF Syscall, UserFault, InUser
  <2>2. CASE ~ControlDue(c)
      BY <1>4, <2>2 DEF IInv, TypeOK, Syscall, UserFault, Die, Lawful
  <2> QED BY Zenon, <1>4, <2>1, <2>2 DEF Syscall, UserFault
<1>5. \A c \in CPUS : current[c] \in Tasks
    BY Zenon DEF IInv, TypeOK
<1> QED BY Zenon, <1>1, <1>2, <1>3, <1>4, <1>5 DEF Next

\* process_destroy and k_task_reap agree on who is dead, whichever of them
\* comes first: the process and its task change state together.
THEOREM DeathIsAgreed == Spec => []ProcessStateAgrees
<1>1. IInv => ProcessStateAgrees
    BY Zenon DEF IInv
<1> QED BY <1>1, Invariance, PTL

\* "zombie resumed" is unreachable: no scheduling or wakeup path revives a
\* zombie.
THEOREM ZombiesStayDead == Spec => ZombieNeverRuns
<1>1. IInv /\ [Next]_vars =>
          [\A t \in Tasks : state[t] = "ZOMBIE" => state'[t] \in {"ZOMBIE", "UNUSED"}]_vars
    BY Zenon, NextLawful DEF Lawful
<1> QED BY <1>1, Invariance, PTL DEF Spec, ZombieNeverRuns

\* Neither STOP nor CONTINUE takes back a KILL.
THEOREM KillsAreFinal == Spec => KillIsSticky
<1>1. IInv /\ [Next]_vars =>
          [\A t \in Tasks : control_request[t] = "KILL" =>
               control_request'[t] = "KILL" \/ state'[t] \in {"ZOMBIE", "UNUSED"}]_vars
    BY Zenon, NextLawful DEF Lawful
<1> QED BY <1>1, Invariance, PTL DEF Spec, KillIsSticky
=============================================================================
