----------------------------- MODULE Scheduler -----------------------------
(***************************************************************************)
(* Tasks, CPUs, sleeping locks and process control requests: the scheduler *)
(* of kernel/kernel.c, the interrupt path of arch/x86_64/cpu.c and         *)
(* entry.S, and the control requests of kernel/process.c.                  *)
(*                                                                         *)
(* A critical section under sched_lock is one step.  Between two of them   *)
(* every other CPU may act: a task that has published BLOCKED, SLEEPING or *)
(* ZOMBIE still runs until its reschedule interrupt, and a CPU that has    *)
(* picked another task still runs on the old task's stack until entry.S    *)
(* has loaded the new stack pointer.                                       *)
(*                                                                         *)
(* Which READY task of a CPU is picked is left open; so are the clock (any *)
(* SLEEPING task may be due) and the length of a slice.                    *)
(***************************************************************************)
EXTENDS Naturals, FiniteSets

CONSTANTS CPUS, Tasks,      \* Tasks: the slots of tasks[]
          IDLE,             \* IDLE[c]: the idle task of CPU c
          BOOT,             \* the boot task, id 1
          BOOT_CPU,
          Mutexes, Semaphores,
          Nothing,          \* a NULL wait_object, and "in no wait loop"
          MAX_ID,           \* 0xffffffff: the last id before next_task_id is 0
          SEM_MAX,          \* 0xffffffff: where k_sem_post saturates
          MAX_DEPTH         \* bound on nested k_preempt_disable calls

Idles == {IDLE[c] : c \in CPUS}

States == {"UNUSED", "READY", "RUNNING", "SLEEPING", "BLOCKED", "ZOMBIE", "STOPPED"}

VARIABLES
    \* struct task
    state, id, cpu, wait_object, preempt_depth, control_request,
    pstate,         \* t->process->state, or "none" for a kernel thread
    mode,           \* mode[t]: "user" if t's frame is a user frame, else "kernel"
    yielding,       \* yielding[t]: t has still to execute its reschedule interrupt
    loop,           \* loop[t]: the object whose wait loop t is in
    held,           \* held[t]: the mutexes t has locked and not unlocked
    \* struct cpu_state
    current, stack_owner, work_pending,
    rsp,            \* rsp[c]: the task on whose stack c really runs
    at,             \* at[c]: where c is between an interrupt and its iretq
    ipi,            \* ipi[c]: a reschedule IPI is on its way to c
    \* globals
    next_task_id, owner, count

taskVars == <<state, id, cpu, wait_object, preempt_depth, control_request,
              pstate, mode, yielding, loop, held>>
cpuVars == <<current, stack_owner, work_pending, rsp, at, ipi>>
lockVars == <<owner, count>>
vars == <<taskVars, cpuVars, next_task_id, lockVars>>

ASSUME ConstantsAssumption ==
    /\ MAX_ID \in Nat /\ MAX_ID > Cardinality(Idles) + 1
    /\ Cardinality(Idles) \in Nat
    /\ SEM_MAX \in Nat \ {0} /\ MAX_DEPTH \in Nat
    /\ IDLE \in [CPUS -> Tasks]
    /\ \A c, d \in CPUS : c # d => IDLE[c] # IDLE[d]
    /\ BOOT \in Tasks \ Idles /\ BOOT_CPU \in CPUS
    /\ Mutexes \intersect Semaphores = {}
    /\ Nothing \notin Mutexes \union Semaphores

-----------------------------------------------------------------------------
(* k_scheduler_init on the boot CPU, and ap_main on the others.            *)

\* Ids 1 .. |CPUS|+1 go to the boot task, its CPU's idle task and the others.
Init ==
    /\ state = [t \in Tasks |->
                   IF t = BOOT THEN "RUNNING"
                   ELSE IF t = IDLE[BOOT_CPU] THEN "READY"
                   ELSE IF t \in Idles THEN "RUNNING" ELSE "UNUSED"]
    /\ id \in [Tasks -> 0 .. Cardinality(Idles) + 1]
    /\ id[BOOT] = 1 /\ id[IDLE[BOOT_CPU]] = 2
    /\ \A t \in Tasks : (id[t] = 0) <=> (t \notin Idles \union {BOOT})
    /\ \A t, u \in Tasks : t # u /\ id[t] # 0 => id[t] # id[u]
    /\ next_task_id = Cardinality(Idles) + 2
    /\ cpu = [t \in Tasks |->
                 IF t \in Idles THEN CHOOSE c \in CPUS : IDLE[c] = t ELSE BOOT_CPU]
    /\ wait_object = [t \in Tasks |-> Nothing]
    /\ preempt_depth = [t \in Tasks |-> 0]
    /\ control_request = [t \in Tasks |-> "none"]
    /\ pstate = [t \in Tasks |-> "none"]
    /\ mode = [t \in Tasks |-> "kernel"]
    /\ yielding = [t \in Tasks |-> FALSE]
    /\ loop = [t \in Tasks |-> Nothing]
    /\ held = [t \in Tasks |-> {}]
    /\ current = [c \in CPUS |-> IF c = BOOT_CPU THEN BOOT ELSE IDLE[c]]
    /\ stack_owner = current
    /\ rsp = current
    /\ work_pending = [c \in CPUS |-> FALSE]
    /\ at = [c \in CPUS |-> "task"]
    /\ ipi = [c \in CPUS |-> FALSE]
    /\ owner = [m \in Mutexes |-> 0]
    /\ count = [s \in Semaphores |-> 0]

-----------------------------------------------------------------------------
(* task_ready for every task of a set, called on CPU c *)

CpusOf(woken) == {cpu[t] : t \in woken}

Readied(woken) == [t \in Tasks |-> IF t \in woken THEN "READY" ELSE state[t]]

Forgotten(woken) == [t \in Tasks |-> IF t \in woken THEN Nothing ELSE wait_object[t]]

Published(woken) == [d \in CPUS |-> work_pending[d] \/ d \in CpusOf(woken)]

\* x86_64_wake_cpu sends no IPI to the CPU it runs on.
task_ready(c, woken) ==
    /\ state' = Readied(woken)
    /\ wait_object' = Forgotten(woken)
    /\ work_pending' = Published(woken)
    /\ ipi' = [d \in CPUS |-> ipi[d] \/ d \in CpusOf(woken) \ {c}]

-----------------------------------------------------------------------------
(* kernel_schedule on CPU c.  due are the sleepers whose time has come.    *)

Sleepers(c) == {t \in Tasks : cpu[t] = c /\ state[t] = "SLEEPING"}

\* The running task keeps the CPU: it has disabled preemption, or this is a
\* timer tick and its slice is not used up.
MayKeep(c, forced) ==
    /\ state[current[c]] = "RUNNING"
    /\ preempt_depth[current[c]] > 0 \/ (~forced /\ current[c] \notin Idles)

MustKeep(c) ==
    state[current[c]] = "RUNNING" /\ preempt_depth[current[c]] > 0

Keep(c, due) ==
    /\ state' = Readied(due)
    /\ wait_object' = Forgotten(due)
    /\ work_pending' = Published(due)
    /\ UNCHANGED <<pstate, current>>

\* Mutant: an old task without a process is queued although it has published
\* another state.
Queued_KernelTask(c, due) ==
    [t \in Tasks |->
        IF t \in due \/ (t = current[c] /\ (state[t] = "RUNNING" \/ pstate[t] = "none"))
        THEN "READY" ELSE state[t]]

\* The states once the sleepers are awake and the old task gave up the CPU.
Queued(c, due) ==
    [t \in Tasks |->
        IF t \in due \/ (t = current[c] /\ state[t] = "RUNNING")
        THEN "READY" ELSE state[t]]

Runnable(c, due) ==
    {t \in Tasks \ Idles : cpu[t] = c /\ Queued(c, due)[t] = "READY"}

Best(c, due) ==
    IF Runnable(c, due) = {} THEN {IDLE[c]} ELSE Runnable(c, due)

\* Mutant: the remaining sleepers are forgotten.
MoreWork_NoSleepers(c, due, best) == best \notin Idles

\* Whether a tick on this CPU has to look at the tasks again.
MoreWork(c, due, best) == best \notin Idles \/ Sleepers(c) \ due # {}

PickNext(c, due, best) ==
    /\ state' = [Queued(c, due) EXCEPT ![best] = "RUNNING"]
    /\ pstate' = [t \in Tasks |->
                     IF pstate[t] = "none" THEN "none"
                     ELSE IF t = best THEN "RUNNING"
                     ELSE IF t = current[c] /\ state[t] = "RUNNING" THEN "READY"
                     ELSE pstate[t]]
    /\ wait_object' = Forgotten(due)
    /\ work_pending' = [work_pending EXCEPT ![c] = MoreWork(c, due, best)]
    /\ current' = [current EXCEPT ![c] = best]

kernel_schedule(c, forced) ==
    \E due \in SUBSET Sleepers(c) :
        \/ MayKeep(c, forced) /\ Keep(c, due)
        \/ ~MustKeep(c) /\ \E best \in Best(c, due) : PickNext(c, due, best)

-----------------------------------------------------------------------------
(* process_return_control: the request takes effect where the task would   *)
(* go back to user mode, and nowhere else.                                 *)

\* Mutant: requests are applied wherever the task is interrupted.
ControlDue_Anywhere(c) == control_request[current[c]] # "none"

ControlDue(c) ==
    /\ mode[current[c]] = "user"
    /\ control_request[current[c]] # "none"

ControlledState(t) == IF control_request[t] = "KILL" THEN "ZOMBIE" ELSE "STOPPED"

process_return_control(c) ==
    LET t == current[c] IN
    /\ state' = [state EXCEPT ![t] = ControlledState(t)]
    /\ pstate' = [pstate EXCEPT ![t] = ControlledState(t)]
    /\ control_request' = [control_request EXCEPT ![t] = "none"]
    /\ preempt_depth' = [preempt_depth EXCEPT ![t] = 0]
    /\ at' = [at EXCEPT ![c] = "resched"]
    /\ UNCHANGED <<id, cpu, wait_object, mode, yielding, loop, held,
                   current, stack_owner, work_pending, rsp, next_task_id, lockVars>>

-----------------------------------------------------------------------------
(* Interrupts.  at[c] is "task" while c runs its current task, "resched"   *)
(* when a handler is about to call kernel_schedule, "return" when the      *)
(* handler has the frame to return to, and "owner" when entry.S has loaded *)
(* that frame's stack pointer but not stored stack_owner yet.              *)

Goto(c, place) == at' = [at EXCEPT ![c] = place]

Interrupted(c, forced) ==
    /\ kernel_schedule(c, forced)
    /\ Goto(c, "return")
    /\ UNCHANGED <<id, cpu, preempt_depth, control_request, mode, loop, held,
                   stack_owner, rsp, next_task_id, lockVars>>

\* An idle CPU does not take sched_lock on a tick unless work is published.
IdleFastPath(c) ==
    /\ current[c] \in Idles /\ ~work_pending[c]
    /\ Goto(c, "return")
    /\ UNCHANGED <<taskVars, current, stack_owner, work_pending, rsp,
                   next_task_id, lockVars>>

TimerTick(c) ==
    /\ at[c] = "task"
    /\ \/ ControlDue(c) /\ process_return_control(c)
       \/ ~ControlDue(c) /\ IdleFastPath(c)
       \/ /\ ~ControlDue(c)
          /\ current[c] \in Idles => work_pending[c]
          /\ Interrupted(c, FALSE)
          /\ UNCHANGED yielding
    /\ UNCHANGED ipi

\* The reschedule IPI, vector 0xf1.
RescheduleIpi(c) ==
    /\ at[c] = "task"
    /\ ipi[c]
    /\ ipi' = [ipi EXCEPT ![c] = FALSE]
    /\ \/ ControlDue(c) /\ process_return_control(c)
       \/ ~ControlDue(c) /\ Interrupted(c, TRUE) /\ UNCHANGED yielding

\* Any IPI may be lost: task_ready ignores the error of send_ipi.
IpiLost(c) ==
    /\ ipi[c]
    /\ ipi' = [ipi EXCEPT ![c] = FALSE]
    /\ UNCHANGED <<taskVars, current, stack_owner, work_pending, rsp, at,
                   next_task_id, lockVars>>

\* k_yield: interrupt 129.
Yield(c) ==
    /\ at[c] = "task"
    /\ yielding[current[c]]
    /\ yielding' = [yielding EXCEPT ![current[c]] = FALSE]
    /\ Interrupted(c, TRUE)
    /\ UNCHANGED ipi

\* The second half of a handler that has changed the task's state.
Reschedule(c) ==
    /\ at[c] = "resched"
    /\ Interrupted(c, TRUE)
    /\ UNCHANGED <<yielding, ipi>>

\* x86_64_irq_dispatch looks at the frame it is about to return to.
ReturnControl(c) ==
    /\ at[c] = "return"
    /\ ControlDue(c)
    /\ process_return_control(c)
    /\ UNCHANGED ipi

\* Mutant: the process's copy of the state is not written.
Die_TaskOnly(t) ==
    /\ state' = [state EXCEPT ![t] = "ZOMBIE"]
    /\ UNCHANGED pstate

Die(t) ==
    /\ state' = [state EXCEPT ![t] = "ZOMBIE"]
    /\ pstate' = [pstate EXCEPT ![t] = IF @ = "none" THEN "none" ELSE "ZOMBIE"]

\* A user frame that iretq would not accept ends the process.
BadUserFrame(c) ==
    LET t == current[c] IN
    /\ at[c] = "return"
    /\ mode[t] = "user" /\ ~ControlDue(c)
    /\ Die(t)
    /\ preempt_depth' = [preempt_depth EXCEPT ![t] = 0]
    /\ Goto(c, "resched")
    /\ UNCHANGED <<id, cpu, wait_object, control_request, mode, yielding, loop,
                   held, current, stack_owner, work_pending, rsp, ipi,
                   next_task_id, lockVars>>

\* movq %rax,%rsp
SwitchStack(c) ==
    /\ at[c] = "return"
    /\ ~ControlDue(c)
    /\ rsp' = [rsp EXCEPT ![c] = current[c]]
    /\ Goto(c, "owner")
    /\ UNCHANGED <<taskVars, current, stack_owner, work_pending, ipi,
                   next_task_id, lockVars>>

\* movq %gs:24,%rax; movq %rax,%gs:16
StoreOwner(c) ==
    /\ at[c] = "owner"
    /\ stack_owner' = [stack_owner EXCEPT ![c] = current[c]]
    /\ Goto(c, "task")
    /\ UNCHANGED <<taskVars, current, work_pending, rsp, ipi, next_task_id, lockVars>>

\* A non-maskable interrupt may arrive anywhere; its return skips the store.
Nmi(c) ==
    /\ at[c] # "task"
    /\ UNCHANGED vars

-----------------------------------------------------------------------------
(* What the current task does between interrupts.                          *)

\* Task t is running kernel code on CPU c and is in no wait loop.
Executes(c, t) ==
    /\ at[c] = "task" /\ current[c] = t
    /\ t \notin Idles
    /\ mode[t] = "kernel"
    /\ ~yielding[t]

InLoop(t, object) == loop[t] \in {Nothing, object}

PublishAndYield(t, s) ==
    /\ state' = [state EXCEPT ![t] = s]
    /\ yielding' = [yielding EXCEPT ![t] = TRUE]

\* k_mutex_lock, one turn of its loop.
Acquire(t, m) ==
    /\ owner[m] = 0
    /\ owner' = [owner EXCEPT ![m] = id[t]]
    /\ held' = [held EXCEPT ![t] = @ \union {m}]
    /\ loop' = [loop EXCEPT ![t] = Nothing]
    /\ UNCHANGED <<state, wait_object, yielding>>

WouldDeadlock(t, m) ==
    /\ owner[m] # 0
    /\ owner[m] = id[t] \/ preempt_depth[t] > 0
    /\ loop' = [loop EXCEPT ![t] = Nothing]
    /\ UNCHANGED <<owner, held, state, wait_object, yielding>>

BlockOn(t, object) ==
    /\ wait_object' = [wait_object EXCEPT ![t] = object]
    /\ loop' = [loop EXCEPT ![t] = object]
    /\ PublishAndYield(t, "BLOCKED")
    /\ UNCHANGED <<owner, held, count>>

k_mutex_lock(c, t, m) ==
    /\ Executes(c, t) /\ InLoop(t, m)
    /\ \/ Acquire(t, m) /\ UNCHANGED count
       \/ WouldDeadlock(t, m) /\ UNCHANGED count
       \/ /\ owner[m] # 0 /\ owner[m] # id[t] /\ preempt_depth[t] = 0
          /\ BlockOn(t, m)
    /\ UNCHANGED <<id, cpu, preempt_depth, control_request, pstate, mode,
                   cpuVars, next_task_id>>

k_mutex_trylock(c, t, m) ==
    /\ Executes(c, t) /\ loop[t] = Nothing
    /\ Acquire(t, m)
    /\ UNCHANGED <<id, cpu, preempt_depth, control_request, pstate, mode,
                   cpuVars, next_task_id, count>>

\* Mutant: a task that has not left its CPU yet is not taken for a waiter.
Waiters_Descheduled(object) ==
    {t \in Tasks : /\ state[t] = "BLOCKED" /\ wait_object[t] = object
                   /\ current[cpu[t]] # t}

Waiters(object) == {t \in Tasks : state[t] = "BLOCKED" /\ wait_object[t] = object}

wake_object(c, object) == task_ready(c, Waiters(object))

k_mutex_unlock(c, t, m) ==
    /\ Executes(c, t) /\ loop[t] = Nothing
    /\ owner[m] # 0 /\ owner[m] = id[t]
    /\ owner' = [owner EXCEPT ![m] = 0]
    /\ held' = [held EXCEPT ![t] = @ \ {m}]
    /\ wake_object(c, m)
    /\ UNCHANGED <<id, cpu, preempt_depth, control_request, pstate, mode,
                   yielding, loop, current, stack_owner, rsp, at, next_task_id, count>>

\* k_sem_wait, one turn of its loop; k_sem_trywait is its first branch.
k_sem_wait(c, t, s) ==
    /\ Executes(c, t) /\ InLoop(t, s)
    /\ \/ /\ count[s] > 0
          /\ count' = [count EXCEPT ![s] = @ - 1]
          /\ loop' = [loop EXCEPT ![t] = Nothing]
          /\ UNCHANGED <<state, wait_object, yielding, owner, held>>
       \/ /\ count[s] = 0 /\ preempt_depth[t] > 0
          /\ loop' = [loop EXCEPT ![t] = Nothing]
          /\ UNCHANGED <<state, wait_object, yielding, lockVars, held>>
       \/ /\ count[s] = 0 /\ preempt_depth[t] = 0
          /\ BlockOn(t, s)
    /\ UNCHANGED <<id, cpu, preempt_depth, control_request, pstate, mode,
                   cpuVars, next_task_id>>

Posted(n) == IF n = SEM_MAX THEN n ELSE n + 1

k_sem_post(c, t, s) ==
    /\ Executes(c, t) /\ loop[t] = Nothing
    /\ count' = [count EXCEPT ![s] = Posted(@)]
    /\ wake_object(c, s)
    /\ UNCHANGED <<id, cpu, preempt_depth, control_request, pstate, mode,
                   yielding, loop, held, current, stack_owner, rsp, at,
                   next_task_id, owner>>

-----------------------------------------------------------------------------
(* Sleeping, preemption, creation and death *)

\* k_sleep; with ms = 0 it is k_yield.
k_sleep(c, t) ==
    /\ Executes(c, t) /\ loop[t] = Nothing
    /\ preempt_depth[t] = 0
    /\ PublishAndYield(t, "SLEEPING")
    /\ UNCHANGED <<id, cpu, wait_object, preempt_depth, control_request, pstate,
                   mode, loop, held, cpuVars, next_task_id, lockVars>>

k_yield(c, t) ==
    /\ Executes(c, t) /\ loop[t] = Nothing
    /\ yielding' = [yielding EXCEPT ![t] = TRUE]
    /\ UNCHANGED <<state, id, cpu, wait_object, preempt_depth, control_request,
                   pstate, mode, loop, held, cpuVars, next_task_id, lockVars>>

SetDepth(c, t, depth) ==
    /\ Executes(c, t) /\ loop[t] = Nothing
    /\ preempt_depth' = [preempt_depth EXCEPT ![t] = depth]
    /\ UNCHANGED <<state, id, cpu, wait_object, control_request, pstate, mode,
                   yielding, loop, held, cpuVars, next_task_id, lockVars>>

k_preempt_disable(c, t) ==
    preempt_depth[t] < MAX_DEPTH /\ SetDepth(c, t, preempt_depth[t] + 1)

k_preempt_enable(c, t) ==
    preempt_depth[t] > 0 /\ SetDepth(c, t, preempt_depth[t] - 1)

\* The kernel's threads and system calls end with no mutex held.
k_task_exit(c, t) ==
    /\ Executes(c, t) /\ loop[t] = Nothing
    /\ id[t] # 1
    /\ held[t] = {}
    /\ Die(t)
    /\ yielding' = [yielding EXCEPT ![t] = TRUE]
    /\ preempt_depth' = [preempt_depth EXCEPT ![t] = 0]
    /\ UNCHANGED <<id, cpu, wait_object, control_request, mode, loop, held,
                   cpuVars, next_task_id, lockVars>>

\* Mutants: ids start again at 1; the counter is not checked for its end.
NextId_Reused == IF next_task_id = MAX_ID THEN 1 ELSE next_task_id + 1
\* next_task_id++ of a 32-bit counter.
NextId == IF next_task_id = MAX_ID THEN 0 ELSE next_task_id + 1

\* new_task in slot u for CPU d: k_task_create, or process_start_locked for a
\* task that starts in user mode.
new_task(c, u, d, user) ==
    /\ next_task_id # 0
    /\ state[u] = "UNUSED"
    /\ state' = [state EXCEPT ![u] = "READY"]
    /\ id' = [id EXCEPT ![u] = next_task_id]
    /\ next_task_id' = NextId
    /\ cpu' = [cpu EXCEPT ![u] = d]
    /\ pstate' = [pstate EXCEPT ![u] = IF user THEN "READY" ELSE "none"]
    /\ mode' = [mode EXCEPT ![u] = IF user THEN "user" ELSE "kernel"]
    /\ work_pending' = [work_pending EXCEPT ![d] = TRUE]
    /\ ipi' = [ipi EXCEPT ![d] = @ \/ d # c]
    /\ UNCHANGED <<wait_object, preempt_depth, control_request, yielding, loop,
                   held, current, stack_owner, rsp, at, lockVars>>

Create(c, t, u, d, user) ==
    Executes(c, t) /\ loop[t] = Nothing /\ new_task(c, u, d, user)

\* Mutant: the CPU that is still on u's stack is overlooked.
OffCpu_Current(u) == \A d \in CPUS : current[d] # u

\* Nobody runs u and no CPU is still on its stack.
OffCpu(u) == \A d \in CPUS : current[d] # u /\ stack_owner[d] # u

\* mem_zero of the slot (CPU 0 is the boot CPU); the stack goes back to the page allocator.
free_task(u) ==
    /\ state' = [state EXCEPT ![u] = "UNUSED"]
    /\ id' = [id EXCEPT ![u] = 0]
    /\ wait_object' = [wait_object EXCEPT ![u] = Nothing]
    /\ preempt_depth' = [preempt_depth EXCEPT ![u] = 0]
    /\ control_request' = [control_request EXCEPT ![u] = "none"]
    /\ pstate' = [pstate EXCEPT ![u] = "none"]
    /\ mode' = [mode EXCEPT ![u] = "kernel"]
    /\ yielding' = [yielding EXCEPT ![u] = FALSE]
    /\ loop' = [loop EXCEPT ![u] = Nothing]
    /\ held' = [held EXCEPT ![u] = {}]
    /\ cpu' = [cpu EXCEPT ![u] = BOOT_CPU]
    /\ UNCHANGED <<cpuVars, next_task_id, lockVars>>

k_task_reap(c, t, u) ==
    /\ Executes(c, t) /\ loop[t] = Nothing
    /\ state[u] = "ZOMBIE" /\ pstate[u] = "none"
    /\ OffCpu(u)
    /\ free_task(u)

\* process_destroy_locked goes by the process's own copy of the state.
process_destroy(c, t, u) ==
    /\ Executes(c, t) /\ loop[t] = Nothing
    /\ pstate[u] = "ZOMBIE"
    /\ OffCpu(u)
    /\ free_task(u)

\* Mutant: the latest request wins.
Requested_Latest(old, op) == IF op = "CONTINUE" THEN "none" ELSE op

Requested(old, op) ==
    IF old = "KILL" THEN "KILL" ELSE IF op = "CONTINUE" THEN "none" ELSE op

\* process_control_locked on the process of task u.
process_control(c, t, u, op) ==
    /\ Executes(c, t) /\ loop[t] = Nothing
    /\ pstate[u] # "none" /\ state[u] # "ZOMBIE"
    /\ control_request' = [control_request EXCEPT ![u] = Requested(@, op)]
    /\ LET woken == IF state[u] = "STOPPED" \/ (op # "CONTINUE" /\ state[u] = "SLEEPING")
                    THEN {u} ELSE {} IN
       /\ state' = Readied(woken)
       /\ wait_object' = Forgotten(woken)
       /\ work_pending' = [work_pending EXCEPT ![cpu[u]] = TRUE]
       /\ ipi' = [d \in CPUS |-> ipi[d] \/ d \in CpusOf(woken) \ {c}]
       /\ pstate' = IF woken = {} THEN pstate ELSE [pstate EXCEPT ![u] = "READY"]
    /\ UNCHANGED <<id, cpu, preempt_depth, mode, yielding, loop, held, current,
                   stack_owner, rsp, at, next_task_id, lockVars>>

-----------------------------------------------------------------------------
(* User mode *)

InUser(c, t) == at[c] = "task" /\ current[c] = t /\ mode[t] = "user"

\* A system call, unless a control request is found on the way in.
Syscall(c, t) ==
    /\ InUser(c, t)
    /\ \/ ControlDue(c) /\ process_return_control(c) /\ UNCHANGED ipi
       \/ /\ ~ControlDue(c)
          /\ mode' = [mode EXCEPT ![t] = "kernel"]
          /\ UNCHANGED <<state, id, cpu, wait_object, preempt_depth,
                         control_request, pstate, yielding, loop, held, cpuVars,
                         next_task_id, lockVars>>

SyscallReturn(c, t) ==
    /\ Executes(c, t) /\ loop[t] = Nothing
    /\ pstate[t] # "none"
    /\ held[t] = {} /\ preempt_depth[t] = 0
    /\ mode' = [mode EXCEPT ![t] = "user"]
    /\ Goto(c, "return")
    /\ UNCHANGED <<state, id, cpu, wait_object, preempt_depth, control_request,
                   pstate, yielding, loop, held, current, stack_owner,
                   work_pending, rsp, ipi, next_task_id, lockVars>>

\* An exception in user mode that demand paging does not repair.
UserFault(c, t) ==
    /\ InUser(c, t)
    /\ \/ ControlDue(c) /\ process_return_control(c) /\ UNCHANGED ipi
       \/ /\ ~ControlDue(c)
          /\ Die(t)
          /\ Goto(c, "resched")
          /\ UNCHANGED <<id, cpu, wait_object, preempt_depth, control_request,
                         mode, yielding, loop, held, current, stack_owner,
                         work_pending, rsp, ipi, next_task_id, lockVars>>

-----------------------------------------------------------------------------
KernelCall(c, t) ==
    \/ \E m \in Mutexes : \/ k_mutex_lock(c, t, m)
                          \/ k_mutex_trylock(c, t, m)
                          \/ k_mutex_unlock(c, t, m)
    \/ \E s \in Semaphores : k_sem_wait(c, t, s) \/ k_sem_post(c, t, s)
    \/ k_sleep(c, t)
    \/ k_yield(c, t)
    \/ k_preempt_disable(c, t)
    \/ k_preempt_enable(c, t)
    \/ k_task_exit(c, t)
    \/ \E u \in Tasks :
          \/ \E d \in CPUS, user \in BOOLEAN : Create(c, t, u, d, user)
          \/ k_task_reap(c, t, u)
          \/ process_destroy(c, t, u)
          \/ \E op \in {"KILL", "STOP", "CONTINUE"} : process_control(c, t, u, op)
    \/ SyscallReturn(c, t)

InterruptPath(c) ==
    \/ TimerTick(c)
    \/ RescheduleIpi(c)
    \/ IpiLost(c)
    \/ Yield(c)
    \/ Reschedule(c)
    \/ ReturnControl(c)
    \/ BadUserFrame(c)
    \/ SwitchStack(c)
    \/ StoreOwner(c)
    \/ Nmi(c)

Next ==
    \E c \in CPUS :
        \/ InterruptPath(c)
        \/ /\ at[c] = "task"
           /\ \/ KernelCall(c, current[c])
              \/ Syscall(c, current[c]) \/ UserFault(c, current[c])

Spec == Init /\ [][Next]_vars

-----------------------------------------------------------------------------
(* Properties *)

TypeOK ==
    /\ state \in [Tasks -> States]
    /\ id \in [Tasks -> 0 .. MAX_ID]
    /\ cpu \in [Tasks -> CPUS]
    /\ wait_object \in [Tasks -> Mutexes \union Semaphores \union {Nothing}]
    /\ preempt_depth \in [Tasks -> Nat]
    /\ control_request \in [Tasks -> {"none", "KILL", "STOP"}]
    /\ pstate \in [Tasks -> (States \ {"UNUSED"}) \union {"none"}]
    /\ mode \in [Tasks -> {"user", "kernel"}]
    /\ yielding \in [Tasks -> BOOLEAN]
    /\ loop \in [Tasks -> Mutexes \union Semaphores \union {Nothing}]
    /\ held \in [Tasks -> SUBSET Mutexes]
    /\ current \in [CPUS -> Tasks]
    /\ stack_owner \in [CPUS -> Tasks]
    /\ rsp \in [CPUS -> Tasks]
    /\ work_pending \in [CPUS -> BOOLEAN]
    /\ ipi \in [CPUS -> BOOLEAN]
    /\ at \in [CPUS -> {"task", "resched", "return", "owner"}]
    /\ next_task_id \in 0 .. MAX_ID
    /\ owner \in [Mutexes -> 0 .. MAX_ID]
    /\ count \in [Semaphores -> 0 .. SEM_MAX]

\* The stack a CPU runs on is never freed under it, and no two CPUs ever run
\* on one stack: neither k_task_reap nor process_destroy_locked can free a
\* task between the moment a CPU picks its successor and the moment entry.S
\* has left its stack.
StackInUseIsAllocated ==
    /\ \A c \in CPUS : state[rsp[c]] # "UNUSED" /\ state[current[c]] # "UNUSED"
    /\ \A c, d \in CPUS : c # d => rsp[c] # rsp[d] /\ current[c] # current[d]

\* A RUNNING task is the current task of its own CPU.
RunningIsCurrent ==
    \A t \in Tasks : state[t] = "RUNNING" => current[cpu[t]] = t

\* No wakeup is lost between k_mutex_lock or k_sem_wait giving up sched_lock
\* and the task leaving its CPU: a task is BLOCKED only while the mutex it
\* waits for is owned, or the semaphore it waits for is zero.
NoLostWakeup ==
    \A t \in Tasks : state[t] = "BLOCKED" =>
        \/ wait_object[t] \in Mutexes /\ owner[wait_object[t]] # 0
        \/ wait_object[t] \in Semaphores /\ count[wait_object[t]] = 0

\* An idle CPU that skips sched_lock on its ticks cannot overlook work: while
\* a READY or SLEEPING task waits for it, work_pending is set, although IPIs
\* may be lost.
IdleSeesWork ==
    \A t \in Tasks \ Idles :
        state[t] \in {"READY", "SLEEPING"} /\ current[cpu[t]] = IDLE[cpu[t]]
            => work_pending[cpu[t]]

\* A mutex belongs to exactly the task that locked it: owner ids are never
\* shared with a later task, although slots are reused.
MutualExclusion ==
    \A m \in Mutexes, t \in Tasks :
        m \in held[t] <=> owner[m] # 0 /\ owner[m] = id[t]

\* Killing or stopping a process never strands a kernel mutex: requests take
\* effect only on the way back to user mode, where no system call holds one.
OwnerMakesProgress ==
    \A m \in Mutexes : owner[m] # 0 =>
        \E t \in Tasks : /\ id[t] = owner[m]
                         /\ state[t] \notin {"UNUSED", "ZOMBIE", "STOPPED"}

\* process_destroy_locked trusts p->state and k_task_reap trusts t->state;
\* they agree on who is dead.
ProcessStateAgrees ==
    \A t \in Tasks : pstate[t] # "none" =>
        (pstate[t] = "ZOMBIE" <=> state[t] = "ZOMBIE")

\* A CPU is on the stack it says it is on, or on that of its current task; all
\* three are tasks of that CPU.  The task a CPU executes is RUNNING unless it
\* has published another state and is about to give up the CPU.
CpuInv ==
    \A c \in CPUS :
        /\ \A t \in {current[c], rsp[c], stack_owner[c]} :
               state[t] # "UNUSED" /\ cpu[t] = c
        /\ at[c] = "task" => rsp[c] = current[c] /\ stack_owner[c] = current[c]
        /\ at[c] \in {"resched", "return"} => rsp[c] = stack_owner[c]
        /\ at[c] = "owner" => rsp[c] = current[c]
        /\ at[c] \in {"return", "owner"} => state[current[c]] = "RUNNING"
        /\ at[c] = "task" /\ ~yielding[current[c]] => state[current[c]] = "RUNNING"

\* What is known of a task from its state and mode.
TaskInv ==
    /\ \A c \in CPUS : /\ state[IDLE[c]] \in {"READY", "RUNNING"}
                       /\ cpu[IDLE[c]] = c /\ mode[IDLE[c]] = "kernel"
                       /\ ~yielding[IDLE[c]] /\ pstate[IDLE[c]] = "none"
    /\ \A t \in Tasks :
          /\ mode[t] = "user" => /\ pstate[t] # "none" /\ ~yielding[t]
                                 /\ loop[t] = Nothing /\ held[t] = {}
          /\ state[t] \in {"UNUSED", "ZOMBIE", "STOPPED"} => held[t] = {}
          /\ state[t] = "UNUSED" => pstate[t] = "none" /\ control_request[t] = "none"
                                    /\ mode[t] = "kernel" /\ ~yielding[t]
                                    /\ loop[t] = Nothing

\* Ids are unique and below next_task_id until it wraps; owners are live ids.
IdInv ==
    /\ \A t \in Tasks : /\ id[t] = 0 <=> state[t] = "UNUSED"
                        /\ next_task_id # 0 => id[t] < next_task_id
                        /\ \A u \in Tasks : t # u /\ id[t] = id[u] => id[t] = 0
    /\ \A m \in Mutexes : owner[m] # 0 => \E t \in Tasks : m \in held[t]

\* Together: no CPU, task or id is in a state the next critical section does
\* not expect.
Consistent == CpuInv /\ TaskInv /\ IdInv

\* A zombie is never resumed ("zombie resumed" is a kernel halt): from ZOMBIE
\* a slot can only be freed.
ZombieNeverRuns ==
    [][\A t \in Tasks : state[t] = "ZOMBIE" => state'[t] \in {"ZOMBIE", "UNUSED"}]_vars

\* A pending KILL is never withdrawn or downgraded: it stays until the task
\* is a zombie, whatever STOP and CONTINUE requests follow.
KillIsSticky ==
    [][\A t \in Tasks : control_request[t] = "KILL" =>
           control_request'[t] = "KILL" \/ state'[t] \in {"ZOMBIE", "UNUSED"}]_vars
=============================================================================
