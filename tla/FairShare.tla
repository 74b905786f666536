----------------------------- MODULE FairShare -----------------------------
(***************************************************************************)
(* Which READY task a CPU runs next, and for how long: the virtual         *)
(* runtimes, the floor and the slices of kernel/kernel.c, which Scheduler  *)
(* leaves open.  A task never changes its CPU, so there is one CPU here;   *)
(* the others only wake its tasks.                                         *)
(*                                                                         *)
(* Each call of kernel_schedule arms the timer anew, so a tick comes only  *)
(* if no other reschedule comes first.                                     *)
(*                                                                         *)
(* Only the distance of a virtual runtime from fair_floor matters, and a   *)
(* task below the floor is raised to it before it runs again: vruntime is  *)
(* kept relative to the floor.  A task is its id, and an id is used once.  *)
(***************************************************************************)
EXTENDS Integers, FiniteSetsExt, SequencesExt

CONSTANTS
    TASKS,   \* the number of tasks; ids are 1 .. TASKS and the boot task is 1
    Weight,  \* Weight[t]: at most 4096 in the code
    UNIT,    \* what a tick costs a task of weight 1: 1024 * 1024
    SLICE,   \* the longest slice: 8 ticks
    LEAD     \* bound on what is charged while preemption is disabled

Tasks == 1 .. TASKS
Idle == 0   \* the CPU's idle task

ASSUME FairShareAssumption ==
    /\ {TASKS, UNIT, SLICE, LEAD} \subseteq Nat \ {0}
    /\ Weight \in [Tasks -> Nat \ {0}]

VARIABLES
    state, vruntime, preempt_depth,   \* struct task
    current, slice, work_pending,     \* struct cpu_state
    ipi     \* a reschedule IPI is on its way

vars == <<state, vruntime, preempt_depth, current, slice, work_pending, ipi>>

Init ==
    /\ state = [t \in Tasks |-> IF t = 1 THEN "RUNNING" ELSE "UNUSED"]
    /\ vruntime = [t \in Tasks |-> 0]
    /\ preempt_depth = [t \in Tasks |-> 0]
    /\ current = 1 /\ slice = 0 /\ work_pending = FALSE /\ ipi = FALSE

-----------------------------------------------------------------------------
(* A queue is what the operations below pass on: states, virtual runtimes  *)
(* and the floor.                                                          *)

Queue == [state |-> state, v |-> vruntime, floor |-> 0]

Wanting(q) == {t \in Tasks : q.state[t] \in {"READY", "RUNNING"}}

cpu_floor(q) ==
    IF Wanting(q) = {} THEN q.floor ELSE Max({q.floor, Min({q.v[t] : t \in Wanting(q)})})

task_ready(q, t) ==
    [state |-> [q.state EXCEPT ![t] = "READY"],
     v |-> [q.v EXCEPT ![t] = Max({@, cpu_floor(q)})],
     floor |-> cpu_floor(q)]

\* Keep a queue relative to its floor, and nothing of a dead task.
Store(q) ==
    /\ state' = q.state
    /\ vruntime' = [t \in Tasks |-> IF q.state[t] = "ZOMBIE" THEN 0
                                    ELSE Max({0, q.v[t] - q.floor})]

-----------------------------------------------------------------------------
(* kernel_schedule                                                         *)

Cost(t) == (UNIT + Weight[t] - 1) \div Weight[t]

\* Mutant: only a task that is made to give way is charged.
Charged_Forced(forced) ==
    /\ current # Idle
    /\ forced /\ state[current] = "RUNNING" /\ preempt_depth[current] = 0

\* Every tick is charged, and a forced reschedule of a task that could go on.
Charged(forced) ==
    /\ current # Idle
    /\ forced => state[current] = "RUNNING" /\ preempt_depth[current] = 0

AfterCharge(forced) ==
    IF Charged(forced) THEN [Queue EXCEPT !.v[current] = @ + Cost(current)] ELSE Queue

Ticked(forced) == IF forced \/ slice = 0 THEN slice ELSE slice - 1

\* The current task goes on.
Keeps(forced) ==
    /\ current # Idle /\ state[current] = "RUNNING"
    /\ preempt_depth[current] > 0 \/ (~forced /\ Ticked(forced) > 0)

\* The READY task with the least virtual runtime, the oldest of several.
Ready(q) == {t \in Tasks : q.state[t] = "READY"}
Best(q) ==
    LET least == {t \in Ready(q) : \A u \in Ready(q) : q.v[t] <= q.v[u]}
    IN IF Ready(q) = {} THEN Idle ELSE Min(least)

NewSlice(q, best) ==
    LET weights == MapThenSumSet(LAMBDA t : Weight[t], Ready(q))
    IN IF best = Idle THEN 1
       ELSE Max({1, Min({SLICE, (SLICE * Weight[best] + weights - 1) \div weights})})

Pick(q, sleepers) ==
    LET queued == [q EXCEPT !.state = [t \in Tasks |-> IF @[t] = "RUNNING" THEN "READY" ELSE @[t]]]
        best == Best(queued)
        run == [queued EXCEPT !.state = [t \in Tasks |-> IF t = best THEN "RUNNING" ELSE @[t]]]
    IN /\ work_pending' = (best # Idle \/ sleepers)
       /\ Store([run EXCEPT !.floor = cpu_floor(run)])
       /\ slice' = NewSlice(queued, best)
       /\ current' = best

\* `due' are the sleeping tasks whose time has come; they are readied in slot order.
kernel_schedule(forced) ==
    \E due \in SUBSET {t \in Tasks : state[t] = "SLEEPING"} :
        LET slots == SelectSeq([t \in Tasks |-> t], LAMBDA t : t \in due)
            q == FoldLeft(task_ready, AfterCharge(forced), slots)
        IN \/ /\ Keeps(forced)
              /\ Store(q)
              /\ slice' = Ticked(forced)
              /\ work_pending' = (work_pending \/ due # {})
              /\ UNCHANGED current
           \/ /\ ~Keeps(forced)
              /\ Pick(q, \E t \in Tasks : q.state[t] = "SLEEPING")

-----------------------------------------------------------------------------
(* What makes the CPU reschedule.                                          *)

\* The timer.  An idle CPU without work returns before it takes the lock.
Tick ==
    /\ current = Idle => work_pending
    /\ current # Idle => preempt_depth[current] = 0 \/ vruntime[current] < LEAD
    /\ kernel_schedule(FALSE)
    /\ UNCHANGED <<preempt_depth, ipi>>

\* A task yields, or stops running after it has published another state.
k_yield ==
    /\ current # Idle
    /\ kernel_schedule(TRUE)
    /\ UNCHANGED <<preempt_depth, ipi>>

RescheduleIpi ==
    /\ ipi /\ ipi' = FALSE
    /\ kernel_schedule(TRUE)
    /\ UNCHANGED preempt_depth

-----------------------------------------------------------------------------
(* What tasks do in between.                                               *)

Executes(t) == current = t /\ state[t] = "RUNNING"

k_preempt_disable(t) ==
    /\ Executes(t) /\ preempt_depth[t] = 0
    /\ preempt_depth' = [preempt_depth EXCEPT ![t] = 1]
    /\ UNCHANGED <<state, vruntime, current, slice, work_pending, ipi>>

k_preempt_enable(t) ==
    /\ Executes(t) /\ preempt_depth[t] > 0
    /\ preempt_depth' = [preempt_depth EXCEPT ![t] = 0]
    /\ UNCHANGED <<state, vruntime, current, slice, work_pending, ipi>>

\* k_sleep, and a wait for a mutex or a semaphore: not while preemption is disabled.
k_sleep(t) ==
    /\ Executes(t) /\ preempt_depth[t] = 0
    /\ \E s \in {"SLEEPING", "BLOCKED"} : state' = [state EXCEPT ![t] = s]
    /\ UNCHANGED <<vruntime, preempt_depth, current, slice, work_pending, ipi>>

k_task_exit(t) ==
    /\ Executes(t) /\ t # 1
    /\ state' = [state EXCEPT ![t] = "ZOMBIE"]
    /\ preempt_depth' = [preempt_depth EXCEPT ![t] = 0]
    /\ UNCHANGED <<vruntime, current, slice, work_pending, ipi>>

\* Work was published for the CPU; the IPI that says so may be lost.
Woken ==
    /\ work_pending' = TRUE
    /\ ipi' \in {ipi, TRUE}
    /\ UNCHANGED <<preempt_depth, current, slice>>

\* Another task, on any CPU, releases what t waits for.
wake_object(t) ==
    /\ state[t] = "BLOCKED"
    /\ Store(task_ready(Queue, t))
    /\ Woken

new_task(t) ==
    /\ state[t] = "UNUSED" /\ \A u \in 1 .. t - 1 : state[u] # "UNUSED"
    /\ LET floor == cpu_floor(Queue)
       IN Store([state |-> [state EXCEPT ![t] = "READY"],
                 v |-> [vruntime EXCEPT ![t] = floor], floor |-> floor])
    /\ Woken

Next ==
    \/ Tick \/ k_yield \/ RescheduleIpi
    \/ \E t \in Tasks :
          \/ k_preempt_disable(t) \/ k_preempt_enable(t)
          \/ k_sleep(t) \/ k_task_exit(t) \/ wake_object(t) \/ new_task(t)

\* The CPU has nothing to do, or the bound LEAD keeps its timer from firing.
Rests ==
    IF current = Idle THEN ~work_pending /\ ~ipi
    ELSE preempt_depth[current] > 0 /\ vruntime[current] >= LEAD

InSection == \E t \in Tasks : preempt_depth[t] > 0

\* The timer counts down whenever nothing else reschedules, and a section without
\* preemption ends: weak fairness of rescheduling and of k_preempt_enable, with
\* the states in which they are enabled written out.
Fairness ==
    /\ []<>Rests \/ []<><<Tick \/ k_yield \/ RescheduleIpi>>_vars
    /\ []<>~InSection

Spec == Init /\ [][Next]_vars /\ Fairness

-----------------------------------------------------------------------------
\* What escapes the accounts: giving up the CPU is not charged and arms the
\* timer anew, and a tick within a section without preemption is not made up for.
Evades == \E t \in Tasks : k_sleep(t) \/ k_preempt_disable(t)

\* No starvation: a READY task runs in the end, whatever the weights are and
\* however often others are created, woken, yield or are interrupted, unless
\* tasks go on for ever giving up the CPU on their own or disabling preemption.
ReadyIsRun ==
    \A t \in Tasks : (state[t] = "READY" ~> state[t] # "READY") \/ []<><<Evades>>_vars
=============================================================================
