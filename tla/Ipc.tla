-------------------------------- MODULE Ipc --------------------------------
(***************************************************************************)
(* Messages, IPC grants and the service directory: k_ipc_send and          *)
(* k_ipc_receive of kernel/kernel.c, service_register and k_service_lookup *)
(* of kernel/process.c.  Nothing calls k_ipc_grant, so grants come from    *)
(* lookups only.                                                           *)
(*                                                                         *)
(* Every operation is one critical section under sched_lock and so one     *)
(* step.  A process has one task in its life, so the process and its task  *)
(* share a slot here and a pid stands for its task's id.  READY, RUNNING,  *)
(* SLEEPING, BLOCKED and STOPPED are not told apart: all are "LIVE".       *)
(***************************************************************************)
EXTENDS Naturals, FiniteSets, Sequences

CONSTANTS Slots,            \* tasks[] and processes[]
          Names, Data,
          Kinds,            \* the kinds of task created
          MAX_SERVICES, MAX_GRANTS, MAIL_DEPTH,
          LOAD,             \* bound on messages waiting and services registered
          MAX_ID            \* bound on the number of tasks ever created

IpcAssumption ==
    /\ Kinds \subseteq {"KERNEL", "RING1", "RING3"}
    /\ MAX_SERVICES \in Nat /\ MAX_GRANTS \in Nat
    /\ MAIL_DEPTH \in Nat \ {0} /\ MAX_ID \in Nat

Ids == 1..MAX_ID
Index == 0..(MAIL_DEPTH - 1)
Message == [sender : 0..MAX_ID, data : Data \cup {0}]
ZERO == [sender |-> 0, data |-> 0]

VARIABLES
    state, id, kind,                \* kind: no process, or its execution_class
    mail, mail_head, mail_count,    \* struct task: the ring mail[MAIL_DEPTH]
    grants,                         \* struct k_process: grants[0..grant_count-1]
    services,                       \* services[i]: name and pid (0: unused)
    next_id                         \* next_task_id

taskVars == <<state, id, kind>>
mailVars == <<mail, mail_head, mail_count>>
ipcVars == <<taskVars, mailVars, grants, services, next_id>>

FREE == [name |-> 0, pid |-> 0]
Service == [name : Names \cup {0}, pid : 0..MAX_ID]

Live(t) == state[t] = "LIVE"

\* Some task with this id is neither UNUSED nor a ZOMBIE.
LiveId(i) == \E t \in Slots : Live(t) /\ id[t] = i

IpcInit ==
    /\ state = [t \in Slots |-> "UNUSED"]
    /\ id = [t \in Slots |-> 0]
    /\ kind = [t \in Slots |-> "KERNEL"]
    /\ mail = [t \in Slots |-> [i \in Index |-> ZERO]]
    /\ mail_head = [t \in Slots |-> 0]
    /\ mail_count = [t \in Slots |-> 0]
    /\ grants = [t \in Slots |-> {}]
    /\ services = [i \in 1..MAX_SERVICES |-> FREE]
    /\ next_id = 1
-----------------------------------------------------------------------------
(***************************************************************************)
(* The life of a task.                                                     *)
(***************************************************************************)

\* mem_zero of a task's slot, as far as its mail goes.
ZeroMail(t) ==
    /\ mail' = [mail EXCEPT ![t] = [i \in Index |-> ZERO]]
    /\ mail_head' = [mail_head EXCEPT ![t] = 0]
    /\ mail_count' = [mail_count EXCEPT ![t] = 0]

\* new_task and, for a process, process_create_locked: both zero their slot.
NewTask(t, k) ==
    /\ state[t] = "UNUSED"
    /\ next_id <= MAX_ID
    /\ state' = [state EXCEPT ![t] = "LIVE"]
    /\ id' = [id EXCEPT ![t] = next_id]
    /\ kind' = [kind EXCEPT ![t] = k]
    /\ grants' = [grants EXCEPT ![t] = {}]
    /\ next_id' = next_id + 1
    /\ ZeroMail(t)
    /\ UNCHANGED services

\* The part of process_resources_release that is about services.
Released(t) ==
    [i \in 1..MAX_SERVICES |-> IF services[i].pid = id[t] THEN FREE ELSE services[i]]

\* k_task_exit, and a fault in user mode: what the task holds stays registered.
TaskExit(t) ==
    /\ Live(t)
    /\ state' = [state EXCEPT ![t] = "ZOMBIE"]
    /\ UNCHANGED <<id, kind, mailVars, grants, services, next_id>>

\* process_return_control with a K_CTL_KILL request.
Kill(t) ==
    /\ Live(t) /\ kind[t] # "KERNEL"
    /\ state' = [state EXCEPT ![t] = "ZOMBIE"]
    /\ services' = Released(t)
    /\ UNCHANGED <<id, kind, mailVars, grants, next_id>>

\* k_task_reap, or process_destroy_locked once the zombie is off its CPU.
TaskReap(t) ==
    /\ state[t] = "ZOMBIE"
    /\ services' = IF kind[t] = "KERNEL" THEN services ELSE Released(t)
    /\ state' = [state EXCEPT ![t] = "UNUSED"]
    /\ id' = [id EXCEPT ![t] = 0]
    /\ kind' = [kind EXCEPT ![t] = "KERNEL"]
    /\ grants' = [grants EXCEPT ![t] = {}]
    /\ ZeroMail(t)
    /\ UNCHANGED next_id
-----------------------------------------------------------------------------
(***************************************************************************)
(* Messages.                                                               *)
(***************************************************************************)

\* Kernel threads send to anyone, a process to itself and where it has a grant.
MaySend(t, target) == kind[t] = "KERNEL" \/ target = id[t] \/ target \in grants[t]

\* Where the next message for t goes, and whether there is room for it.
FreeIndex(t) == (mail_head[t] + mail_count[t]) % MAIL_DEPTH

MailFull(t) == mail_count[t] = MAIL_DEPTH

Send(t, target, d) ==
    /\ Live(t)
    /\ MaySend(t, target)
    /\ \E u \in Slots :
        /\ Live(u) /\ id[u] = target
        /\ ~MailFull(u)
        /\ mail' = [mail EXCEPT ![u][FreeIndex(u)] = [sender |-> id[t], data |-> d]]
        /\ mail_count' = [mail_count EXCEPT ![u] = @ + 1]
    /\ UNCHANGED <<taskVars, mail_head, grants, services, next_id>>

Receive(t) ==
    /\ Live(t)
    /\ mail_count[t] # 0
    /\ mail_head' = [mail_head EXCEPT ![t] = (@ + 1) % MAIL_DEPTH]
    /\ mail_count' = [mail_count EXCEPT ![t] = @ - 1]
    /\ UNCHANGED <<taskVars, mail, grants, services, next_id>>
-----------------------------------------------------------------------------
(***************************************************************************)
(* Grants and services.                                                    *)
(***************************************************************************)

\* grant_locked: the resulting table and whether there was room in it.
Pruned(gs) == {g \in gs : LiveId(g)}

Granted(gs, tid) ==
    IF tid \in gs THEN [ok |-> TRUE, table |-> gs]
    ELSE IF Cardinality(Pruned(gs)) = MAX_GRANTS THEN [ok |-> FALSE, table |-> Pruned(gs)]
    ELSE [ok |-> TRUE, table |-> Pruned(gs) \cup {tid}]

\* The owner named by a directory entry is gone or a zombie.
DeadEntry(i) ==
    ~ \E t \in Slots : Live(t) /\ kind[t] # "KERNEL" /\ id[t] = services[i].pid

\* service_register's scan frees the dead entries it passes.
Swept(last) ==
    [i \in 1..MAX_SERVICES |-> IF i <= last /\ DeadEntry(i) THEN FREE ELSE services[i]]

IsFirst(i, S) == i \in S /\ \A j \in S : i <= j

Register(t, n) ==
    LET taken == {i \in 1..MAX_SERVICES : ~DeadEntry(i) /\ services[i].name = n}
        empty == {i \in 1..MAX_SERVICES : DeadEntry(i)}
    IN  /\ Live(t) /\ kind[t] = "RING1"
        /\ \/ \E i \in 1..MAX_SERVICES : IsFirst(i, taken) /\ services' = Swept(i)
           \/ taken = {} /\ empty = {} /\ services' = services
           \/ /\ taken = {}
              /\ \E i \in 1..MAX_SERVICES :
                    /\ IsFirst(i, empty)
                    /\ services' = [Swept(MAX_SERVICES) EXCEPT ![i] = [name |-> n, pid |-> id[t]]]
        /\ UNCHANGED <<taskVars, mailVars, grants, next_id>>

\* The two grants of k_service_lookup by caller t at server u; the first is
\* taken back when the second fails, unless it was there before.
Reciprocal_NoRollback(t, u) ==
    LET first  == Granted(grants[u], id[t])
        g1     == [grants EXCEPT ![u] = first.table]
    IN  IF ~first.ok \/ kind[t] = "KERNEL" THEN g1
        ELSE [g1 EXCEPT ![t] = Granted(g1[t], id[u]).table]

Reciprocal(t, u) ==
    LET first  == Granted(grants[u], id[t])
        g1     == [grants EXCEPT ![u] = first.table]
        second == Granted(g1[t], id[u])
        g2     == [g1 EXCEPT ![t] = second.table]
    IN  IF ~first.ok \/ kind[t] = "KERNEL" THEN g1
        ELSE IF second.ok THEN g2
        ELSE IF id[t] \in grants[u] THEN g2
        ELSE [g2 EXCEPT ![u] = @ \ {id[t]}]

Lookup(t, n) ==
    /\ Live(t)
    /\ \E i \in 1..MAX_SERVICES :
        /\ IsFirst(i, {j \in 1..MAX_SERVICES : services[j].pid # 0 /\ services[j].name = n})
        /\ \E u \in Slots :
            /\ Live(u) /\ kind[u] # "KERNEL" /\ id[u] = services[i].pid
            /\ grants' = Reciprocal(t, u)
    /\ UNCHANGED <<taskVars, mailVars, services, next_id>>

\* What LOAD bounds.
Load == Cardinality({p \in Slots \X (1..MAIL_DEPTH) : p[2] <= mail_count[p[1]]})
          + Cardinality({i \in 1..MAX_SERVICES : services[i].pid # 0})

IpcNext ==
    \/ \E t \in Slots, k \in Kinds : NewTask(t, k)
    \/ \E t \in Slots : TaskExit(t) \/ Kill(t) \/ TaskReap(t) \/ Receive(t)
    \/ \E t \in Slots, i \in Ids, d \in Data : Load < LOAD /\ Send(t, i, d)
    \/ \E t \in Slots, n \in Names : (Load < LOAD /\ Register(t, n)) \/ Lookup(t, n)

IpcSpec == IpcInit /\ [][IpcNext]_ipcVars
-----------------------------------------------------------------------------
\* Every field is in range: in particular the rings and the grant tables
\* never hold more than their arrays have room for.
IpcTypeOK ==
    /\ state \in [Slots -> {"UNUSED", "LIVE", "ZOMBIE"}]
    /\ id \in [Slots -> 0..MAX_ID]
    /\ kind \in [Slots -> Kinds \cup {"KERNEL"}]
    /\ mail \in [Slots -> [Index -> Message]]
    /\ mail_head \in [Slots -> Index]
    /\ mail_count \in [Slots -> 0..MAIL_DEPTH]
    /\ grants \in [Slots -> SUBSET Ids]
    /\ \A t \in Slots : Cardinality(grants[t]) <= MAX_GRANTS
    /\ services \in [1..MAX_SERVICES -> Service]
    /\ next_id \in 1..(MAX_ID + 1)

(***************************************************************************)
(* The abstract state: what an id has to receive, may write to, and serves. *)
(***************************************************************************)
SlotOf(i) == CHOOSE t \in Slots : Live(t) /\ id[t] = i

Phase == [i \in Ids |-> IF i >= next_id THEN "new" ELSE IF LiveId(i) THEN "open" ELSE "closed"]

Trusted == {i \in Ids : \E t \in Slots : Live(t) /\ id[t] = i /\ kind[t] = "KERNEL"}

Queue(t) == [k \in 1..mail_count[t] |-> mail[t][(mail_head[t] + k - 1) % MAIL_DEPTH]]

Inbox == [i \in Ids |-> IF LiveId(i) THEN Queue(SlotOf(i)) ELSE <<>>]

Peers == {p \in Ids \X Ids :
            /\ LiveId(p[2])
            /\ \E t \in Slots : Live(t) /\ kind[t] # "KERNEL" /\ id[t] = p[1] /\ p[2] \in grants[t]}

Serves(i, n) == ~DeadEntry(i) /\ services[i].name = n

Directory ==
    [n \in Names |->
        IF \E i \in 1..MAX_SERVICES : Serves(i, n)
        THEN services[CHOOSE i \in 1..MAX_SERVICES : Serves(i, n)].pid
        ELSE 0]

C == INSTANCE Channels WITH DEPTH <- MAIL_DEPTH, phase <- Phase, trusted <- Trusted,
                            inbox <- Inbox, peers <- Peers, directory <- Directory

\* The reused slots, the rings, the pruned grant tables and the swept
\* directory of kernel.c and process.c behave as per-id channels: no mail
\* outlives its task into the next user of the slot, messages arrive once and
\* in order, a lookup installs both grants or none, pruning takes no live
\* grant, and a service name stays with its server until that server dies.
ImplementsChannels == C!Spec
=============================================================================
