------------------------------- MODULE Storage -------------------------------
(***************************************************************************)
(* Disks: drivers/storage/storage.c, usb_mass.c and usb_uas.c.             *)
(*                                                                         *)
(* A unit is what takes commands: an NVMe controller with its namespaces,  *)
(* an AHCI port, a drive on an ATA channel, a USB disk behind a bulk link, *)
(* or the pages of a RAM disk.  The code drives it under storage_mutex,    *)
(* one command at a time, through memory and registers that the device     *)
(* reads and writes when it pleases: the actions from Executes to          *)
(* UasServes are the devices', with at most FAULTS errors and silences.    *)
(* A value stands for what a sector holds.                                 *)
(***************************************************************************)
EXTENDS Integers, Sequences, FiniteSets, SequencesExt

CONSTANTS
    Tasks,     \* the callers
    Worker,    \* the one that boots the system and then looks for USB disks
    Machines,  \* the machines looked at, see machine
    Kind,      \* unit -> "nvme", "ahci", "ata", "bot", "uas" or "ram"
    Channel,   \* unit -> what a failure takes with it (bdf, ATA base port)
    Spaces,    \* the namespaces of an NVMe controller
    DISKS,     \* K_MAX_DISKS
    PER,       \* 4096 / sector_size
    DEPTH,     \* entries of an NVMe queue
    ATTEMPTS,  \* how often a USB disk is asked whether it is ready
    FAULTS     \* bound on what goes wrong

VARIABLES
    machine,   \* which machine this is: the units on its PCI bus, in order, its USB units, the
               \* RAM disks that can be made, the sectors of its disks and a bound on the calls
    disks,     \* the disk table
    count,     \* disk_count
    unit,      \* per unit, what code and device share
    device,    \* per unit, what only the device knows
    link,      \* USB unit -> "out", "in", "dead"
    found,     \* USB units in the order they were plugged in
    scanned,   \* scanned_links
    usb_disks, \* USB units that passed usb_storage_init
    lock,      \* storage_mutex, bot_lock, scan_lock
    task,      \* what each caller is doing
    media,     \* drive -> sector -> value
    cached,    \* drive -> sectors a power failure would lose
    may,       \* drive -> sector -> the values that writes allow (history)
    faulty,    \* channels on which something went wrong (history)
    ops, faults

vars == <<machine, disks, count, unit, device, link, found, scanned, usb_disks, lock, task, media, cached,
          may, faulty, ops, faults>>

Bus == machine.bus
Links == machine.links
Rams == machine.rams
SECTORS == machine.sectors
OPS == machine.calls

Units == Range(Bus) \cup Links \cup Rams
Drives == Units \X (1 .. Spaces)
Sector == 0 .. SECTORS - 1
Slot == 0 .. DISKS - 1
Locks == {"storage", "bot", "scan"}
Nobody == "nobody"
Least(a, b) == IF a < b THEN a ELSE b

NoDisk == [kind |-> "none", unit |-> "none", space |-> 1, online |-> FALSE, flush |-> FALSE]
Rest == [pc |-> "idle", op |-> "none", disk |-> 0, from |-> 0, n |-> 0, done |-> 0,
         values |-> <<>>, value |-> 0, e |-> "ok", unit |-> "none", todo |-> <<>>]

\* A queue pair; entry i of the completion queue is new when its phase is the one waited for.
Queue == [cid |-> 0, head |-> 0, phase |-> 1,
          cq |-> [i \in 0 .. DEPTH - 1 |-> [cid |-> 0, phase |-> 0, ok |-> TRUE]]]
NewUnit(u) ==
    CASE Kind[u] = "nvme" -> [dead |-> FALSE, dma |-> FALSE, data |-> <<>>,
                              admin |-> Queue, io |-> Queue]
      [] Kind[u] = "ahci" -> [dead |-> FALSE, dma |-> FALSE, data |-> <<>>,
                              ci |-> FALSE, bad |-> FALSE]
      [] Kind[u] = "ata"  -> [dead |-> FALSE, status |-> "ready"]
      [] Kind[u] = "bot"  -> [dead |-> FALSE, tag |-> 0]
      [] Kind[u] = "uas"  -> [dead |-> FALSE, streams |-> FALSE, command |-> "idle",
                              data |-> "idle", status |-> "idle", started |-> FALSE,
                              sense |-> "none"]
      [] OTHER            -> [dead |-> FALSE]

\* What a device is asked to do.
Request == [op |-> "none", queue |-> "io", cid |-> 0, space |-> 1, lba |-> 0, n |-> 0,
            value |-> 0]
NewDevice == [pending |-> {}, posted |-> [admin |-> 0, io |-> 0], latch |-> <<>>,
              now |-> Request, stage |-> "idle"]

\* The probe of the next unit; a port that fails ends the probe of its whole controller.
NextUnit(f, whole) ==
    LET on == {j \in f.from + 1 .. Len(Bus) : ~whole \/ Channel[Bus[j]] # Channel[Bus[f.from]]}
    IN IF on = {} THEN Rest
       ELSE [Rest EXCEPT !.op = "probe", !.pc = "probe",
                         !.from = CHOOSE j \in on : \A k \in on : j <= k]

Init ==
    /\ machine \in Machines
    /\ disks = [i \in Slot |-> NoDisk]
    /\ count = 0
    /\ unit = [u \in Units |-> NewUnit(u)]
    /\ device = [u \in Units |-> NewDevice]
    /\ link = [u \in Links |-> "out"]
    /\ found = <<>>
    /\ scanned = 0
    /\ usb_disks = <<>>
    /\ lock = [l \in Locks |-> Nobody]
    /\ task = [t \in Tasks |-> IF t = Worker THEN NextUnit(Rest, FALSE) ELSE Rest]
    /\ media = [d \in Drives |-> [s \in Sector |-> -s]]
    /\ cached = [d \in Drives |-> {}]
    /\ may = [d \in Drives |-> [s \in Sector |-> {-s}]]
    /\ faulty = {}
    /\ ops = 0
    /\ faults = 0

Booted == task[Worker].op # "probe"
Fault(u) == /\ faults < FAULTS
            /\ faults' = faults + 1
            /\ faulty' = faulty \cup {Channel[u]}
NoFault == UNCHANGED <<faults, faulty>>

-----------------------------------------------------------------------------
(* Quarantine: a device that did not answer may still write to its buffer. *)

Sharing(u) == {v \in Units : Kind[v] = Kind[u] /\ Channel[v] = Channel[u]}
Offline(D, us) ==
    [i \in Slot |-> IF i < count /\ D[i].unit \in us THEN [D[i] EXCEPT !.online = FALSE] ELSE D[i]]
nvme_dead(U, u) == [U EXCEPT ![u].dead = TRUE, ![u].dma = FALSE]
ahci_dead(U, u) ==
    [v \in Units |-> IF v \in Sharing(u) THEN [U[v] EXCEPT !.dead = TRUE, !.dma = FALSE] ELSE U[v]]
ata_quarantine(U, u) ==
    [v \in Units |-> IF v \in Sharing(u) THEN [U[v] EXCEPT !.dead = TRUE] ELSE U[v]]
Killed(U, u) == CASE Kind[u] = "nvme" -> nvme_dead(U, u)
                  [] Kind[u] = "ahci" -> ahci_dead(U, u)
                  [] OTHER            -> ata_quarantine(U, u)

\* disk_add into the slot after the last; the caller counts it.
disk_add(D, kind, u, space, flush) ==
    IF count = DISKS THEN D
    ELSE [D EXCEPT ![count] = [kind |-> kind, unit |-> u, space |-> space, online |-> TRUE,
                               flush |-> flush]]
Counted == IF count = DISKS THEN count ELSE count + 1

-----------------------------------------------------------------------------
(* How the answer to a command is taken: by a probe, by the USB scan, by   *)
(* a read, write or flush.  U and D are the units and disks it leaves.     *)

Drive(t) == <<disks[task[t].disk].unit, disks[task[t].disk].space>>
Chunk(f, u) == Least(f.n - f.done, IF Kind[u] = "ata" THEN 1 ELSE PER)
Released(l, t) == [lock EXCEPT ![l] = IF @ = t THEN Nobody ELSE @]

Probed(t, e, U, D) ==
    LET f == task[t]
        u == f.unit
        step == Head(f.todo)
        stops == U[u].dead \/ (e # "ok" /\ Kind[u] = "nvme" /\ step # "list" /\ step # "space")
        adds == e = "ok" /\ step \in {"space", "disk"}
        D2 == IF adds THEN disk_add(D, Kind[u], u, f.done + 1, TRUE) ELSE D
    IN /\ unit' = IF stops /\ Kind[u] = "nvme" THEN nvme_dead(U, u) ELSE U
       /\ disks' = IF stops /\ Kind[u] = "nvme" THEN Offline(D2, {u}) ELSE D2
       /\ count' = IF adds THEN Counted ELSE count
       /\ task' = [task EXCEPT ![t] =
              IF stops \/ Len(f.todo) = 1 THEN NextUnit(f, e # "ok" /\ Kind[u] = "ahci")
              ELSE [f EXCEPT !.pc = "submit", !.todo = Tail(@),
                             !.done = IF step = "space" THEN @ + 1 ELSE @]]
       /\ UNCHANGED <<lock, may, usb_disks>>

\* Mutant: attempts are not counted.
Attempt_Uncounted(n) == n
Attempt(n) == n + 1

\* usb_storage_init: ready (with retries), inquiry, capacity, and whether the disk can flush.
Asked(t, e, U, D) ==
    LET f == task[t]
        step == Head(f.todo)
        again == step = "ready" /\ e # "ok" /\ ~U[f.unit].dead
        fails == \/ step = "sense" /\ f.n = ATTEMPTS
                 \/ step \in {"ready", "inquiry", "capacity"} /\ e # "ok" /\ ~again
                 \/ step = "sync" /\ U[f.unit].dead
    IN /\ unit' = U
       /\ disks' = D
       /\ task' = [task EXCEPT ![t] =
              CASE fails         -> [f EXCEPT !.pc = "links"]
                [] again         -> [f EXCEPT !.pc = "submit", !.n = Attempt(@),
                                          !.todo = <<"sense">> \o @]
                [] step = "sync" -> [f EXCEPT !.pc = "attach", !.e = e]
                [] OTHER         -> [f EXCEPT !.pc = "submit", !.todo = Tail(@)]]
       /\ lock' = IF fails \/ (step = "sync") THEN Released("bot", t) ELSE lock
       /\ usb_disks' = IF ~fails /\ step = "sync" THEN Append(usb_disks, f.unit) ELSE usb_disks
       /\ UNCHANGED <<count, may>>

\* A failed write takes the device out of use, whatever the reason; a USB disk only if it is broken.
Done(t, e, got, U, D) ==
    LET f == task[t]
        u == disks[f.disk].unit
        n == Chunk(f, u)
        last == e # "ok" \/ f.done + n = f.n
        kills == e # "ok" /\ f.op = "write" /\ Kind[u] \in {"nvme", "ahci", "ata"}
    IN /\ unit' = IF kills THEN Killed(U, u) ELSE U
       /\ disks' = IF kills THEN Offline(D, Sharing(u)) ELSE D
       /\ task' = [task EXCEPT ![t] = [f EXCEPT !.pc = IF last THEN "done" ELSE "submit",
                                                !.done = @ + n, !.values = @ \o got, !.e = e]]
       /\ lock' = [l \in Locks |-> IF \/ last /\ lock[l] = t
                                      \/ f.op # "read" /\ l = "bot" /\ lock[l] = t
                                   THEN Nobody ELSE lock[l]]
       /\ may' = IF last /\ e = "ok" /\ f.op = "write"
                 THEN [may EXCEPT ![Drive(t)] = [s \in Sector |->
                          IF s \in f.from .. f.from + f.n - 1 THEN {f.value} ELSE @[s]]]
                 ELSE may
       /\ UNCHANGED <<count, usb_disks>>

Answer(t, e, got, U, D) ==
    /\ CASE task[t].op = "probe" -> Probed(t, e, U, D)
         [] task[t].op = "scan"  -> Asked(t, e, U, D)
         [] OTHER                -> Done(t, e, got, U, D)
    /\ UNCHANGED <<found, scanned, ops>>

\* The answer of a device that is taken out of use.
Fails(t, u) == Answer(t, "io", <<>>, Killed(unit, u), Offline(disks, Sharing(u)))

\* What the caller asks of the device next.
Of(t) == IF task[t].op \in {"probe", "scan"} THEN task[t].unit ELSE disks[task[t].disk].unit
Asks(t, cid) ==
    LET f == task[t]
        internal == f.op \in {"probe", "scan"}
    IN [op |-> IF internal THEN Head(f.todo) ELSE f.op,
        queue |-> IF internal THEN "admin" ELSE "io",
        cid |-> cid,
        space |-> IF internal THEN f.done + 1 ELSE disks[f.disk].space,
        lba |-> IF internal THEN 0 ELSE f.from + f.done,
        n |-> IF internal \/ f.op = "flush" THEN 0 ELSE Chunk(f, Of(t)),
        value |-> f.value]

\* The data of a write, and what is stored where a read asks.
Same(c) == [i \in 1 .. c.n |-> c.value]
Stored(u, c) == [i \in 1 .. c.n |-> media[<<u, c.space>>][c.lba + i - 1]]

\* A unit that is out of use, or a port that still has a command, takes none.
Closed(u) == unit[u].dead \/ (Kind[u] = "ahci" /\ unit[u].ci)
Refused(t) ==
    /\ task[t].pc = "submit"
    /\ Closed(Of(t))
    /\ Of(t) \in Links => lock["bot"] = t
    /\ Answer(t, "io", <<>>, unit, disks)
    /\ NoFault
    /\ UNCHANGED <<device, link, media, cached>>

-----------------------------------------------------------------------------
(* NVMe *)

\* Mutant: the phase is not flipped when the queue wraps.
Advance_SamePhase(q) == [q EXCEPT !.head = (@ + 1) % DEPTH]
Advance(q) == [q EXCEPT !.head = (@ + 1) % DEPTH,
                        !.phase = IF q.head + 1 = DEPTH THEN 1 - @ ELSE @]

QueueOf(t) == IF task[t].op = "probe" THEN "admin" ELSE "io"

nvme_submit(t) ==
    LET u == Of(t)
        q == QueueOf(t)
        cid == unit[u][q].cid + 1
        c == Asks(t, cid)
    IN /\ task[t].pc = "submit"
       /\ Kind[u] = "nvme"
       /\ ~Closed(u)
       /\ unit' = [unit EXCEPT ![u][q].cid = cid,
                               ![u].data = IF c.op = "write" THEN Same(c) ELSE @]
       /\ device' = [device EXCEPT ![u].pending = @ \cup {c}]
       /\ task' = [task EXCEPT ![t].pc = "wait"]
       /\ NoFault
       /\ UNCHANGED <<disks, count, link, found, scanned, usb_disks, lock, media, cached, may, ops>>

\* The next completion has arrived; one of another command means that nothing can be trusted.
nvme_completion(t) ==
    LET u == Of(t)
        q == unit[u][QueueOf(t)]
        c == q.cq[q.head]
    IN /\ task[t].pc = "wait"
       /\ Kind[u] = "nvme"
       /\ c.phase = q.phase
       /\ IF c.cid # q.cid THEN Fails(t, u)
          ELSE Answer(t, IF c.ok THEN "ok" ELSE "io",
                      IF task[t].op = "read" THEN unit[u].data ELSE <<>>,
                      [unit EXCEPT ![u][QueueOf(t)] = Advance(q)], disks)
       /\ NoFault
       /\ UNCHANGED <<device, link, media, cached>>

\* Mutant: the error is returned and the controller stays in use.
nvme_timeout_Alive(t) ==
    LET u == Of(t)
        q == unit[u][QueueOf(t)]
    IN /\ task[t].pc = "wait"
       /\ Kind[u] = "nvme"
       /\ q.cq[q.head].phase # q.phase
       /\ Answer(t, "io", <<>>, unit, disks)
       /\ IF device[u].pending # {} THEN Fault(u) ELSE NoFault
       /\ UNCHANGED <<device, link, media, cached>>

nvme_timeout(t) ==
    LET u == Of(t)
        q == unit[u][QueueOf(t)]
    IN /\ task[t].pc = "wait"
       /\ Kind[u] = "nvme"
       /\ q.cq[q.head].phase # q.phase
       /\ Fails(t, u)
       /\ IF device[u].pending # {} THEN Fault(u) ELSE NoFault
       /\ UNCHANGED <<device, link, media, cached>>

\* Reset, queues and DMA; a controller that is not fit for use is passed over.
nvme_probe(t) ==
    LET f == task[t]
        u == Bus[f.from]
    IN /\ f.pc = "probe"
       /\ Kind[u] = "nvme"
       /\ \/ /\ unit' = [unit EXCEPT ![u].dma = TRUE]
             /\ task' = [task EXCEPT ![t] = [f EXCEPT !.pc = "submit", !.unit = u,
                    !.todo = <<"identify", "cq", "sq", "list">> \o [i \in 1 .. Spaces |-> "space"]]]
             /\ NoFault
          \/ /\ task' = [task EXCEPT ![t] = NextUnit(f, FALSE)]
             /\ Fault(u)
             /\ UNCHANGED unit
       /\ UNCHANGED <<disks, count, device, link, found, scanned, usb_disks, lock, media, cached,
                      may, ops>>

-----------------------------------------------------------------------------
(* AHCI *)

ahci_issue(t) ==
    LET u == Of(t)
        c == Asks(t, 0)
    IN /\ task[t].pc = "submit"
       /\ Kind[u] = "ahci"
       /\ ~Closed(u)
       /\ unit' = [unit EXCEPT ![u].ci = TRUE, ![u].bad = FALSE,
                               ![u].data = IF c.op = "write" THEN Same(c) ELSE @]
       /\ device' = [device EXCEPT ![u].pending = @ \cup {c}]
       /\ task' = [task EXCEPT ![t].pc = "wait"]
       /\ NoFault
       /\ UNCHANGED <<disks, count, link, found, scanned, usb_disks, lock, media, cached, may, ops>>

ahci_completion(t) ==
    LET u == Of(t)
    IN /\ task[t].pc = "wait"
       /\ Kind[u] = "ahci"
       /\ ~unit[u].ci
       /\ IF unit[u].bad THEN Fails(t, u)
          ELSE Answer(t, "ok", IF task[t].op = "read" THEN unit[u].data ELSE <<>>, unit, disks)
       /\ NoFault
       /\ UNCHANGED <<device, link, media, cached>>

\* Before the command is issued or while it runs.
ahci_timeout(t) ==
    LET u == Of(t)
    IN /\ Kind[u] = "ahci"
       /\ task[t].pc = "submit" \/ (task[t].pc = "wait" /\ unit[u].ci)
       /\ Fails(t, u)
       /\ Fault(u)
       /\ UNCHANGED <<device, link, media, cached>>

ahci_probe(t) ==
    LET f == task[t]
        u == Bus[f.from]
    IN /\ f.pc = "probe"
       /\ Kind[u] = "ahci"
       /\ \/ /\ unit' = [unit EXCEPT ![u].dma = TRUE]
             /\ task' = [task EXCEPT ![t] = [f EXCEPT !.pc = "submit", !.unit = u,
                                                      !.todo = <<"disk">>]]
             /\ NoFault
          \/ /\ \E whole \in BOOLEAN : task' = [task EXCEPT ![t] = NextUnit(f, whole)]
             /\ Fault(u)
             /\ UNCHANGED unit
       /\ UNCHANGED <<disks, count, device, link, found, scanned, usb_disks, lock, media, cached,
                      may, ops>>

\* An NVMe controller or AHCI port carries out a command it was given and reports, while it has DMA.
Executes(u) ==
    \E c \in device[u].pending, ok \in BOOLEAN, applied \in BOOLEAN :
        LET d == <<u, c.space>>
            part == c.lba .. c.lba + c.n - 1
            posted == device[u].posted[c.queue]
            U == IF c.op = "read" /\ applied
                 THEN [unit EXCEPT ![u].data = Stored(u, c)] ELSE unit
        IN /\ Kind[u] \in {"nvme", "ahci"}
           /\ unit[u].dma
           /\ ok => applied
           /\ IF ok THEN NoFault ELSE Fault(u)
           /\ device' = [device EXCEPT ![u].pending = @ \ {c}, ![u].posted[c.queue] = @ + 1]
           /\ unit' = IF Kind[u] = "ahci" THEN [U EXCEPT ![u].ci = FALSE, ![u].bad = ~ok]
                      ELSE [U EXCEPT ![u][c.queue].cq[posted % DEPTH] =
                               [cid |-> c.cid, phase |-> 1 - ((posted \div DEPTH) % 2), ok |-> ok]]
           /\ media' = IF c.op = "write" /\ applied
                       THEN [media EXCEPT ![d] = [s \in Sector |->
                                IF s \in part THEN unit[u].data[s - c.lba + 1] ELSE @[s]]]
                       ELSE media
           /\ cached' = [cached EXCEPT ![d] =
                            CASE c.op = "write" /\ applied -> @ \cup part
                              [] c.op = "flush" /\ ok      -> {}
                              [] OTHER                     -> @]
           /\ UNCHANGED <<disks, count, link, found, scanned, usb_disks, lock, task, may, ops>>

-----------------------------------------------------------------------------
(* ATA, word by word *)

\* The channel is ready: select the drive and give the command.
ata_command(t) ==
    LET u == Of(t)
    IN /\ task[t].pc = "submit"
       /\ Kind[u] = "ata"
       /\ ~Closed(u)
       /\ unit[u].status = "ready"
       /\ unit' = [unit EXCEPT ![u].status = "busy"]
       /\ device' = [device EXCEPT ![u].now = Asks(t, 0), ![u].stage = "begun"]
       /\ task' = [task EXCEPT ![t].pc = IF Asks(t, 0).op = "flush" THEN "finish" ELSE "wait"]
       /\ NoFault
       /\ UNCHANGED <<disks, count, link, found, scanned, usb_disks, lock, media, cached, may, ops>>

\* The drive asks for the data, or has it.
ata_data(t) ==
    LET u == Of(t)
    IN /\ task[t].pc = "wait"
       /\ Kind[u] = "ata"
       /\ unit[u].status = "drq"
       /\ unit' = [unit EXCEPT ![u].status = "busy"]
       /\ device' = [device EXCEPT ![u].stage = "moved"]
       /\ task' = [task EXCEPT ![t].pc = "finish"]
       /\ NoFault
       /\ UNCHANGED <<disks, count, link, found, scanned, usb_disks, lock, media, cached, may, ops>>

ata_end(t) ==
    LET u == Of(t)
    IN /\ task[t].pc = "finish"
       /\ Kind[u] = "ata"
       /\ unit[u].status = "ready"
       /\ Answer(t, "ok", IF task[t].op = "read" THEN device[u].latch ELSE <<>>, unit, disks)
       /\ device' = [device EXCEPT ![u] = NewDevice]
       /\ NoFault
       /\ UNCHANGED <<link, media, cached>>

\* An error or no answer; while probing the drive is passed over, later its channel is given up.
ata_wait_fails(t) ==
    LET u == Of(t)
    IN /\ task[t].pc \in {"submit", "wait", "finish"}
       /\ Kind[u] = "ata"
       /\ unit[u].status = "error" \/ Fault(u)
       /\ unit[u].status = "error" => NoFault
       /\ IF task[t].op = "probe" THEN Answer(t, "io", <<>>, unit, disks) ELSE Fails(t, u)
       /\ UNCHANGED <<device, link, media, cached>>

ata_probe(t) ==
    LET f == task[t]
    IN /\ f.pc = "probe"
       /\ Kind[Bus[f.from]] = "ata"
       /\ task' = [task EXCEPT ![t] = [f EXCEPT !.pc = "submit", !.unit = Bus[f.from],
                                                !.todo = <<"disk">>]]
       /\ NoFault
       /\ UNCHANGED <<disks, count, unit, device, link, found, scanned, usb_disks, lock, media,
                      cached, may, ops>>

\* The drive goes on with its command.
AtaServes(u) ==
    LET c == device[u].now
        d == <<u, 1>>
    IN /\ Kind[u] = "ata"
       /\ unit[u].status = "busy"
       /\ \/ /\ device[u].stage = "begun" /\ c.op # "flush"
             /\ unit' = [unit EXCEPT ![u].status = "drq"]
             /\ device' = [device EXCEPT ![u].latch = IF c.op = "read" THEN Stored(u, c) ELSE @]
             /\ NoFault
             /\ UNCHANGED <<media, cached>>
          \/ /\ device[u].stage = "moved" \/ c.op = "flush"
             /\ unit' = [unit EXCEPT ![u].status = "ready"]
             /\ media' = IF c.op = "write" THEN [media EXCEPT ![d][c.lba] = c.value] ELSE media
             /\ cached' = [cached EXCEPT ![d] = CASE c.op = "write" -> @ \cup {c.lba}
                                                  [] c.op = "flush" -> {}
                                                  [] OTHER          -> @]
             /\ NoFault
             /\ UNCHANGED device
          \/ /\ Fault(u)
             /\ unit' = [unit EXCEPT ![u].status = "error"]
             /\ UNCHANGED <<device, media, cached>>
       /\ UNCHANGED <<disks, count, link, found, scanned, usb_disks, lock, task, may, ops>>

-----------------------------------------------------------------------------
(* USB: bulk-only transport and UAS, under bot_lock *)

usb_lock(t) ==
    /\ task[t].pc \in {"bot", "submit"}
    /\ Of(t) \in Links
    /\ lock["bot"] = Nobody
    /\ lock' = [lock EXCEPT !["bot"] = t]
    /\ task' = [task EXCEPT ![t].pc = "submit"]
    /\ NoFault
    /\ UNCHANGED <<disks, count, unit, device, link, found, scanned, usb_disks, media, cached, may,
                   ops>>

\* Any transfer that fails or answers nonsense ends the use of the link.
broken(t) ==
    LET u == Of(t)
    IN /\ task[t].pc \in {"cbw", "data", "csw", "uas"}
       /\ IF link[u] = "in" THEN Fault(u) ELSE NoFault
       /\ link' = [link EXCEPT ![u] = "dead"]
       /\ Answer(t, "io", <<>>, [unit EXCEPT ![u].dead = Kind[u] = "bot"], disks)
       /\ UNCHANGED <<device, media, cached>>

Bot(t, pc) == task[t].pc = pc /\ Kind[Of(t)] = "bot"
bot_begin(t) ==
    LET u == Of(t)
    IN /\ Bot(t, "submit") /\ lock["bot"] = t /\ ~Closed(u)
       /\ unit' = [unit EXCEPT ![u].tag = @ + 1]
       /\ task' = [task EXCEPT ![t].pc = "cbw"]
       /\ NoFault
       /\ UNCHANGED <<disks, count, device, link, found, scanned, usb_disks, lock, media, cached,
                      may, ops>>
bot_command(t) ==
    LET u == Of(t)
        c == Asks(t, unit[u].tag)
    IN /\ Bot(t, "cbw") /\ link[u] = "in"
       /\ device' = [device EXCEPT ![u].now = c]
       /\ task' = [task EXCEPT ![t].pc = IF c.n > 0 THEN "data" ELSE "csw"]
       /\ NoFault
       /\ UNCHANGED <<disks, count, unit, link, found, scanned, usb_disks, lock, media, cached, may,
                      ops>>
bot_data(t) ==
    LET u == Of(t)
        c == device[u].now
    IN /\ Bot(t, "data") /\ link[u] = "in"
       /\ device' = [device EXCEPT ![u].latch =
                        IF c.op = "read" THEN Stored(u, c)
                        ELSE Same(c)]
       /\ task' = [task EXCEPT ![t].pc = "csw"]
       /\ NoFault
       /\ UNCHANGED <<disks, count, unit, link, found, scanned, usb_disks, lock, media, cached, may,
                      ops>>

\* The disk has carried out its command, or failed.
Carried(u, ok) ==
    LET c == device[u].now
        part == c.lba .. c.lba + c.n - 1
        d == <<u, 1>>
    IN \E applied \in BOOLEAN :
          /\ ok => applied
          /\ media' = IF c.op = "write" /\ applied
                      THEN [media EXCEPT ![d] = [s \in Sector |->
                               IF s \in part THEN device[u].latch[s - c.lba + 1] ELSE @[s]]]
                      ELSE media
          /\ cached' = [cached EXCEPT ![d] =
                           CASE c.op = "write" /\ applied          -> @ \cup part
                             [] c.op \in {"flush", "sync"} /\ ok   -> {}
                             [] OTHER                              -> @]

\* The status wrapper, for this command: passed, or failed without harm to the link.
bot_status(t) ==
    LET u == Of(t)
    IN /\ Bot(t, "csw") /\ link[u] = "in"
       /\ device[u].now.cid = unit[u].tag
       /\ \E ok \in BOOLEAN :
             /\ IF ok THEN NoFault ELSE Fault(u)
             /\ Carried(u, ok)
             /\ Answer(t, IF ok THEN "ok" ELSE "io",
                       IF task[t].op = "read" THEN device[u].latch ELSE <<>>, unit, disks)
       /\ device' = [device EXCEPT ![u] = NewDevice]
       /\ UNCHANGED link

\* Status first, data with streams, then the command.
uas_begin(t) ==
    LET u == Of(t)
        c == Asks(t, 0)
        data == unit[u].streams /\ c.n > 0
    IN /\ task[t].pc = "submit" /\ Kind[u] = "uas" /\ lock["bot"] = t
       /\ link[u] = "in"
       /\ unit' = [unit EXCEPT ![u] = [@ EXCEPT !.command = "armed", !.status = "armed",
                      !.data = IF data THEN "armed" ELSE IF c.n = 0 THEN "taken" ELSE "idle",
                      !.started = data, !.sense = "none"]]
       /\ device' = [device EXCEPT ![u].now = c, ![u].stage = "idle"]
       /\ task' = [task EXCEPT ![t].pc = "uas"]
       /\ NoFault
       /\ UNCHANGED <<disks, count, link, found, scanned, usb_disks, lock, media, cached, may, ops>>
uas_offline(t) ==
    /\ task[t].pc = "submit" /\ Kind[Of(t)] = "uas" /\ lock["bot"] = t
    /\ link[Of(t)] # "in"
    /\ Answer(t, "io", <<>>, unit, disks)
    /\ NoFault
    /\ UNCHANGED <<device, link, media, cached>>

\* The result of one pipe is there.
uas_result(t) ==
    LET u == Of(t)
        n == device[u].now.n
    IN /\ task[t].pc = "uas"
       /\ link[u] = "in"
       /\ \/ /\ unit[u].command = "done"
             /\ unit' = [unit EXCEPT ![u].command = "taken"]
          \/ /\ unit[u].data = "done"
             /\ unit' = [unit EXCEPT ![u].data = "taken"]
          \/ /\ unit[u].status = "done" /\ unit[u].sense = "ready"
             /\ unit' = [unit EXCEPT ![u].status = "armed", ![u].data = "armed", ![u].started = TRUE]
          \/ /\ unit[u].status = "done" /\ unit[u].sense # "ready"
             /\ unit[u].sense = "bad" => ~unit[u].started \/ unit[u].data = "taken"
             /\ unit' = [unit EXCEPT ![u].status = "taken",
                                     ![u].data = IF unit[u].sense = "bad" THEN "taken" ELSE @]
       /\ NoFault
       /\ UNCHANGED <<disks, count, device, link, found, scanned, usb_disks, lock, task, media,
                      cached, may, ops>>

\* An error status while the data are still queued: the link cannot be used again.
uas_cut(t) ==
    LET u == Of(t)
    IN /\ task[t].pc = "uas" /\ link[u] = "in"
       /\ unit[u].status = "done" /\ unit[u].sense = "bad"
       /\ unit[u].started /\ unit[u].data # "taken"
       /\ link' = [link EXCEPT ![u] = "dead"]
       /\ Answer(t, "io", <<>>, unit, disks)
       /\ NoFault
       /\ UNCHANGED <<device, media, cached>>

uas_end(t) ==
    LET u == Of(t)
    IN /\ task[t].pc = "uas" /\ link[u] = "in"
       /\ {unit[u].command, unit[u].data, unit[u].status} = {"taken"}
       /\ Answer(t, IF unit[u].sense = "good" THEN "ok" ELSE "io",
                 IF task[t].op = "read" THEN device[u].latch ELSE <<>>,
                 [unit EXCEPT ![u] = [NewUnit(u) EXCEPT !.streams = unit[u].streams]], disks)
       /\ device' = [device EXCEPT ![u] = NewDevice]
       /\ NoFault
       /\ UNCHANGED <<link, media, cached>>

\* The device takes the command, says it is ready for the data, moves them, reports.
UasServes(u) ==
    LET c == device[u].now
        moved == unit[u].data \in {"done", "taken"}
    IN /\ Kind[u] = "uas" /\ link[u] = "in"
       /\ \/ /\ unit[u].command = "armed"
             /\ unit' = [unit EXCEPT ![u].command = "done"]
             /\ device' = [device EXCEPT ![u].stage = "begun"]
             /\ NoFault
             /\ UNCHANGED <<media, cached>>
          \/ /\ device[u].stage = "begun" /\ unit[u].status = "armed"
             /\ ~unit[u].streams /\ ~moved /\ ~unit[u].started
             /\ unit' = [unit EXCEPT ![u].status = "done", ![u].sense = "ready"]
             /\ NoFault
             /\ UNCHANGED <<device, media, cached>>
          \/ /\ device[u].stage = "begun" /\ unit[u].data = "armed"
             /\ unit' = [unit EXCEPT ![u].data = "done"]
             /\ device' = [device EXCEPT ![u].latch =
                              IF c.op = "read" THEN Stored(u, c)
                              ELSE Same(c)]
             /\ NoFault
             /\ UNCHANGED <<media, cached>>
          \/ /\ device[u].stage = "begun" /\ unit[u].status = "armed"
             /\ \E ok \in BOOLEAN :
                   /\ IF ok THEN moved /\ NoFault ELSE Fault(u)
                   /\ IF moved THEN Carried(u, ok) ELSE UNCHANGED <<media, cached>>
                   /\ unit' = [unit EXCEPT ![u].status = "done",
                                           ![u].sense = IF ok THEN "good" ELSE "bad"]
             /\ device' = [device EXCEPT ![u].stage = "idle"]
       /\ UNCHANGED <<disks, count, link, found, scanned, usb_disks, lock, task, may, ops>>

Plug(u) ==
    /\ link[u] = "out"
    /\ link' = [link EXCEPT ![u] = "in"]
    /\ found' = Append(found, u)
    /\ \E streams \in BOOLEAN :
          unit' = IF Kind[u] = "uas" THEN [unit EXCEPT ![u].streams = streams] ELSE unit
    /\ UNCHANGED <<disks, count, device, scanned, usb_disks, lock, task, media, cached, may,
                   faulty, ops, faults>>
Unplug(u) ==
    /\ link[u] = "in"
    /\ link' = [link EXCEPT ![u] = "dead"]
    /\ Fault(u)
    /\ UNCHANGED <<disks, count, unit, device, found, scanned, usb_disks, lock, task, media, cached,
                   may, ops>>

-----------------------------------------------------------------------------
(* usb_storage_init, by the hotplug worker and at boot *)

Gone(u) == link[u] # "in" /\ \E i \in 0 .. count - 1 : disks[i].unit = u /\ disks[i].online
Unscanned == scanned < Len(found) \/ \E u \in Range(usb_disks) : Gone(u)

usb_storage_init(t) ==
    /\ task[t].pc = "idle" /\ Booted
    /\ t = Worker
    /\ Unscanned
    /\ lock["scan"] = Nobody
    /\ lock' = [lock EXCEPT !["scan"] = t]
    /\ task' = [task EXCEPT ![t] = [Rest EXCEPT !.op = "scan", !.pc = "detach", !.from = 1]]
    /\ UNCHANGED <<disks, count, unit, device, link, found, scanned, usb_disks, media, cached, may,
                   faulty, ops, faults>>

\* Disks whose link is gone go offline, one after the other.
storage_detach_usb(t) ==
    LET f == task[t]
        u == usb_disks[f.from]
    IN /\ f.pc = "detach"
       /\ IF f.from > Len(usb_disks)
          THEN task' = [task EXCEPT ![t].pc = "links"] /\ UNCHANGED disks
          ELSE /\ link[u] # "in" => lock["storage"] = Nobody
               /\ disks' = IF link[u] = "in" THEN disks ELSE Offline(disks, {u})
               /\ task' = [task EXCEPT ![t].from = @ + 1]
       /\ UNCHANGED <<count, unit, device, link, found, scanned, usb_disks, lock, media, cached, may,
                      faulty, ops, faults>>

\* The next link that was not looked at; when there is none, or no room, the scan is over.
scan_link(t) ==
    LET f == task[t]
        u == found[scanned + 1]
        ends == scanned = Len(found) \/ Len(usb_disks) = DISKS
    IN /\ f.pc = "links"
       /\ scanned' = IF ends THEN scanned ELSE scanned + 1
       /\ lock' = IF ends THEN Released("scan", t) ELSE lock
       /\ task' = [task EXCEPT ![t] =
              IF ends THEN Rest
              ELSE IF link[u] # "in" THEN f
              ELSE [f EXCEPT !.pc = "bot", !.unit = u, !.n = 0,
                             !.todo = <<"ready", "inquiry", "capacity", "sync">>]]
       /\ UNCHANGED <<disks, count, unit, device, link, found, usb_disks, media, cached, may, faulty,
                      ops, faults>>

storage_attach_usb(t) ==
    LET f == task[t]
    IN /\ f.pc = "attach"
       /\ lock["storage"] = Nobody
       /\ IF count = DISKS
          THEN /\ link' = [link EXCEPT ![f.unit] = "dead"]
               /\ task' = [task EXCEPT ![t].pc = "links"]
               /\ UNCHANGED <<disks, lock>>
          ELSE /\ lock' = [lock EXCEPT !["storage"] = t]
               /\ disks' = disk_add(disks, "usb", "none", 1, FALSE)
               /\ task' = [task EXCEPT ![t].pc = "count", ![t].disk = count]
               /\ UNCHANGED link
       /\ UNCHANGED <<count, unit, device, found, scanned, usb_disks, media, cached, may, faulty, ops,
                      faults>>
attach_counted(t) ==
    LET f == task[t]
    IN /\ f.pc = "count"
       /\ disks' = [disks EXCEPT ![f.disk].unit = IF disks[f.disk].kind = "usb" THEN f.unit ELSE @,
                                 ![f.disk].flush = f.e = "ok"]
       /\ count' = count + 1
       /\ lock' = Released("storage", t)
       /\ task' = [task EXCEPT ![t].pc = "links"]
       /\ UNCHANGED <<unit, device, link, found, scanned, usb_disks, media, cached, may, faulty, ops,
                      faults>>

\* RAM disks are added without the lock.
k_ramdisk_create(t) ==
    /\ task[t].pc = "idle" /\ Booted
    /\ count < DISKS
    /\ \E r \in Rams :
          /\ \A s \in Tasks : task[s].unit # r
          /\ \A i \in Slot : disks[i].unit # r
          /\ disks' = disk_add(disks, "ram", "none", 1, FALSE)
          /\ task' = [task EXCEPT ![t] = [Rest EXCEPT !.op = "ram", !.pc = "ram", !.unit = r,
                                                      !.disk = count]]
    /\ UNCHANGED <<count, unit, device, link, found, scanned, usb_disks, lock, media, cached, may,
                   faulty, ops, faults>>
ramdisk_counted(t) ==
    LET f == task[t]
    IN /\ f.pc = "ram"
       /\ disks' = [disks EXCEPT ![f.disk].unit = IF disks[f.disk].kind = "ram" THEN f.unit ELSE @]
       /\ count' = count + 1
       /\ task' = [task EXCEPT ![t].pc = "done"]
       /\ UNCHANGED <<unit, device, link, found, scanned, usb_disks, lock, media, cached, may, faulty,
                      ops, faults>>

-----------------------------------------------------------------------------
(* The calls of file systems and programs *)

\* The checks before the lock is taken; a disk of the bus has a flush command.
disk_range(op, i, from, n) ==
    /\ i < count
    /\ op # "flush" => disks[i].online /\ n > 0
    /\ op = "flush" => n = 0 /\ from = 0
    /\ from + n <= SECTORS
    /\ op = "write" => disks[i].kind = "ram" \/ disks[i].flush
    /\ op = "raw" => disks[i].kind = "ram"
Call(t) ==
    /\ task[t].pc = "idle" /\ Booted
    /\ ops < OPS
    /\ \E op \in {"read", "write", "raw", "flush"}, i \in Slot,
          from \in Sector, n \in 0 .. SECTORS :
          /\ t = Worker => op = "read"
          /\ disk_range(op, i, from, n)
          /\ task' = [task EXCEPT ![t] = [Rest EXCEPT !.op = op, !.pc = "lock", !.disk = i,
                                              !.from = from, !.n = n,
                                              !.value = IF op \in {"write", "raw"} THEN ops + 1 ELSE 0]]
    /\ ops' = ops + 1
    /\ UNCHANGED <<disks, count, unit, device, link, found, scanned, usb_disks, lock, media, cached,
                   may, faulty, faults>>

\* The lock is free: an answer at once, or the first command to the device.
Locked(t, op) == task[t].pc = "lock" /\ task[t].op = op /\ lock["storage"] = Nobody
AtOnce(t, e, values) ==
    /\ task' = [task EXCEPT ![t] = [@ EXCEPT !.pc = "done", !.e = e, !.values = values]]
    /\ UNCHANGED lock
Begins(t) ==
    /\ task' = [task EXCEPT ![t].pc = "submit"]
    /\ lock' = [lock EXCEPT !["storage"] = t]
LockedRest == UNCHANGED <<disks, count, unit, device, link, found, scanned, usb_disks, cached, faulty,
                          ops, faults>>

k_disk_read(t) ==
    LET f == task[t]
        d == disks[f.disk]
    IN /\ Locked(t, "read")
       /\ IF ~d.online THEN AtOnce(t, "io", <<>>)
          ELSE IF d.kind = "ram"
               THEN AtOnce(t, "ok", [i \in 1 .. f.n |-> media[Drive(t)][f.from + i - 1]])
               ELSE Begins(t)
       /\ LockedRest /\ UNCHANGED <<media, may>>

RamCopied(t) ==
    LET f == task[t]
        With(old, new) == [s \in Sector |-> IF s \in f.from .. f.from + f.n - 1 THEN new ELSE old[s]]
    IN /\ media' = [media EXCEPT ![Drive(t)] = With(@, f.value)]
       /\ may' = [may EXCEPT ![Drive(t)] = With(@, {f.value})]
       /\ AtOnce(t, "ok", <<>>)

\* The public call writes to RAM disks only, and does not look whether they are online.
k_disk_write(t) == Locked(t, "raw") /\ RamCopied(t) /\ LockedRest

disk_write_fs(t) ==
    LET f == task[t]
        d == disks[f.disk]
    IN /\ Locked(t, "write")
       /\ IF ~d.online THEN AtOnce(t, "io", <<>>) /\ UNCHANGED <<media, may>>
          ELSE IF d.kind = "ram" THEN RamCopied(t)
          ELSE /\ Begins(t)
               /\ may' = [may EXCEPT ![Drive(t)] = [s \in Sector |->
                             IF s \in f.from .. f.from + f.n - 1 THEN @[s] \cup {f.value} ELSE @[s]]]
               /\ UNCHANGED media
       /\ LockedRest

disk_flush(t) ==
    LET d == disks[task[t].disk]
    IN /\ Locked(t, "flush")
       /\ CASE ~d.online       -> AtOnce(t, "io", <<>>)
            [] d.kind = "ram"  -> AtOnce(t, "ok", <<>>)
            [] ~d.flush        -> AtOnce(t, "rofs", <<>>)
            [] OTHER           -> Begins(t)
       /\ LockedRest /\ UNCHANGED <<media, may>>

Return(t) ==
    /\ task[t].pc = "done"
    /\ task' = [task EXCEPT ![t] = Rest]
    /\ UNCHANGED <<disks, count, unit, device, link, found, scanned, usb_disks, lock, media, cached,
                   may, faulty, ops, faults>>

-----------------------------------------------------------------------------
Probes(t) == task[t].op = "probe" /\ task[t].pc = "probe"
Waits(t) == task[t].pc \in {"submit", "wait", "finish", "bot", "cbw", "data", "csw", "uas"}

Step(t) ==
    \/ Probes(t) /\ (nvme_probe(t) \/ ahci_probe(t) \/ ata_probe(t))
    \/ Waits(t) /\ \/ Refused(t)
                   \/ nvme_submit(t) \/ nvme_completion(t) \/ nvme_timeout(t)
                   \/ ahci_issue(t) \/ ahci_completion(t) \/ ahci_timeout(t)
                   \/ ata_command(t) \/ ata_data(t) \/ ata_end(t) \/ ata_wait_fails(t)
                   \/ usb_lock(t) \/ broken(t)
                   \/ bot_begin(t) \/ bot_command(t) \/ bot_data(t) \/ bot_status(t)
                   \/ uas_begin(t) \/ uas_offline(t) \/ uas_result(t) \/ uas_cut(t) \/ uas_end(t)
    \/ usb_storage_init(t) \/ storage_detach_usb(t) \/ scan_link(t)
    \/ storage_attach_usb(t) \/ attach_counted(t) \/ ramdisk_counted(t)
    \/ k_disk_read(t) \/ k_disk_write(t) \/ disk_write_fs(t) \/ disk_flush(t) \/ Return(t)
Serves(u) == Executes(u) \/ AtaServes(u) \/ UasServes(u)

\* Nobody wants anything; the worker sleeps between two scans.
Sleeps == (\A t \in Tasks : task[t].pc = "idle") /\ UNCHANGED vars

Next ==
    /\ \/ Sleeps
       \/ \E t \in Tasks : Step(t) \/ Call(t) \/ k_ramdisk_create(t)
       \/ \E u \in Units : Serves(u)
       \/ \E u \in Links : Plug(u) \/ Unplug(u)
    /\ UNCHANGED machine

\* A task that can go on without a timeout; a device that has something to do.
Runnable(t) ==
    LET f == task[t]
        u == Of(t)
    IN CASE f.pc = "idle" -> t = Worker /\ Unscanned
         [] f.pc \in {"lock", "attach"} -> lock["storage"] = Nobody
         [] f.pc = "detach" -> \/ f.from > Len(usb_disks)
                               \/ link[usb_disks[f.from]] = "in"
                               \/ lock["storage"] = Nobody
         [] f.pc \in {"bot", "submit"} /\ u \in Links -> lock["bot"] \in {Nobody, t}
         [] f.pc = "submit" /\ Kind[u] = "ata" -> Closed(u) \/ unit[u].status \in {"ready", "error"}
         [] f.pc = "wait" /\ Kind[u] = "nvme" ->
                LET q == unit[u][QueueOf(t)] IN q.cq[q.head].phase = q.phase
         [] f.pc = "wait" /\ Kind[u] = "ahci" -> ~unit[u].ci
         [] f.pc = "wait" /\ Kind[u] = "ata" -> unit[u].status \in {"drq", "error"}
         [] f.pc = "finish" -> unit[u].status \in {"ready", "error"}
         [] f.pc = "uas" ->
                LET pipes == {unit[u].command, unit[u].data, unit[u].status}
                IN link[u] # "in" \/ "done" \in pipes \/ pipes = {"taken"}
         [] OTHER -> TRUE
Busy(u) ==
    CASE Kind[u] \in {"nvme", "ahci"} -> unit[u].dma /\ device[u].pending # {}
      [] Kind[u] = "ata" -> unit[u].status = "busy"
      [] Kind[u] = "uas" -> /\ link[u] = "in"
                            /\ \/ unit[u].command = "armed"
                               \/ device[u].stage = "begun" /\ "armed" \in {unit[u].data, unit[u].status}
      [] OTHER -> FALSE

\* Every task runs, and the devices that are not at fault go on.
Spec == Init /\ [][Next]_vars
FairSpec == /\ Spec
            /\ \A t \in Tasks : []<>~Runnable(t) \/ []<><<Step(t)>>_vars
            /\ \/ []<>(\A u \in Units : ~Busy(u))
               \/ []<><<\E u \in Units : Serves(u)>>_vars

-----------------------------------------------------------------------------
\* What k_disk_read, disk_write_fs and disk_flush say is true when they return without an error:
\* the data read are those of the last write to each sector, or of a write that failed after it,
\* whatever devices did with commands that were given up; and after a flush nothing written to the
\* disk is in its cache any more.
AnswersAreTrue ==
    [][\A t \in Tasks :
          LET f == task'[t]
              d == <<disks[f.disk].unit, disks[f.disk].space>>
          IN task[t].pc # "done" /\ f.pc = "done" /\ f.e = "ok" =>
                /\ f.op = "read" => /\ Len(f.values) = f.n
                                    /\ \A i \in 1 .. f.n : f.values[i] \in may[d][f.from + i - 1]
                /\ f.op = "flush" => cached'[d] = {}]_vars

\* A disk goes offline only after something went wrong on its channel: queues that wrap, late polls
\* and the failures of other controllers never take a working disk out of use.
HealthyStaysOnline ==
    /\ \A u \in Units : unit[u].dead => Channel[u] \in faulty
    /\ \A i \in 0 .. count - 1 : disks[i].online \/ Channel[disks[i].unit] \in faulty

\* Every call returns and every scan ends: the order storage_mutex, bot_lock of the disk calls and
\* scan_lock, bot_lock, storage_mutex of usb_storage_init never make them wait for each other, and
\* no device keeps its caller for ever.
CallsReturn == \A t \in Tasks : []<>(task[t].pc = "idle")
=============================================================================
