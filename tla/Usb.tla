-------------------------------- MODULE Usb --------------------------------
(***************************************************************************)
(* The xHCI driver (drivers/usb/xhci.c): one controller, its root ports    *)
(* and a hub behind one of them.  Whatever touches the controller holds    *)
(* input_transport_lock, so the driver is one thread; the stack of frames  *)
(* below is its call stack.  It waits for the controller with the lock     *)
(* held, and meanwhile devices come and go, transfers complete, and the    *)
(* controller reads and writes the pages it has been told about.           *)
(*                                                                         *)
(* There is one command or control transfer at a time and one transfer per *)
(* endpoint, so the rings never fill and are left out; an endpoint has one *)
(* pipe, and a device one interface.  A hub port reset with the polls that *)
(* follow it is one request.  Nothing is plugged in or out before the ports *)
(* have been looked at once at boot; see the README for what happens then. *)
(***************************************************************************)
EXTENDS Integers, FiniteSetsExt, SequencesExt

CONSTANTS
    RootPorts,  \* the root ports, in order
    HubPorts,   \* the ports of a hub, in order
    Kinds,      \* what is plugged into a root port: "hid", "disk" or "hub"
    Leaves,     \* what is plugged into a hub port
    SLOTS,      \* device slots of the controller
    PAGES,      \* pages below 4 GiB
    ENDS,       \* USB_RAW_ENDPOINTS and USB_BULK_LINKS
    RING,       \* transfers that fit into a ring (255)
    PLUGS,      \* bound: how often something is plugged in
    FAULTS      \* bound: errors, lost answers and failed allocations

ASSUME UsbAssumption ==
    /\ {SLOTS, PAGES, ENDS, RING} \subseteq Nat \ {0} /\ {PLUGS, FAULTS} \subseteq Nat

VARIABLES
    port,    \* what is plugged where: a device number or 0, its kind, and whether that changed
    hw,      \* the slots of the controller
    request, \* the commands and control transfers it has not answered, in order
    xfers,   \* the transfers of endpoints it has not completed
    events,  \* the event ring
    failed,  \* xhci_failed
    wait,    \* the type of event xhci_wait_event waits for, or 0
    answer,  \* what it returned
    stack,   \* the calls in progress, innermost first
    devices, \* xhci_current->devices
    ends,    \* usb_endpoints and bulk_links
    known,   \* root_connected, and connected of the hub
    hub_port,\* the cursor of xhci_scan_hubs
    free,    \* the free pages
    plugs, faults

vars == <<port, hw, request, xfers, events, failed, wait, answer, stack, devices, ends, known,
          hub_port, free, plugs, faults>>
world == <<port, plugs>>
controller == <<hw, request, xfers, events>>
asking == <<wait, answer>>
tables == <<devices, ends, known, hub_port>>

Roots == Range(RootPorts)
Places == Roots \cup Range(HubPorts)
Slots == 1 .. SLOTS

COMMAND == 33
TRANSFER == 32

Off == [on |-> FALSE, dev |-> 0, halted |-> FALSE, pages |-> {}]
NoDevice == [active |-> FALSE, place |-> RootPorts[1], parent |-> 0, dev |-> 0, hub |-> FALSE,
             pages |-> {}]

\* An event: what a hub says of a port is part of it, and what a device says it is.
Event(type, slot, ok) ==
    [type |-> type, slot |-> slot, kind |-> "control", trb |-> 0, ok |-> ok,
     connected |-> FALSE, changed |-> FALSE, what |-> ""]
NoEvent == Event(0, 0, FALSE)

\* A call in progress: what it still has to do, whether it waits for an answer,
\* and the pages it holds: those of the device, of the endpoint it configures,
\* and the input context.
Frame(proc, place, root, parent, slot, todo) ==
    [proc |-> proc, place |-> place, root |-> root, parent |-> parent, slot |-> slot, todo |-> todo,
     asked |-> FALSE, connected |-> {}, pages |-> {}, own |-> {}, ctx |-> {}]
Call(proc, todo) == Frame(proc, RootPorts[1], RootPorts[1], 0, 0, todo)

Init ==
    /\ \E k \in Kinds \cup {"nothing"} :
         /\ port = [p \in Places |->
                      IF p = RootPorts[1] /\ k # "nothing"
                      THEN [dev |-> 1, kind |-> k, changed |-> TRUE]
                      ELSE [dev |-> 0, kind |-> "hid", changed |-> FALSE]]
         /\ plugs = IF k = "nothing" THEN 0 ELSE 1
    /\ hw = [s \in Slots |-> Off]
    /\ request = <<>> /\ xfers = {} /\ events = <<>>
    /\ failed = FALSE /\ wait = 0 /\ answer = NoEvent
    /\ stack = <<Call("boot", RootPorts)>>
    /\ devices = [s \in Slots |-> NoDevice]
    /\ ends = <<>>
    /\ known = [p \in Places |-> FALSE]
    /\ hub_port = 1
    /\ free = 1 .. PAGES
    /\ faults = 0

Fault(is) == /\ is => faults < FAULTS
             /\ faults' = IF is THEN faults + 1 ELSE faults

-----------------------------------------------------------------------------
(* Events.  The operators return the endpoints and the transfers in d.     *)

Now == [ends |-> ends, xfers |-> xfers, routed |-> FALSE]

Submitted(d, i) ==
    LET e == d.ends[i]
        trb == (e.trb + 1) % RING
    IN [d EXCEPT !.ends[i].busy = TRUE, !.ends[i].done = FALSE, !.ends[i].trb = trb,
                 !.xfers = @ \cup {[slot |-> e.slot, kind |-> e.kind, trb |-> trb]}]

xhci_queue_raw(d, i) ==
    LET e == d.ends[i]
    IN IF e.kind = "raw" /\ ~e.busy /\ e.enabled /\ e.online /\ ~failed THEN Submitted(d, i) ELSE d

\* The endpoint a completion belongs to: a bulk link that waits for it, or an
\* interrupt endpoint that is online.
Owners(d, v) ==
    {i \in DOMAIN d.ends :
        LET e == d.ends[i]
        IN /\ v.type = TRANSFER /\ e.online /\ e.slot = v.slot /\ e.kind = v.kind
           /\ e.kind = "bulk" => e.busy /\ ~e.done /\ e.trb = v.trb}

\* xhci_route_raw and xhci_route_bulk.
xhci_route(d, v) ==
    LET i == Min(Owners(d, v))
        e == d.ends[i]
        taken == [d EXCEPT !.routed = TRUE]
    IN CASE Owners(d, v) = {} -> [d EXCEPT !.routed = FALSE]
         [] e.kind = "bulk" -> [taken EXCEPT !.ends[i].done = TRUE]
         [] ~e.busy -> taken
         [] v.trb # e.trb \/ ~v.ok ->
                [taken EXCEPT !.ends[i].busy = FALSE, !.ends[i].online = FALSE]
         [] OTHER -> xhci_queue_raw([taken EXCEPT !.ends[i].busy = FALSE], i)

\* An interrupt endpoint behind a root port that lost its connection goes offline.
Lost(d, i) ==
    LET e == d.ends[i]
    IN e.kind = "raw" /\ e.online /\ (failed \/ port[e.root].dev = 0)

xhci_pump_raw ==
    LET queued == FoldLeft(xhci_queue_raw, Now, [i \in DOMAIN ends |-> i])
        drained == FoldLeft(xhci_route, queued, events)
    IN [drained EXCEPT !.ends =
          [i \in DOMAIN @ |-> [@[i] EXCEPT !.online = @ /\ ~Lost(drained, i)]]]

Pumps == /\ ends' = xhci_pump_raw.ends /\ xfers' = xhci_pump_raw.xfers
         /\ events' = <<>>

-----------------------------------------------------------------------------
(* The controller and the devices.                                         *)

Serving(s) == \E p \in Places : hw[s].dev # 0 /\ port[p].dev = hw[s].dev

\* A command.  It fails where the device is gone or a fault makes it fail; a
\* failed one may still have taken up the pages.
Executes(q) ==
    LET s == q.slot
        gone == CASE q.op = "disable" -> FALSE
                  [] q.op = "address" -> port[q.place].dev = 0
                  [] OTHER -> ~Serving(s)
        stops(ok) == ok /\ q.op = "disable"
    IN \E ok \in BOOLEAN :
         /\ gone => ~ok
         /\ Fault(~ok /\ ~gone)
         /\ hw' = [hw EXCEPT ![s] =
                     IF stops(ok) THEN Off
                     ELSE [@ EXCEPT !.pages = @ \cup q.adds,
                                    !.dev = IF q.op = "address" THEN port[q.place].dev ELSE @]]
         /\ xfers' = {x \in xfers : x.slot # s \/ ~stops(ok)}
         /\ request' = SelectSeq(request, LAMBDA r : r # q /\ (r.slot # s \/ ~stops(ok)))
         /\ events' = Append(events, Event(COMMAND, s, ok))
         /\ UNCHANGED port

Enables(q) ==
    /\ \/ \E s \in Slots :
            /\ ~hw[s].on
            /\ \A o \in 1 .. (s - 1) : hw[o].on
            /\ hw' = [hw EXCEPT ![s] = [Off EXCEPT !.on = TRUE]]
            /\ events' = Append(events, Event(COMMAND, s, TRUE))
       \/ /\ \A s \in Slots : hw[s].on
          /\ hw' = hw
          /\ events' = Append(events, Event(COMMAND, 0, FALSE))
    /\ request' = Remove(request, q)
    /\ UNCHANGED <<port, xfers, faults>>

\* A control transfer; after an error the endpoint is halted and answers no more.
Transfers(q) ==
    \E ok \in BOOLEAN :
      /\ ~Serving(q.slot) => ~ok
      /\ Fault(~ok /\ Serving(q.slot))
      /\ hw' = [hw EXCEPT ![q.slot].halted = ~ok]
      /\ events' = Append(events,
                     [Event(TRANSFER, q.slot, ok) EXCEPT !.connected = port[q.place].dev # 0,
                                                         !.changed = port[q.place].changed,
                                                         !.what = port[q.place].kind])
      /\ port' = [port EXCEPT ![q.place].changed = @ /\ ~(ok /\ q.op = "acknowledge")]
      /\ request' = Remove(request, q)
      /\ UNCHANGED xfers

\* Commands are taken in order, and so are the transfers of a slot.
Answerable(i) ==
    LET q == request[i]
    IN /\ q.type = TRANSFER => ~hw[q.slot].halted
       /\ \A j \in 1 .. (i - 1) :
            request[j].type # q.type \/ (q.type = TRANSFER /\ request[j].slot # q.slot)

Controller ==
    /\ \E i \in DOMAIN request :
         LET q == request[i]
         IN /\ Answerable(i)
            /\ CASE q.op = "enable" -> Enables(q)
                 [] q.type = TRANSFER -> Transfers(q)
                 [] OTHER -> Executes(q)
    /\ UNCHANGED <<failed, asking, stack, tables, free, plugs>>

\* A transfer of an endpoint completes, with an error where the device is gone.
Completes(x) ==
    /\ \E ok \in BOOLEAN :
         /\ ~Serving(x.slot) => ~ok
         /\ Fault(~ok /\ Serving(x.slot))
         /\ events' = Append(events, [Event(TRANSFER, x.slot, ok) EXCEPT !.kind = x.kind,
                                                                        !.trb = x.trb])
    /\ xfers' = xfers \ {x}
    /\ UNCHANGED <<world, hw, request, failed, asking, stack, tables, free>>

Booting == stack # <<>> /\ Last(stack).proc = "boot"

Plug(p, kind) ==
    /\ ~Booting
    /\ plugs < PLUGS
    /\ port[p].dev = 0
    /\ p \notin Roots => \E r \in Roots : port[r].dev # 0 /\ port[r].kind = "hub"
    /\ kind = "hub" => \A r \in Roots : port[r].dev = 0 \/ port[r].kind # "hub"
    /\ plugs' = plugs + 1
    /\ port' = [port EXCEPT ![p] = [dev |-> plugs + 1, kind |-> kind, changed |-> TRUE]]
    /\ UNCHANGED <<controller, failed, asking, stack, tables, free, faults>>

\* What is behind a hub goes with it.
Unplug(p) ==
    /\ ~Booting
    /\ port[p].dev # 0
    /\ port' = [q \in Places |->
                  IF q = p \/ (port[p].kind = "hub" /\ q \notin Roots)
                  THEN [port[q] EXCEPT !.dev = 0, !.changed = q = p] ELSE port[q]]
    /\ UNCHANGED <<plugs, controller, failed, asking, stack, tables,
                   free, faults>>

-----------------------------------------------------------------------------
(* Asking the controller.  Once it has failed no doorbell is rung.         *)

\* Enqueues a request and waits; ctx are the pages it reads or writes for the
\* request only, adds the ones it keeps until the slot is disabled.
Ask(type, op, slot, place, ctx, adds) ==
    /\ answer' = NoEvent
    /\ IF failed THEN UNCHANGED <<request, wait>>
       ELSE /\ request' = Append(request, [type |-> type, op |-> op, slot |-> slot, place |-> place,
                                           ctx |-> ctx, adds |-> adds])
            /\ wait' = type
Quiet == UNCHANGED <<answer, request, wait>>

\* Any event of the type waited for that no endpoint claims is the answer.
xhci_wait_event ==
    /\ wait # 0 /\ events # <<>>
    /\ LET v == Head(events)
           d == xhci_route(Now, v)
       IN /\ ends' = d.ends /\ xfers' = d.xfers
          /\ events' = Tail(events)
          /\ IF ~d.routed /\ v.type = wait
             THEN wait' = 0 /\ answer' = v
             ELSE UNCHANGED <<wait, answer>>
    /\ UNCHANGED <<world, hw, request, failed, stack, devices, known, hub_port,
                   free, faults>>

\* A halted endpoint never answers; anything else that does not is a fault.
xhci_wait_timeout ==
    /\ wait # 0 /\ events = <<>>
    /\ Fault(\E i \in DOMAIN request : Answerable(i))
    /\ failed' = TRUE /\ wait' = 0 /\ answer' = NoEvent
    /\ UNCHANGED <<world, controller, stack, tables, free>>

-----------------------------------------------------------------------------
(* Removing a device.                                                      *)

At(proc) == wait = 0 /\ stack # <<>> /\ Head(stack).proc = proc
top == Head(stack)
Replaced(f) == stack' = <<f>> \o Tail(stack)
Pushed(f) == stack' = <<f>> \o stack
Returned == stack' = Tail(stack)

Children(s) == {c \in Slots : devices[c].active /\ devices[c].parent = s}
Removal(s) == [Call("remove", <<>>) EXCEPT !.slot = s]

\* xhci_remove_slot up to its command: children first, then every endpoint goes
\* offline and the slot is disabled.
RemoveBegins ==
    LET s == top.slot
        offline == [i \in DOMAIN ends |->
                      IF ends[i].slot # s THEN ends[i]
                      ELSE [ends[i] EXCEPT !.online = FALSE, !.enabled = FALSE,
                                           !.busy = @ /\ ends[i].kind = "bulk"]]
    IN /\ At("remove") /\ ~top.asked
       /\ IF failed THEN ends' = offline /\ Returned /\ Quiet
          ELSE IF Children(s) # {} THEN Pushed(Removal(Min(Children(s)))) /\ Quiet /\ UNCHANGED ends
          ELSE /\ ends' = offline
               /\ Ask(COMMAND, "disable", s, top.place, {}, {})
               /\ Replaced([top EXCEPT !.asked = TRUE])
       /\ UNCHANGED <<world, hw, xfers, events, failed, devices, known, hub_port, free, faults>>

\* Mutant: the pages are freed although the slot may not be disabled.
Stopped_Assumed == TRUE

\* The Disable Slot command is known to have been executed.
Stopped == answer.ok

\* The rest of xhci_remove_slot: without a verified stop every page is kept.
RemoveEnds ==
    LET s == top.slot
        mine == {i \in DOMAIN ends : ends[i].slot = s}
    IN /\ At("remove") /\ top.asked
       /\ failed' = (failed \/ ~answer.ok)
       /\ IF Stopped
          THEN /\ ends' = [i \in DOMAIN ends |->
                              IF i \in mine THEN [ends[i] EXCEPT !.pages = {}, !.slot = 0]
                              ELSE xhci_pump_raw.ends[i]]
               /\ xfers' = xhci_pump_raw.xfers /\ events' = <<>>
               /\ free' = free \cup devices[s].pages \cup UNION {ends[i].pages : i \in mine}
               /\ devices' = [devices EXCEPT ![s] = NoDevice]
          ELSE UNCHANGED <<ends, xfers, events, free, devices>>
       /\ Returned
       /\ UNCHANGED <<world, hw, request, asking, known, hub_port, faults>>

-----------------------------------------------------------------------------
(* xhci_probe_device with the functions it calls.                          *)

Begin == <<"enable", "address", "read", "evaluate", "describe">>

\* What is left once the device has said what it is.
HubSteps == <<"read", "select", "read", "hub", "power">>
              \o FlattenSeq([i \in DOMAIN HubPorts |->
                                <<"status", "acknowledge", "reset", "child">>])
              \o <<"store">>
xhci_finish_interfaces(kind) ==
    IF kind = "hid" THEN <<"select", "descriptor", "raw">> ELSE <<"select", "bulk">>
Rest(kind) == IF kind = "hub" THEN HubSteps ELSE <<"read", "read">> \o xhci_finish_interfaces(kind)

Probe(place, root, parent) == Frame("probe", place, root, parent, 0, Begin)
Step(names) == At("probe") /\ Head(top.todo) \in names
Done(n) == [top EXCEPT !.todo = SubSeq(@, n + 1, Len(@)), !.asked = FALSE, !.ctx = {}]
Asked == [top EXCEPT !.asked = TRUE]

Device == [active |-> TRUE, place |-> top.place, parent |-> top.parent, dev |-> hw[top.slot].dev,
           hub |-> Head(top.todo) = "store", pages |-> top.pages]

\* The label fail_disable.
Fails == /\ devices' = [devices EXCEPT ![top.slot] = Device]
         /\ Replaced(Removal(top.slot))

\* The device's endpoint: online once the controller has accepted it.
Endpoint(online) ==
    [kind |-> IF Head(top.todo) = "bulk" THEN "bulk" ELSE "raw", slot |-> top.slot,
     root |-> top.root, online |-> online, enabled |-> FALSE, busy |-> FALSE, done |-> FALSE,
     trb |-> 0, pages |-> top.own]

\* The hub port the frame has come to.
HubPort ==
    HubPorts[Len(HubPorts) + 1 - Cardinality({i \in DOMAIN top.todo : top.todo[i] = "child"})]

EnableAsked ==
    /\ Step({"enable"}) /\ ~top.asked
    /\ IF failed THEN Returned /\ Quiet
       ELSE /\ Ask(COMMAND, "enable", 0, top.place, {}, {})
            /\ Replaced(Asked)
    /\ UNCHANGED <<world, hw, xfers, events, failed, tables, free, faults>>

EnableAnswered ==
    /\ Step({"enable"}) /\ top.asked
    /\ IF answer.ok THEN Replaced([Done(1) EXCEPT !.slot = answer.slot]) ELSE Returned
    /\ Quiet
    /\ UNCHANGED <<world, hw, xfers, events, failed, tables, free, faults>>

\* Control transfers without which there is no device.
ControlAsked ==
    /\ Step({"read", "describe", "select"}) /\ ~top.asked
    /\ Ask(TRANSFER, "control", top.slot, top.place, {}, {})
    /\ Replaced(Asked)
    /\ UNCHANGED <<world, hw, xfers, events, failed, tables, free, faults>>

ControlAnswered ==
    /\ Step({"read", "describe", "select"}) /\ top.asked
    /\ IF ~answer.ok THEN Fails
       ELSE /\ UNCHANGED devices
            /\ IF Head(top.todo) # "describe" THEN Replaced(Done(1))
               ELSE \E k \in IF answer.what = "" THEN Kinds ELSE {answer.what} :
                      Replaced([Done(1) EXCEPT !.todo = Rest(k)])
    /\ Quiet
    /\ UNCHANGED <<world, hw, xfers, events, failed, ends, known, hub_port, free, faults>>

First(pages) == {Min(pages)}
Others(pages) == pages \ First(pages)
Lowest(n) == {p \in free : Cardinality({q \in free : q < p}) < n}

\* What each step does with the pages it takes: the first is the input context,
\* which only the command uses.  The device context and the ring of endpoint 0
\* belong to the device, the other rings and the buffers to an endpoint.
xhci_address_device(pages) == [Asked EXCEPT !.ctx = First(pages), !.pages = Others(pages)]
xhci_set_hub_slot_info(pages) == [Asked EXCEPT !.ctx = pages]
EvaluateContext(pages) == [Asked EXCEPT !.ctx = pages]
ReportDescriptor(pages) == [Asked EXCEPT !.own = pages]
xhci_configure_raw(pages) == [Asked EXCEPT !.ctx = First(pages), !.own = @ \cup Others(pages)]
xhci_configure_bulk_pair(pages) == [Asked EXCEPT !.ctx = First(pages), !.own = Others(pages)]

Commands == {"address", "evaluate", "descriptor", "raw", "bulk", "hub"}
Need(step) == IF step \in {"address", "raw", "bulk"} THEN 3 ELSE 1
Taking(step, pages) ==
    CASE step = "address" -> xhci_address_device(pages)
      [] step = "evaluate" -> EvaluateContext(pages)
      [] step = "hub" -> xhci_set_hub_slot_info(pages)
      [] step = "descriptor" -> ReportDescriptor(pages)
      [] step = "raw" -> xhci_configure_raw(pages)
      [] step = "bulk" -> xhci_configure_bulk_pair(pages)

\* No page to be had.  An interrupt endpoint keeps those it got; there is then a
\* handle for it, which frees them with the slot.
AllocationFails ==
    LET step == Head(top.todo)
        got == IF step = "raw" THEN Lowest(2) ELSE {}
    IN /\ Step(Commands) /\ ~top.asked
       /\ Fault(Cardinality(free) >= Need(step) /\ step # "evaluate")
       /\ free' = free \ got
       /\ IF step \in {"evaluate", "descriptor"}
          THEN Replaced(Done(1)) /\ UNCHANGED <<devices, ends>>
          ELSE /\ Fails
               /\ ends' = IF step = "raw" /\ top.own \cup got # {}
                          THEN Append(ends, [Endpoint(FALSE) EXCEPT !.pages = @ \cup got]) ELSE ends
       /\ Quiet
       /\ UNCHANGED <<world, hw, xfers, events, failed, known, hub_port>>

\* All handles are in use.
NoHandle ==
    /\ Step({"descriptor", "bulk"}) /\ ~top.asked
    /\ Len(ends) = ENDS
    /\ Fails
    /\ Quiet
    /\ UNCHANGED <<world, hw, xfers, events, failed, ends, known, hub_port, free, faults>>

CommandAsked ==
    LET step == Head(top.todo)
        pages == Lowest(Need(step))
    IN /\ Step(Commands) /\ ~top.asked
       /\ Cardinality(free) >= Need(step)
       /\ step \in {"descriptor", "bulk"} => Len(ends) < ENDS
       /\ free' = free \ pages
       /\ Replaced(Taking(step, pages))
       /\ IF step = "descriptor" THEN Ask(TRANSFER, "control", top.slot, top.place, pages, {})
          ELSE Ask(COMMAND, step, top.slot, top.place, First(pages), Others(pages))
       /\ UNCHANGED <<world, hw, xfers, events, failed, tables, faults>>

\* The input context is freed unless the controller may still read it; one that
\* Evaluate Context refused is kept for good.
CommandAnswered ==
    LET step == Head(top.todo)
    IN /\ Step(Commands) /\ top.asked
       /\ free' = IF failed \/ (step = "evaluate" /\ ~answer.ok) THEN free ELSE free \cup top.ctx
       /\ ends' = IF step \in {"raw", "bulk"} \/ (step = "descriptor" /\ failed)
                  THEN Append(ends, Endpoint(answer.ok)) ELSE ends
       /\ IF answer.ok \/ (step = "descriptor" /\ ~failed)
          THEN IF step \in {"raw", "bulk"}
               THEN Returned /\ devices' = [devices EXCEPT ![top.slot] = Device]
               ELSE Replaced(Done(1)) /\ UNCHANGED devices
          ELSE Fails
       /\ Quiet
       /\ UNCHANGED <<world, hw, xfers, events, failed, known, hub_port, faults>>

\* What is asked of a hub while its ports are looked at for the first time.
PortAsked ==
    /\ Step({"power", "status", "acknowledge", "reset"}) /\ ~top.asked
    /\ Ask(TRANSFER, Head(top.todo), top.slot,
           IF Head(top.todo) = "power" THEN HubPorts[1] ELSE HubPort, {}, {})
    /\ Replaced(Asked)
    /\ UNCHANGED <<world, hw, xfers, events, failed, tables, free, faults>>

PortAnswered ==
    LET step == Head(top.todo)
        there == answer.ok /\ answer.connected
    IN /\ Step({"power", "status", "acknowledge", "reset"}) /\ top.asked
       /\ Replaced(CASE step \in {"power", "acknowledge"} -> Done(1)
                     [] step = "status" /\ ~there -> Done(4)
                     [] step = "status" -> [Done(1) EXCEPT !.connected = @ \cup {HubPort}]
                     [] OTHER -> Done(IF there THEN 1 ELSE 2))
       /\ Quiet
       /\ UNCHANGED <<world, hw, xfers, events, failed, tables, free, faults>>

\* A device behind the hub; when the controller failed meanwhile the hub is not recorded.
ChildProbed ==
    /\ Step({"child"})
    /\ IF ~top.asked THEN stack' = <<Probe(HubPort, top.root, top.slot), Asked>> \o Tail(stack)
       ELSE IF failed THEN Returned
       ELSE Replaced(Done(1))
    /\ Quiet
    /\ UNCHANGED <<world, hw, xfers, events, failed, tables, free, faults>>

HubStored ==
    /\ Step({"store"})
    /\ devices' = [devices EXCEPT ![top.slot] = Device]
    /\ known' = [p \in Places |-> IF p \in Roots THEN known[p] ELSE p \in top.connected]
    /\ Returned
    /\ Quiet
    /\ UNCHANGED <<world, hw, xfers, events, failed, ends, hub_port, free, faults>>

-----------------------------------------------------------------------------
(* Boot and the hotplug scan.                                              *)

Occupants(p) == {s \in Slots : devices[s].active /\ devices[s].place = p}

\* The first half of xhci_try_controller: reset, memory, run; it may fail.
ControllerStarted ==
    /\ At("boot") /\ ~top.asked
    /\ \E ok \in BOOLEAN : Fault(~ok) /\ failed' = ~ok
    /\ stack' = <<Asked>>
    /\ Quiet
    /\ UNCHANGED <<world, hw, xfers, events, tables, free>>

\* The second half: the ports in order, until the controller fails.
xhci_try_controller ==
    /\ At("boot") /\ top.asked
    /\ top.todo # <<>> /\ ~failed
    /\ LET p == Head(top.todo)
           rest == [top EXCEPT !.todo = Tail(@)]
       IN stack' = IF port[p].dev = 0 THEN <<rest>> ELSE <<Probe(p, p, 0), rest>>
    /\ Quiet
    /\ UNCHANGED <<world, hw, xfers, events, failed, tables, free, faults>>

\* All changes of ports have been taken note of, or the controller failed and
\* its endpoints go offline.
kernel_usb_init ==
    /\ At("boot") /\ top.asked
    /\ top.todo = <<>> \/ failed
    /\ stack' = <<>>
    /\ port' = [p \in Places |-> [port[p] EXCEPT !.changed = @ /\ p \notin Roots]]
    /\ known' = [p \in Places |-> IF p \in Roots THEN port[p].dev # 0 ELSE known[p]]
    /\ ends' = [i \in DOMAIN ends |-> [ends[i] EXCEPT !.online = @ /\ ~failed]]
    /\ Quiet
    /\ UNCHANGED <<plugs, hw, xfers, events, failed, devices, hub_port, free, faults>>

k_usb_rescan ==
    /\ stack = <<>> /\ ~failed
    /\ Pumps
    /\ stack' = <<Call("roots", RootPorts)>>
    /\ UNCHANGED <<world, hw, request, failed, asking, devices, known, hub_port, free, faults>>

\* Mutant: only whether something is connected counts.
RootChanged_ConnectedOnly(p) == (port[p].dev # 0) # known[p]

RootChanged(p) == port[p].changed \/ (port[p].dev # 0) # known[p]

\* xhci_scan_roots looks at a port.
RootSeen ==
    /\ At("roots") /\ ~top.asked
    /\ IF failed THEN stack' = <<>> /\ UNCHANGED <<port, known>>
       ELSE IF top.todo = <<>>
       THEN stack' = <<Call("hubs", <<"status">>)>> /\ UNCHANGED <<port, known>>
       ELSE LET p == Head(top.todo)
            IN IF RootChanged(p)
               THEN /\ port' = [port EXCEPT ![p].changed = FALSE]
                    /\ known' = [known EXCEPT ![p] = port[p].dev # 0]
                    /\ stack' = <<Asked>>
               ELSE stack' = <<Done(1)>> /\ UNCHANGED <<port, known>>
    /\ Quiet
    /\ UNCHANGED <<plugs, hw, xfers, events, failed, devices, ends, hub_port, free, faults>>

\* What was there is removed; what is there is reset and probed.
RootHandled ==
    LET p == Head(top.todo)
    IN /\ At("roots") /\ top.asked
       /\ stack' = CASE failed -> <<>>
                     [] ~failed /\ Occupants(p) # {} -> <<Removal(Min(Occupants(p))), top>>
                     [] ~failed /\ Occupants(p) = {} /\ known[p] /\ port[p].dev # 0 ->
                            <<Probe(p, p, 0), Done(1)>>
                     [] OTHER -> <<Done(1)>>
       /\ Quiet
       /\ UNCHANGED <<world, hw, xfers, events, failed, tables, free, faults>>

Hubs == {s \in Slots : devices[s].active /\ devices[s].hub}

\* xhci_scan_hubs: one port of one hub each time.
HubAsked ==
    /\ At("hubs") /\ ~top.asked
    /\ Head(top.todo) \in {"status", "acknowledge", "reset"}
    /\ IF Hubs = {} THEN stack' = <<>> /\ Quiet /\ UNCHANGED hub_port
       ELSE /\ LET h == Min(Hubs)
                   p == IF Head(top.todo) = "status" THEN HubPorts[hub_port] ELSE top.place
               IN /\ Ask(TRANSFER, Head(top.todo), h, p, {}, {})
                  /\ stack' = <<[Asked EXCEPT !.place = p, !.slot = h]>>
            /\ hub_port' = IF Head(top.todo) # "status" THEN hub_port
                           ELSE (hub_port % Len(HubPorts)) + 1
    /\ UNCHANGED <<world, hw, xfers, events, failed, devices, ends, known, free, faults>>

\* The connection the hub reported is remembered in the frame.
HubAnswered ==
    LET p == top.place
        step == Head(top.todo)
        there == answer.ok /\ answer.connected
        again(todo) == [top EXCEPT !.todo = todo, !.asked = FALSE]
    IN /\ At("hubs") /\ top.asked
       /\ CASE step = "status" ->
                  /\ stack' = IF answer.ok /\ (answer.changed \/ answer.connected # known[p])
                              THEN <<[again(<<"acknowledge">>) EXCEPT
                                        !.connected = IF there THEN {p} ELSE {}]>>
                              ELSE <<>>
                  /\ UNCHANGED known
            [] step = "acknowledge" ->
                  /\ known' = [known EXCEPT ![p] = p \in top.connected]
                  /\ stack' = <<again(<<"remove">>)>>
            [] step = "reset" ->
                  /\ stack' = IF there
                              THEN <<Probe(p, devices[top.slot].place, top.slot), again(<<"end">>)>>
                              ELSE <<>>
                  /\ UNCHANGED known
       /\ Quiet
       /\ UNCHANGED <<world, hw, xfers, events, failed, devices, ends, hub_port, free, faults>>

HubCleared ==
    LET p == top.place
        children == {s \in Occupants(p) : devices[s].parent = top.slot}
    IN /\ At("hubs") /\ Head(top.todo) \in {"remove", "end"}
       /\ stack' = IF failed \/ Head(top.todo) = "end" THEN <<>>
                   ELSE IF children # {} THEN <<Removal(Min(children)), top>>
                   ELSE IF p \in top.connected THEN <<[top EXCEPT !.todo = <<"reset">>]>>
                   ELSE <<>>
       /\ Quiet
       /\ UNCHANGED <<world, hw, xfers, events, failed, tables, free, faults>>

-----------------------------------------------------------------------------
(* The users of endpoints, who take the lock for each call.                *)

Alive(i) == ends[i].online /\ ~failed /\ port[ends[i].root].dev # 0

usb_input_pump ==
    /\ stack = <<>>
    /\ Pumps
    /\ UNCHANGED <<world, hw, request, failed, asking, stack, devices, known, hub_port,
                   free, faults>>

k_usb_input_start(i) ==
    /\ stack = <<>>
    /\ ends[i].kind = "raw" /\ ends[i].online /\ ~failed
    /\ ends' = [ends EXCEPT ![i].enabled = TRUE]
    /\ UNCHANGED <<world, controller, failed, asking, stack, devices, known, hub_port,
                   free, faults>>

k_usb_input_protocol(i) ==
    /\ stack = <<>>
    /\ ends[i].kind = "raw" /\ ends[i].online /\ ~failed /\ ~ends[i].busy /\ ~ends[i].enabled
    /\ Ask(TRANSFER, "control", ends[i].slot, devices[ends[i].slot].place, {}, {})
    /\ stack' = <<Call("protocol", <<>>)>>
    /\ UNCHANGED <<world, hw, xfers, events, failed, tables, free, faults>>

ProtocolSet ==
    /\ At("protocol")
    /\ stack' = <<>>
    /\ UNCHANGED <<world, controller, failed, asking, tables, free, faults>>

usb_bulk_submit(i) ==
    /\ stack = <<>>
    /\ ends[i].kind = "bulk" /\ Alive(i) /\ ~ends[i].busy
    /\ ends' = Submitted(Now, i).ends /\ xfers' = Submitted(Now, i).xfers
    /\ UNCHANGED <<world, hw, request, events, failed, asking, stack, devices, known, hub_port,
                   free, faults>>

usb_bulk_result(i) ==
    /\ stack = <<>>
    /\ ends[i].kind = "bulk" /\ Alive(i)
    /\ ends' = [xhci_pump_raw.ends EXCEPT ![i].busy = @ /\ ~xhci_pump_raw.ends[i].done]
    /\ xfers' = xhci_pump_raw.xfers /\ events' = <<>>
    /\ UNCHANGED <<world, hw, request, failed, asking, stack, devices, known, hub_port,
                   free, faults>>

\* usb_bulk_transfer gave up waiting.
usb_bulk_abort(i) ==
    /\ stack = <<>>
    /\ ends[i].kind = "bulk" /\ ends[i].online /\ ends[i].busy
    /\ ends' = [ends EXCEPT ![i].online = FALSE]
    /\ UNCHANGED <<world, controller, failed, asking, stack, devices, known, hub_port,
                   free, faults>>

Driver ==
    \/ RemoveBegins \/ RemoveEnds
    \/ EnableAsked \/ EnableAnswered \/ ControlAsked \/ ControlAnswered
    \/ AllocationFails \/ NoHandle \/ CommandAsked \/ CommandAnswered
    \/ PortAsked \/ PortAnswered \/ ChildProbed \/ HubStored
    \/ ControllerStarted \/ xhci_try_controller \/ kernel_usb_init
    \/ RootSeen \/ RootHandled \/ HubAsked \/ HubAnswered \/ HubCleared
    \/ ProtocolSet

Next ==
    \/ Driver
    \/ Controller
    \/ xhci_wait_event \/ xhci_wait_timeout
    \/ k_usb_rescan \/ usb_input_pump
    \/ \E x \in xfers : Completes(x)
    \/ \E p \in Places : \/ Unplug(p)
                        \/ \E k \in IF p \in Roots THEN Kinds ELSE Leaves : Plug(p, k)
    \/ \E i \in DOMAIN ends :
         \/ k_usb_input_start(i) \/ k_usb_input_protocol(i)
         \/ usb_bulk_submit(i) \/ usb_bulk_result(i) \/ usb_bulk_abort(i)

Spec == Init /\ [][Next]_vars

CanAnswer == \E i \in DOMAIN request : Answerable(i)

\* Weak fairness, with the states written out in which each action is enabled:
\* the driver runs, a wait ends with an answer or a timeout, the controller
\* answers what it can, and the usb-hotplug task keeps calling k_usb_rescan.
FairSpec ==
    /\ Spec
    /\ []<>(wait # 0 \/ stack = <<>>) \/ []<><<Driver>>_vars
    /\ []<>~CanAnswer \/ []<><<Controller>>_vars
    /\ \/ []<>(wait = 0 \/ (events = <<>> /\ CanAnswer))
       \/ []<><<xhci_wait_event \/ xhci_wait_timeout>>_vars
    /\ []<>(stack # <<>> \/ failed) \/ []<><<k_usb_rescan>>_vars

-----------------------------------------------------------------------------
\* No page that the controller may still read or write is free: neither a page
\* named in a command or transfer it has not answered, nor the contexts, rings
\* and buffers of a slot that it has not disabled (what the comments of
\* xhci_configure_raw, xhci_configure_bulk_pair and xhci_remove_slot ask for),
\* whatever fails or disappears in between.
NoDmaToFreePages ==
    free \cap (UNION {hw[s].pages : s \in Slots}
               \cup UNION {request[i].ctx \cup request[i].adds : i \in DOMAIN request}) = {}

Plugged(d) == \E p \in Places : port[p].dev = d
Recorded(d) == \E s \in Slots : devices[s].active /\ devices[s].dev = d

\* A device that was unplugged after boot, from a root port or from a hub, is
\* removed by the hotplug scan, also when another one has taken its place
\* before the scan looked, unless the controller fails (k_usb_rescan).
GoneIsRemoved ==
    \A d \in 1 .. PLUGS : (Recorded(d) /\ ~Plugged(d)) ~> (failed \/ ~Recorded(d))

=============================================================================
