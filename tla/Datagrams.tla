----------------------------- MODULE Datagrams -----------------------------
(***************************************************************************)
(* IPv4 below TCP, in drivers/net/networking.c: address probing, the       *)
(* neighbour entry, reassembly, UDP sockets, ICMP and pings, on a machine  *)
(* with one interface ("me") and one other host on its link ("peer").      *)
(*                                                                         *)
(* Everything happens under net_lock: each call, each poll of a waiting    *)
(* ping and each pass of net_worker is one step.  The link loses, repeats  *)
(* and reorders frames, which live for MSL at most; the peer gives an IP   *)
(* id to a new datagram only once the frames of the old one are gone and   *)
(* the LIFE of a fragment is over.  One unit of time is a second.          *)
(*                                                                         *)
(* A datagram is a number n and its bytes are the parts 1 .. sent[n].len,  *)
(* each filled with n; a UDP checksum detects nothing here, since over     *)
(* IPv4 it may be left out.                                                *)
(***************************************************************************)
EXTENDS Integers, Sequences, FiniteSets, FiniteSetsExt, TLC

CONSTANTS
    Tasks, Ids,     \* the programs; the IP ids that the peer uses
    Ports,          \* the UDP ports of this machine
    SOCKETS,        \* K_NET_MAX_SOCKETS, 64 in the code
    DGRAMS,         \* NET_DGRAMS, the queue of a socket
    FRAGS,          \* NET_FRAGS, 8 in the code
    PARTS,          \* the fragments of the largest datagram
    RXQ,            \* NET_RXQ, 64 in the code
    PINGS,          \* the number of pings at a time, 8 in the code
    LIFE,           \* the life of a fragment, 30 seconds
    PENDING, LEARNT,\* the life of a neighbour entry: 10 seconds, 30 seconds
    LEASE,          \* the lease of an address
    PROBES, DAD,    \* 3 requests for a neighbour; 3 steps to claim an address
    ICMP,           \* the budget of net_icmp_allow, 20 for each second
    MSL,            \* how long a frame lives on the link
    CLOCK, Budgets  \* bounds: time; how many calls, datagrams, pings and faults there are

ASSUME DatagramsAssumption ==
    /\ {SOCKETS, DGRAMS, FRAGS, PARTS, RXQ, PINGS, LIFE, PENDING, LEARNT, LEASE} \subseteq Nat \ {0}
    /\ {PROBES, DAD, ICMP} \subseteq Nat \ {0} /\ MSL \in Nat

VARIABLES
    m,      \* this machine: interface, neighbour, queue, fragments, sockets, pings
    caller, \* for each task the ping it waits for
    wire,   \* the frames on the link
    clock,  \* k_uptime_ms
    sent,   \* the datagrams addressed to this machine, as they were sent
    budget  \* what is left of the budget of this behaviour

vars == <<m, caller, wire, clock, sent, budget>>

Slots == 1 .. FRAGS
Socks == 1 .. SOCKETS
PingSlots == 1 .. PINGS
None == [host |-> "none", port |-> 0]
Idle == [slot |-> 0]

\* The address of the one service of the peer.
Service == [host |-> "peer", port |-> 1]

NoNeighbor == [used |-> FALSE, mac |-> FALSE, expires |-> 0, requested |-> 0, probes |-> 0]
NoFragment == [used |-> FALSE, dst |-> "me", id |-> 0, final |-> 0, expires |-> 0,
               seen |-> [i \in 1 .. PARTS |-> 0]]
NoSocket == [used |-> FALSE, owner |-> 0, port |-> 0, any |-> TRUE, peer |-> None,
             state |-> "NEW", error |-> FALSE, q |-> <<>>]
Unbound == [s \in Socks |-> NoSocket]
Bound == [NoSocket EXCEPT !.used = TRUE, !.owner = CHOOSE t \in Tasks : TRUE,
                          !.port = Min(Ports), !.state = "BOUND"]
NoPing == [used |-> FALSE, done |-> FALSE, token |-> 0, to |-> "peer"]

\* The interface is not configured yet, or its address has been claimed and a task has
\* bound a socket.
Init ==
    /\ \E set \in BOOLEAN :
       m = [up |-> set, link |-> TRUE, dead |-> FALSE, addr |-> set, ready |-> set,
            conflict |-> FALSE, dad |-> 0, dad_at |-> 0, until |-> 0,
            icmp |-> ICMP, neigh |-> NoNeighbor, queue |-> <<>>,
            slots |-> [i \in Slots |-> NoFragment], socks |-> IF set THEN [Unbound EXCEPT ![1] = Bound] ELSE Unbound,
            pings |-> [i \in PingSlots |-> NoPing],
            tokens |-> 0, answered |-> {}, refused |-> {}, tx |-> TRUE, out |-> {}]
    /\ caller = [t \in Tasks |-> Idle]
    /\ wire = {} /\ clock = 1 /\ sent = <<>>
    /\ budget \in Budgets
-----------------------------------------------------------------------------
(* Sending.  Each operator takes the machine k and returns it changed, with *)
(* the error e of the call; k.out collects the frames for the link and k.tx *)
(* says whether the ring of the adapter has room during this step.          *)

Done(k, e) == [m |-> k, e |-> e]

net_local(k, a) == k.ready /\ k.addr /\ a = "me"
net_broadcast4(a) == a = "all"

nic_transmit(k, f) ==
    IF k.dead \/ ~k.up \/ ~k.link THEN Done(k, "ENETDOWN")
    ELSE IF ~k.tx THEN Done(k, "EAGAIN")
    ELSE Done([k EXCEPT !.out = @ \cup {f}], "0")

net_enqueue(k, f) ==
    IF Len(k.queue) = RXQ THEN Done(k, "EAGAIN")
    ELSE Done([k EXCEPT !.queue = Append(@, f)], "0")

net_arp_send(k, kind) == nic_transmit(k, [kind |-> kind, to |-> "peer"])

net_route(k, to) ==
    IF k.dead \/ ~k.up \/ ~k.link \/ (~k.ready /\ ~net_broadcast4(to))
    THEN "ENETUNREACH" ELSE "0"

\* The entry as it is found or made, without its past once it expired.
net_neighbor_find(k) ==
    IF k.neigh.used /\ k.neigh.expires > clock THEN k.neigh
    ELSE [NoNeighbor EXCEPT !.used = TRUE, !.expires = clock + PENDING]

net_neighbor_learn(k) ==
    [k EXCEPT !.neigh = [net_neighbor_find(k) EXCEPT !.mac = TRUE, !.probes = 0,
                                                     !.expires = clock + LEARNT]]

net_resolve_mac(k, to) ==
    IF net_local(k, to) \/ net_broadcast4(to) THEN Done(k, "0")
    ELSE LET e == net_neighbor_find(k)
             found == [k EXCEPT !.neigh = e]
             asked == net_arp_send(found, "arp_request")
         IN CASE e.mac -> Done(found, "0")
              [] ~e.mac /\ e.probes >= PROBES -> Done(found, "ENETUNREACH")
              [] OTHER ->
                 IF (e.requested = 0 \/ clock - e.requested >= 1) /\ asked.e = "0"
                 THEN Done([asked.m EXCEPT !.neigh.requested = clock, !.neigh.probes = @ + 1],
                           "EAGAIN")
                 ELSE Done(found, "EAGAIN")

net_ip_send(k, to, f) ==
    LET r == net_resolve_mac(k, to)
    IN IF r.e # "0" THEN r
       ELSE IF net_local(k, to) THEN net_enqueue(r.m, f)
       ELSE nic_transmit(r.m, f)

\* k.icmp is what is left of the budget of this second.
net_icmp_allow(k) ==
    IF k.icmp = 0 THEN Done(k, "no") ELSE Done([k EXCEPT !.icmp = @ - 1], "0")

net_udp_output(k, s, to, n) ==
    LET e == net_route(k, to.host)
    IN CASE e # "0" -> Done(k, e)
         [] e = "0" /\ ~k.socks[s].any /\ ~net_local(k, "me") -> Done(k, "ENETUNREACH")
         [] OTHER -> net_ip_send(k, to.host,
                [kind |-> "udp", to |-> to.host, src |-> "me", dst |-> to.host,
                 from |-> k.socks[s].port, port |-> to.port, n |-> n])

-----------------------------------------------------------------------------
(* Receiving.                                                               *)

net_arp_input(k, f) ==
    LET claimed == k.addr /\ (f.kind = "arp_claim" \/ (k.dad > 0 /\ f.kind = "arp_probe"))
        ours == net_local(k, "me")
        known == IF ours /\ (\/ f.kind = "arp_request"
                             \/ f.kind = "arp_reply" /\ k.neigh.used /\ k.neigh.probes > 0)
                 THEN net_neighbor_learn(k) ELSE k
    IN IF claimed THEN [k EXCEPT !.conflict = TRUE, !.ready = FALSE, !.dad = 0]
       ELSE IF ours /\ f.kind \in {"arp_request", "arp_probe"}
       THEN net_arp_send(known, "arp_reply").m
       ELSE known

\* A datagram from port `from' of this machine was refused by `by': the first socket
\* connected that way is told.
net_icmp_failure(k, by, from) ==
    LET to == {s \in Socks : /\ k.socks[s].used /\ k.socks[s].port = from
                             /\ k.socks[s].peer = by}
    IN IF ~net_local(k, "me") \/ to = {} THEN k
       ELSE [k EXCEPT !.socks[Min(to)].error = TRUE]

net_udp_unreachable(k, src, from, dst, port) ==
    LET allowed == net_icmp_allow(k)
    IN IF ~net_local(k, dst) THEN k
       ELSE IF allowed.e # "0" THEN allowed.m
       ELSE LET refused == [allowed.m EXCEPT !.refused =
                               IF src = "me" THEN @ \cup {from} ELSE @]
            IN net_ip_send(refused, src, [kind |-> "unreachable", to |-> src, from |-> from,
                                          by |-> [host |-> dst, port |-> port]]).m

\* The header is in the first part: its number says which port the datagram is for.
net_udp_input(k, data) ==
    LET h == sent[data[1]]
        to == {s \in Socks : /\ k.socks[s].used /\ k.socks[s].port = h.port
                             /\ k.socks[s].any \/ h.dst = "me"
                             /\ k.socks[s].peer \in {None, [host |-> h.src, port |-> h.from]}}
    IN IF to = {} THEN net_udp_unreachable(k, h.src, h.from, h.dst, h.port)
       ELSE IF Len(k.socks[Min(to)].q) = DGRAMS THEN k
       ELSE [k EXCEPT !.socks[Min(to)].q = Append(@, data)]

net_icmp_input(k, f) ==
    LET allowed == net_icmp_allow(k)
    IN CASE f.kind = "unreachable" -> net_icmp_failure(k, f.by, f.from)
         [] f.kind = "echo_request" ->
            IF ~net_local(k, "me") THEN k
            ELSE IF allowed.e # "0" THEN allowed.m
            ELSE LET seen == [allowed.m EXCEPT !.answered =
                                 IF f.src = "me" THEN @ \cup {f.token} ELSE @]
                 IN net_ip_send(seen, f.src, [kind |-> "echo_reply", to |-> f.src, src |-> "me",
                                              token |-> f.token]).m
         [] f.kind = "echo_reply" ->
            [k EXCEPT !.pings = [i \in PingSlots |->
                IF @[i].used /\ ~@[i].done /\ @[i].token = f.token /\ @[i].to = f.src
                THEN [@[i] EXCEPT !.done = TRUE] ELSE @[i]]]

\* A mutant of FragmentExpired: the 30 second timer is set but never looked at.
FragmentExpired_Never(x) == FALSE

FragmentExpired(x) == x.used /\ x.expires <= clock

\* Part f.part of datagram f.n, the last one unless f.more.
net_reassemble(k, f) ==
    LET live == [i \in Slots |-> [k.slots[i] EXCEPT !.used = @ /\ ~FragmentExpired(k.slots[i])]]
        free == {i \in Slots : ~live[i].used}
        match == {i \in Slots : live[i].used /\ live[i].id = f.id /\ live[i].dst = f.to}
        at == IF match # {} THEN Max(match) ELSE Max(free)
        x == IF match # {} THEN live[at]
             ELSE [NoFragment EXCEPT !.used = TRUE, !.id = f.id, !.dst = f.to,
                                     !.expires = clock + LIFE]
        wrong == \/ x.final > 0 /\ (f.part > x.final \/ (~f.more /\ x.final # f.part))
                 \/ x.seen[f.part] # 0
                 \/ ~f.more /\ \E i \in f.part + 1 .. PARTS : x.seen[i] # 0
        final == IF f.more THEN x.final ELSE f.part
        seen == [x.seen EXCEPT ![f.part] = f.n]
        whole == final > 0 /\ \A i \in 1 .. final : seen[i] # 0
        put(y) == [k EXCEPT !.slots = [live EXCEPT ![at] = y]]
    IN IF match = {} /\ free = {} THEN [k EXCEPT !.slots = live]
       ELSE IF wrong THEN put(NoFragment)
       ELSE IF whole THEN net_udp_input(put(NoFragment), SubSeq(seen, 1, final))
       ELSE put([x EXCEPT !.seen = seen, !.final = final])

Whole(n) == [i \in 1 .. sent[n].len |-> n]

net_receive_frame(k, f) ==
    IF ~k.up THEN k
    ELSE IF f.kind \in {"arp_request", "arp_reply", "arp_claim", "arp_probe"}
    THEN net_arp_input(k, f)
    ELSE IF ~net_local(k, f.to) /\ ~net_broadcast4(f.to) THEN k
    ELSE CASE f.kind = "frag" -> net_reassemble(k, f)
           [] f.kind = "udp" -> net_udp_input(k, Whole(f.n))
           [] OTHER -> net_icmp_input(k, f)

\* The loop of net_worker over the queue, which local answers make longer.
RECURSIVE Drain(_, _)
Drain(k, frames) ==
    IF k.queue = <<>> \/ frames = 0 THEN k
    ELSE Drain(net_receive_frame([k EXCEPT !.queue = Tail(@)], Head(k.queue)), frames - 1)

\* The timers of the interface: the lease, then the claim of the address.  Sockets of tasks
\* that are gone are closed here too: k_net_close stands for that.
net_poll_protocols(k) ==
    LET leased == IF k.until > 0 /\ clock >= k.until
                  THEN [k EXCEPT !.until = 0, !.ready = FALSE, !.addr = FALSE, !.dad = 0] ELSE k
        due == ~leased.dead /\ leased.up /\ leased.link /\ ~leased.conflict
               /\ clock >= leased.dad_at
        probed == net_arp_send([leased EXCEPT !.dad_at = clock + 1], "arp_probe")
    IN CASE due /\ leased.dad > 1 ->
            IF probed.e = "0" THEN [probed.m EXCEPT !.dad = @ - 1] ELSE probed.m
         [] due /\ leased.dad = 1 ->
            net_arp_send([leased EXCEPT !.dad = 0, !.dad_at = 0, !.ready = TRUE],
                         "arp_announce").m
         [] OTHER -> leased

-----------------------------------------------------------------------------
(* The steps of this machine.                                               *)

\* What the peer does not answer need not be followed on the link.
Answered == {"arp_request", "echo_request", "udp"}

Emit(k, left) ==
    /\ m' = [k EXCEPT !.out = {}, !.tx = TRUE]
    /\ wire' = left \cup {f @@ [born |-> clock] :
                             f \in {g \in k.out : g.kind \in Answered /\ g.to = "peer"}}

Spend(what) ==
    /\ \A b \in what : budget[b] > 0
    /\ budget' = [b \in DOMAIN budget |-> budget[b] - IF b \in what THEN 1 ELSE 0]

Fault(b) == IF b THEN {"faults"} ELSE {}

\* One pass over the frames that arrived; the transmit ring may be full during it.
net_worker(arrived, left, full) ==
    /\ LET polled == FoldSet(LAMBDA f, k : net_enqueue(k, f).m, [m EXCEPT !.tx = ~full],
                             IF m.dead THEN {} ELSE arrived)
       IN Emit(net_poll_protocols(Drain(polled, RXQ)), left)
    /\ UNCHANGED <<caller, clock, sent>>

\* Nothing arrived, or a frame that was on the link and may come twice, or one from a host
\* that asks for this machine's address, claims it, probes for it or pings it.
Quiet(full) == Spend(Fault(full)) /\ net_worker({}, wire, full)

Arrival(f, twice) ==
    /\ f.to # "peer" /\ Spend(Fault(twice))
    /\ net_worker({f}, IF twice THEN wire ELSE wire \ {f}, FALSE)

HostSends(kind) ==
    /\ Spend({"faults"})
    /\ net_worker({[kind |-> kind, to |-> "me", src |-> "peer", token |-> 0]}, wire, FALSE)

\* A call of a task that is not waiting in a ping.
Call(t) ==
    /\ caller[t] = Idle
    /\ UNCHANGED clock

k_net_configure(t, addr, up) ==
    /\ Call(t) /\ ~m.dead
    /\ LET changed == addr # m.addr \/ up # m.up
           set == [m EXCEPT !.addr = addr, !.up = up, !.until = clock + LEASE]
       IN m' = IF changed
               THEN [set EXCEPT !.ready = FALSE, !.conflict = FALSE, !.neigh = NoNeighbor,
                                !.dad = IF addr THEN DAD ELSE 0, !.dad_at = clock]
               ELSE set
    /\ Spend({"calls"}) /\ UNCHANGED <<caller, wire, sent>>

k_net_socket(t) ==
    /\ Call(t)
    /\ \E s \in Socks : ~m.socks[s].used
    /\ LET s == Min({i \in Socks : ~m.socks[i].used})
       IN m' = [m EXCEPT !.socks[s] = [NoSocket EXCEPT !.used = TRUE, !.owner = t]]
    /\ Spend({"calls"}) /\ UNCHANGED <<caller, wire, sent>>

net_socket_owned(t) == {s \in Socks : m.socks[s].used /\ m.socks[s].owner = t}

\* Two sockets on one port would need two addresses of this machine.
net_port_busy(s, port) == \E o \in Socks \ {s} : m.socks[o].used /\ m.socks[o].port = port

\* The ports that net_autobind may find, from a random one on.
net_autobind(s) ==
    IF m.socks[s].port # 0 THEN {m.socks[s].port} ELSE {p \in Ports : ~net_port_busy(s, p)}

\* port 0 leaves the choice to net_autobind; any is the zero address.
k_net_bind(t, s, port, any) ==
    /\ Call(t) /\ s \in net_socket_owned(t) /\ m.socks[s].state = "NEW"
    /\ any \/ net_local(m, "me")
    /\ \E p \in (IF port = 0 THEN net_autobind(s) ELSE {port}) :
          /\ ~net_port_busy(s, p)
          /\ m' = [m EXCEPT !.socks[s] = [@ EXCEPT !.port = p, !.any = any, !.state = "BOUND"]]
    /\ Spend({"calls"}) /\ UNCHANGED <<caller, wire, sent>>

k_net_connect(t, s, to) ==
    /\ Call(t) /\ s \in net_socket_owned(t) /\ m.socks[s].state \in {"NEW", "BOUND"}
    /\ net_route(m, to.host) = "0"
    /\ \E p \in net_autobind(s) :
           m' = [m EXCEPT !.socks[s] = [@ EXCEPT !.port = p, !.any = FALSE, !.peer = to,
                                                !.state = "ESTABLISHED"]]
    /\ Spend({"calls"}) /\ UNCHANGED <<caller, wire, sent>>

\* to is None for the address the socket is connected to.
k_net_send(t, s, to, full) ==
    LET destination == IF to = None THEN m.socks[s].peer ELSE to
        local == destination.host = "me"
    IN /\ Call(t) /\ s \in net_socket_owned(t) /\ destination # None
       /\ Spend({"calls"} \cup Fault(full))
       /\ \E p \in net_autobind(s) :
             LET bound == [m EXCEPT !.tx = ~full, !.socks[s].port = p,
                                    !.socks[s].state = IF @ = "NEW" THEN "BOUND" ELSE @]
                 r == net_udp_output(bound, s, destination, Len(sent) + 1)
             IN /\ Emit(r.m, wire)
                /\ sent' = IF local /\ r.e = "0"
                           THEN Append(sent, [src |-> "me", from |-> p, dst |-> "me", id |-> 0,
                                              port |-> destination.port, len |-> 1, at |-> clock])
                           ELSE sent
       /\ UNCHANGED caller

\* The first datagram of the queue; without one the error, which is then forgotten.
k_net_receive(t, s) ==
    LET x == m.socks[s]
    IN /\ caller[t] = Idle /\ s \in net_socket_owned(t)
       /\ x.q # <<>> \/ x.error
       /\ m' = IF x.q # <<>> THEN [m EXCEPT !.socks[s].q = Tail(@)]
               ELSE [m EXCEPT !.socks[s].error = FALSE]
       /\ UNCHANGED <<caller, wire, clock, sent, budget>>

k_net_close(t, s) ==
    /\ caller[t] = Idle /\ s \in net_socket_owned(t)
    /\ m' = [m EXCEPT !.socks[s] = NoSocket]
    /\ UNCHANGED <<caller, wire, clock, sent, budget>>

\* The first part of k_net_ping: a slot, a route and a token that no earlier ping had.
k_net_ping(t, to) ==
    /\ Call(t) /\ net_route(m, to) = "0"
    /\ \E i \in PingSlots : ~m.pings[i].used
    /\ LET i == Min({j \in PingSlots : ~m.pings[j].used})
       IN /\ m' = [m EXCEPT !.tokens = @ + 1, !.pings[i] =
                      [used |-> TRUE, done |-> FALSE, token |-> m.tokens + 1, to |-> to]]
          /\ caller' = [caller EXCEPT ![t] = [slot |-> i, sent |-> FALSE, token |-> m.tokens + 1]]
    /\ Spend({"pings"}) /\ UNCHANGED <<wire, sent>>

\* One turn of its loop.  Its time may be up, or the task be cancelled, at any turn.
PingTurn(t, up, full) ==
    LET c == caller[t]
        p == m.pings[c.slot]
        k == [m EXCEPT !.tx = ~full]
        r == IF c.sent THEN Done(k, "0")
             ELSE net_ip_send(k, p.to, [kind |-> "echo_request", to |-> p.to, src |-> "me",
                                        token |-> p.token])
        failed == r.e \notin {"0", "EAGAIN"}
        over == failed \/ p.done \/ up
    IN /\ c # Idle
       /\ Spend(Fault(full))
       /\ Emit(IF over THEN [r.m EXCEPT !.pings[c.slot] = NoPing] ELSE r.m, wire)
       /\ caller' = [caller EXCEPT ![t] = IF over THEN Idle ELSE [c EXCEPT !.sent = @ \/ r.e = "0"]]
       /\ UNCHANGED <<clock, sent>>

-----------------------------------------------------------------------------
(* The link and the other host, as this machine relies on them.             *)

\* The peer sends a datagram in parts.  (Whole ones are those of this machine to itself.)
PeerSends(dst, id, port, len) ==
    LET n == Len(sent) + 1
        frames == {[kind |-> "frag", to |-> dst, id |-> id, n |-> n, part |-> i,
                    more |-> i < len, born |-> clock] : i \in 1 .. len}
    IN /\ Spend({"sends"})
       /\ \A o \in DOMAIN sent : (sent[o].src = "peer" /\ sent[o].dst = dst /\ sent[o].id = id)
                                  => sent[o].at + MSL + LIFE <= clock
       /\ wire' = wire \cup frames
       /\ sent' = Append(sent, [src |-> "peer", from |-> Service.port, dst |-> dst, id |-> id,
                                port |-> port, len |-> len, at |-> clock])
       /\ UNCHANGED <<m, caller, clock>>

\* The peer answers a frame; nobody listens on its port.
PeerAnswers(f) ==
    LET answer == CASE f.kind = "arp_request" -> [kind |-> "arp_reply", to |-> "me"]
                    [] f.kind = "echo_request" -> [kind |-> "echo_reply", to |-> "me",
                                                   src |-> "peer", token |-> f.token]
                    [] f.kind = "udp" -> [kind |-> "unreachable", to |-> "me", from |-> f.from,
                                          by |-> Service]
    IN /\ f.to = "peer"
       /\ wire' = (wire \ {f}) \cup {answer @@ [born |-> clock]}
       /\ m' = [m EXCEPT !.answered = IF f.kind = "echo_request" THEN @ \cup {f.token} ELSE @,
                         !.refused = IF f.kind = "udp" THEN @ \cup {f.from} ELSE @]
       /\ UNCHANGED <<caller, clock, sent, budget>>

\* The adapter reports its link, or fails for good.
LinkChanges(dead) ==
    /\ Spend({"faults"}) /\ ~m.dead
    /\ m' = [m EXCEPT !.link = ~dead /\ ~@, !.dead = dead]
    /\ UNCHANGED <<caller, wire, clock, sent>>

Tick ==
    /\ clock < CLOCK /\ clock' = clock + 1
    /\ wire' = {f \in wire : clock < f.born + MSL}
    /\ m' = [m EXCEPT !.icmp = ICMP]
    /\ UNCHANGED <<caller, sent, budget>>

To == {Service, [host |-> "all", port |-> 1]} \cup {[host |-> "me", port |-> p] : p \in Ports}

Next ==
    \/ \E f \in wire, twice \in BOOLEAN : Arrival(f, twice)
    \/ \E kind \in {"arp_request", "arp_claim", "arp_probe", "echo_request"} : HostSends(kind)
    \/ \E full \in BOOLEAN :
          \/ Quiet(full)
          \/ \E t \in Tasks, s \in Socks, to \in To \cup {None} : k_net_send(t, s, to, full)
          \/ \E t \in Tasks, up \in BOOLEAN : PingTurn(t, up, full)
    \/ \E t \in Tasks :
          \/ \E addr, up \in BOOLEAN : k_net_configure(t, addr, up)
          \/ k_net_socket(t)
          \/ \E s \in Socks :
                \/ \E p \in Ports \cup {0}, any \in BOOLEAN : k_net_bind(t, s, p, any)
                \/ \E to \in To : to.host # "all" /\ k_net_connect(t, s, to)
                \/ k_net_receive(t, s) \/ k_net_close(t, s)
          \/ \E to \in {"peer", "me"} : k_net_ping(t, to)
    \/ \E dst \in {"me", "all"}, id \in Ids, port \in Ports, len \in 2 .. PARTS :
          PeerSends(dst, id, port, len)
    \/ \E f \in wire : PeerAnswers(f)
    \/ \E dead \in BOOLEAN : LinkChanges(dead)
    \/ Tick

Spec == Init /\ [][Next]_vars

-----------------------------------------------------------------------------
\* What networking.c hands to a program is so.  What waits in the queue of a socket is one
\* whole datagram that was sent to its port, never parts of two of them, whatever the link
\* lost, repeated or delayed and whichever fragments were left behind when an IP id came back.
\* A ping that is done was answered by the host it went to, and its slot is still the slot of
\* the task that waits for it, so that no late answer ends a later ping.  A refusal was given
\* to a datagram from the port of the socket that is told.
RepliesAreGenuine ==
    /\ \A s \in Socks : \A i \in DOMAIN m.socks[s].q : \E n \in DOMAIN sent :
          m.socks[s].q[i] = Whole(n) /\ m.socks[s].port = sent[n].port
    /\ \A s \in Socks : m.socks[s].error => m.socks[s].port \in m.refused
    /\ \A i \in PingSlots : m.pings[i].done => m.pings[i].token \in m.answered
    /\ \A t \in Tasks : caller[t] # Idle =>
          m.pings[caller[t].slot].used /\ m.pings[caller[t].slot].token = caller[t].token

=============================================================================
