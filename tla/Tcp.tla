-------------------------------- MODULE Tcp --------------------------------
(***************************************************************************)
(* The TCP of drivers/net/networking.c at both ends of one connection: "A" *)
(* connects, "B" is the socket that the listener of the other machine      *)
(* makes for it.  net_lock serialises everything on one machine, so each   *)
(* call, each segment received and each pass of the worker over a socket   *)
(* is one step.                                                            *)
(*                                                                         *)
(* Between them is a network that loses, duplicates and reorders segments. *)
(* Time is abstract: a deadline or a retransmission timer that is set may  *)
(* run out at any step, so round trip times are left out.  A send that     *)
(* fails with K_EAGAIN, while a neighbour is resolved, and an answer that  *)
(* net_icmp_allow refuses are segments lost; other failures are NetDown.   *)
(***************************************************************************)
EXTENDS Integers, Sequences, FiniteSets, TLC

CONSTANTS
    SEQ,     \* the size of the sequence number space, 2^32 in the code
    ISS,     \* the initial sequence number of both ends, random in the code
    STREAM,  \* NET_STREAM, the size of the two buffers of a socket
    MSS,     \* the segment size
    RETRIES, \* the number of retransmissions before a connection is given up
    WRITES,  \* bound: how many bytes each end writes, in one of several ways
    FAULTS   \* bound: how many segments are lost, duplicated or late

ASSUME TcpAssumption ==
    /\ SEQ \in Nat /\ SEQ % 2 = 0 /\ ISS \in 0 .. (SEQ - 1)
    /\ STREAM \in Nat \ {0} /\ MSS \in Nat \ {0} /\ RETRIES \in Nat /\ FAULTS \in Nat

Ends == {"A", "B"}
Peer(e) == IF e = "A" THEN "B" ELSE "A"

VARIABLES
    sock,      \* the two sockets
    listening, \* whether the listener is open
    net,       \* the segments on their way to each end, in the order they were sent
    faults,    \* losses, duplications and delays so far
    sent, got, closed, eof \* what the programs did and saw, see ByteStream

vars == <<sock, listening, net, faults, sent, got, closed, eof>>
app == <<sent, got, closed, eof>>

Add(a, n) == (a + n) % SEQ
Distance(a, b) == (b - a) % SEQ
Before(a, b) == (a - b) % SEQ >= SEQ \div 2

Minimum(a, b) == IF a < b THEN a ELSE b
Maximum(a, b) == IF a < b THEN b ELSE a

\* A socket as net_socket_new makes it; born tells a slot that was never used.
NewSocket ==
    [used |-> FALSE, state |-> "NEW", parent |-> FALSE, detached |-> FALSE,
     close_requested |-> FALSE, peer_fin |-> FALSE, born |-> FALSE, snd_una |-> 0, snd_nxt |-> 0,
     rcv_nxt |-> 0, fin_seq |-> 0, tx |-> <<>>, rx |-> <<>>, peer_window |-> STREAM,
     cwnd |-> 2 * MSS, threshold |-> STREAM, dupacks |-> 0, retry |-> 0, armed |-> FALSE]

Init ==
    /\ sock = [e \in Ends |-> NewSocket]
    /\ listening = FALSE
    /\ net = [e \in Ends |-> <<>>]
    /\ faults = 0
    /\ sent = [e \in Ends |-> 0]
    /\ got = [e \in Ends |-> <<>>]
    /\ closed = [e \in Ends |-> FALSE]
    /\ eof = [e \in Ends |-> FALSE]

(***************************************************************************)
(* Output.  The operators on a socket return it with the segments it sends *)
(* in its field out, which the actions move to the network.                *)
(***************************************************************************)

Window(s) == STREAM - Len(s.rx)

Segment(s, seq, flags, data) ==
    [seq |-> seq, flags |-> flags, data |-> data, win |-> Window(s),
     ack |-> IF "ACK" \in flags THEN s.rcv_nxt ELSE 0]

With(s, segments) == [s EXCEPT !.out = @ \o segments]
net_tcp_packet(s, seq, flags, data) == With(s, <<Segment(s, seq, flags, data)>>)
net_tcp_ack(s) == net_tcp_packet(s, s.snd_nxt, {"ACK"}, <<>>)

net_tcp_error(s) == [s EXCEPT !.state = "ERROR", !.used = ~s.detached]

Synchronising(s) == s.state \in {"SYN_SENT", "SYN_RCVD"}
Finishing(s) == s.state \in {"FIN_WAIT1", "CLOSING", "LAST_ACK"}
InFlight(s) == Distance(s.snd_una, s.snd_nxt)

\* What the retransmission timer sends again: the SYN, the FIN or the first
\* segment that has not been acknowledged.
Again(s) ==
    CASE s.state = "SYN_SENT" -> net_tcp_packet(s, ISS, {"SYN"}, <<>>)
      [] s.state = "SYN_RCVD" -> net_tcp_packet(s, ISS, {"SYN", "ACK"}, <<>>)
      [] Finishing(s) -> net_tcp_packet(s, s.fin_seq, {"FIN", "ACK"}, <<>>)
      [] OTHER -> net_tcp_packet(s, s.snd_una, {"ACK"},
                                 SubSeq(s.tx, 1, Minimum(MSS, InFlight(s))))

\* The part of net_tcp_pump that guards the retransmission timer.
Retransmit(s, fire) ==
    CASE ~(Synchronising(s) \/ Finishing(s) \/ (InFlight(s) > 0 /\ s.tx # <<>>)) -> s
      [] s.armed /\ ~fire -> s
      [] s.retry >= RETRIES -> net_tcp_error(s)
      [] OTHER -> [Again(s) EXCEPT
            !.retry = IF s.armed THEN @ + 1 ELSE @,
            !.threshold = IF s.armed THEN Maximum(2 * MSS, Minimum(s.cwnd \div 2, STREAM)) ELSE @,
            !.cwnd = IF s.armed THEN MSS ELSE @,
            !.armed = TRUE]

\* The bytes that fit into both windows and have not been sent yet.
SendNew(s) ==
    LET from == InFlight(s)
        to == Minimum(Len(s.tx), Minimum(s.peer_window, s.cwnd))
        Piece(k) == Segment(s, Add(s.snd_una, from + k * MSS), {"ACK", "PSH"},
                            SubSeq(s.tx, from + k * MSS + 1, Minimum(from + (k + 1) * MSS, to)))
    IN IF to <= from THEN s
       ELSE [With(s, [k \in 1 .. ((to - from + MSS - 1) \div MSS) |-> Piece(k - 1)])
             EXCEPT !.snd_nxt = Add(s.snd_una, to), !.armed = @ \/ from = 0]

\* Mutant: a closed window is never probed.
ProbeDue_Never(s, fire) == FALSE

\* The persist probe: nothing is in flight, so no other timer runs.
ProbeDue(s, fire) == fire /\ s.peer_window = 0 /\ s.tx # <<>> /\ InFlight(s) = 0

\* Mutant: the FIN does not wait for the data.
FinishDue_AtOnce(s) == s.close_requested

\* Once everything is acknowledged a requested close sends the FIN.
FinishDue(s) == s.close_requested /\ s.tx = <<>>

Finish(s) ==
    [net_tcp_packet(s, s.snd_nxt, {"FIN", "ACK"}, <<>>) EXCEPT
        !.fin_seq = s.snd_nxt, !.snd_nxt = Add(@, 1), !.armed = TRUE, !.retry = 0,
        !.state = IF s.peer_fin THEN "LAST_ACK" ELSE "FIN_WAIT1"]

\* Of new data, a probe and a FIN at most one is due.
net_tcp_pump(s, fire) ==
    LET again == Retransmit(s, fire)
    IN CASE again.state \notin {"ESTABLISHED", "CLOSE_WAIT"} -> again
         [] FinishDue(again) -> Finish(again)
         [] ProbeDue(again, fire) -> net_tcp_packet(again, Add(again.snd_una, -1), {"ACK"}, <<>>)
         [] OTHER -> SendNew(again)

(***************************************************************************)
(* Input.                                                                  *)
(***************************************************************************)

SegLen(m) == Len(m.data) + Cardinality(m.flags \cap {"SYN", "FIN"})

InWindow(s, n) == ~Before(n, s.rcv_nxt) /\ Before(n, Add(s.rcv_nxt, Window(s)))

Acceptable(s, m) ==
    CASE Window(s) = 0 -> SegLen(m) = 0 /\ m.seq = s.rcv_nxt
      [] SegLen(m) = 0 -> InWindow(s, m.seq)
      [] OTHER -> InWindow(s, m.seq) \/ InWindow(s, Add(m.seq, SegLen(m) - 1))

\* A connection that answers its SYN, or ignores what is not the answer.
InputSynSent(s, m) ==
    CASE "RST" \in m.flags ->
            IF "ACK" \in m.flags /\ m.ack = s.snd_nxt THEN net_tcp_error(s) ELSE s
      [] ~({"SYN", "ACK"} \subseteq m.flags) \/ m.ack # s.snd_nxt -> s
      [] OTHER -> net_tcp_ack([s EXCEPT
            !.peer_window = m.win, !.snd_una = m.ack, !.rcv_nxt = Add(m.seq, 1),
            !.state = "ESTABLISHED", !.cwnd = 2 * MSS, !.retry = 0, !.armed = FALSE])

\* The acknowledgement of a FIN; only the exact one counts.
FinAcknowledged(s, m) ==
    [s EXCEPT !.snd_una = m.ack, !.armed = FALSE,
              !.used = s.state # "LAST_ACK",
              !.state = CASE s.state = "CLOSING" -> "TIME_WAIT"
                          [] s.state = "FIN_WAIT1" -> "FIN_WAIT2"
                          [] OTHER -> s.state]

\* The acknowledgement of data: it leaves the buffer and the timer restarts.
DataAcknowledged(s, m) ==
    LET n == Distance(s.snd_una, m.ack)
        grown == IF s.cwnd < s.threshold THEN s.cwnd + Minimum(n, MSS)
                 ELSE s.cwnd + Maximum(1, (MSS * MSS) \div s.cwnd)
    IN [s EXCEPT !.tx = SubSeq(@, n + 1, Len(@)), !.snd_una = m.ack,
                 !.cwnd = Minimum(grown, STREAM), !.retry = 0, !.dupacks = 0,
                 !.armed = m.ack # s.snd_nxt]

\* An acknowledgement that says nothing new; the third sends data again.
DuplicateAck(s, m) ==
    LET counted == [s EXCEPT !.dupacks = @ + 1]
    IN IF m.data # <<>> \/ m.win # s.peer_window \/ s.tx = <<>> \/ InFlight(s) = 0 THEN s
       ELSE IF counted.dupacks # 3 THEN counted
       ELSE [Again(counted) EXCEPT !.threshold = Maximum(2 * MSS, s.cwnd \div 2),
                                   !.cwnd = MSS, !.armed = TRUE]

\* The segment is dropped by the acknowledgement it carries.
AckRefused(s, m) ==
    CASE s.state = "SYN_RCVD" -> m.ack # s.snd_nxt \/ m.seq # s.rcv_nxt
      [] ~Before(s.snd_una, m.ack) -> FALSE
      [] Finishing(s) -> m.ack # Add(s.fin_seq, 1)
      [] OTHER -> Distance(s.snd_una, m.ack) > Len(s.tx)

Acknowledged(s, m) ==
    CASE s.state = "SYN_RCVD" ->
            [s EXCEPT !.snd_una = m.ack, !.state = "ESTABLISHED", !.retry = 0, !.armed = FALSE]
      [] ~Before(s.snd_una, m.ack) -> IF m.ack = s.snd_una THEN DuplicateAck(s, m) ELSE s
      [] Finishing(s) -> FinAcknowledged(s, m)
      [] OTHER -> DataAcknowledged(s, m)

AfterFin(state) ==
    CASE state = "ESTABLISHED" -> "CLOSE_WAIT"
      [] state = "FIN_WAIT1" -> "CLOSING"
      [] state = "FIN_WAIT2" -> "TIME_WAIT"
      [] OTHER -> state

\* How much of the data was received before.
Trim(s, m) ==
    IF Before(m.seq, s.rcv_nxt) THEN Minimum(Distance(m.seq, s.rcv_nxt), Len(m.data)) ELSE 0

\* The data and the FIN of a segment; only what comes next is taken.
Received(s, m) ==
    LET trim == Trim(s, m)
        data == SubSeq(m.data, trim + 1, Len(m.data))
        take == Minimum(Len(data), Window(s))
        fin == "FIN" \in m.flags /\ take = Len(data) /\ ~s.peer_fin
    IN IF Add(m.seq, trim) # s.rcv_nxt THEN net_tcp_ack(s)
       ELSE net_tcp_ack([s EXCEPT
              !.rx = @ \o SubSeq(data, 1, take),
              !.rcv_nxt = Add(@, take + (IF fin THEN 1 ELSE 0)),
              !.peer_fin = @ \/ fin,
              !.state = IF fin THEN AfterFin(@) ELSE @])

\* The rest of net_tcp_input, once the acknowledgement is dealt with.
AfterAck(s, m) ==
    CASE ~s.used -> s
      [] s.peer_fin /\ m.data # <<>> -> net_tcp_ack(s)
      [] m.data = <<>> /\ "FIN" \notin m.flags -> net_tcp_pump(s, FALSE)
      [] Add(m.seq, Trim(s, m)) # s.rcv_nxt -> Received(s, m)
      [] OTHER -> net_tcp_pump(Received(s, m), FALSE)

\* net_tcp_input for a connection.
Input(s, m) ==
       CASE s.state = "SYN_SENT" -> InputSynSent(s, m)
         [] s.state = "TIME_WAIT" -> IF "FIN" \in m.flags THEN net_tcp_ack(s) ELSE s
         [] s.state = "ERROR" -> s
         [] s.state = "SYN_RCVD" /\ "SYN" \in m.flags /\ Add(m.seq, 1) = s.rcv_nxt ->
               net_tcp_pump([s EXCEPT !.armed = FALSE], FALSE)
         [] ~Acceptable(s, m) -> IF "RST" \in m.flags THEN s ELSE net_tcp_ack(s)
         [] "RST" \in m.flags -> IF m.seq = s.rcv_nxt THEN net_tcp_error(s) ELSE net_tcp_ack(s)
         [] "SYN" \in m.flags -> net_tcp_ack(s)
         [] "ACK" \notin m.flags -> s
         [] Before(s.snd_nxt, m.ack) -> net_tcp_ack(s)
         [] AckRefused(s, m) -> s
         [] OTHER -> AfterAck([Acknowledged(s, m) EXCEPT !.peer_window = m.win], m)

\* The answer to a segment that belongs to no connection.
Reset(m) ==
    [seq |-> IF "ACK" \in m.flags THEN m.ack ELSE 0,
     flags |-> {"RST"} \cup ({"ACK"} \ m.flags),
     data |-> <<>>, win |-> STREAM,
     ack |-> IF "ACK" \in m.flags THEN 0 ELSE Add(m.seq, SegLen(m))]

(***************************************************************************)
(* The actions.                                                            *)
(***************************************************************************)

\* A socket with nothing to send yet, and the step after which socket e is s,
\* what s sends is in the network, and queue is on its way to e.
Opened(s) == s @@ [out |-> <<>>]

Becomes(e, s, queue) ==
    /\ sock' = [sock EXCEPT ![e] = [f \in DOMAIN NewSocket |-> s[f]]]
    /\ net' = [net EXCEPT ![e] = queue, ![Peer(e)] = @ \o s.out]

k_net_listen ==
    /\ ~listening
    /\ ~sock["B"].born
    /\ listening' = TRUE
    /\ UNCHANGED <<sock, net, faults, app>>

k_net_connect ==
    /\ sock["A"].state = "NEW"
    /\ Becomes("A", net_tcp_pump(Opened([NewSocket EXCEPT
           !.used = TRUE, !.born = TRUE, !.state = "SYN_SENT",
           !.snd_una = ISS, !.snd_nxt = Add(ISS, 1)]), FALSE), net["A"])
    /\ UNCHANGED <<listening, faults, app>>

\* The listener's answer to a SYN.
Child(m) ==
    net_tcp_pump(Opened([NewSocket EXCEPT
        !.used = TRUE, !.born = TRUE, !.parent = TRUE, !.state = "SYN_RCVD",
        !.snd_una = ISS, !.snd_nxt = Add(ISS, 1), !.rcv_nxt = Add(m.seq, 1),
        !.peer_window = m.win]), FALSE)

\* What becomes of the socket at e when m arrives.  Bound: there is one child,
\* so that all segments belong to one connection.
Arrival(e, m) ==
    LET s == Opened(sock[e])
    IN CASE s.used -> Input(s, m)
         [] e = "B" /\ listening /\ ~s.born
                    /\ m.flags \cap {"SYN", "ACK", "RST", "FIN"} = {"SYN"} -> Child(m)
         [] OTHER -> IF "RST" \notin m.flags THEN With(s, <<Reset(m)>>) ELSE s

Without(q, k) == SubSeq(q, 1, k - 1) \o SubSeq(q, k + 1, Len(q))

Fault(is) ==
    /\ is => faults < FAULTS
    /\ faults' = IF is THEN faults + 1 ELSE faults

\* The k-th segment on its way to e arrives.  It is a fault to overtake
\* another one, or to arrive again.
net_tcp_input(e, k, again) ==
    /\ Fault(k > 1 \/ again)
    /\ Becomes(e, Arrival(e, net[e][k]), IF again THEN net[e] ELSE Without(net[e], k))
    /\ UNCHANGED <<listening, app>>

Lose(e, k) ==
    /\ Fault(TRUE)
    /\ net' = [net EXCEPT ![e] = Without(@, k)]
    /\ UNCHANGED <<sock, listening, app>>

\* A pass of net_worker over a socket; with fire the timers have run out.  A
\* timer that runs out while segments are on their way counts as a fault.
Pump(e, fire) ==
    /\ sock[e].used
    /\ sock[e].state \notin {"ERROR", "TIME_WAIT"}
    /\ Fault(fire /\ \E d \in Ends : net[d] # <<>>)
    /\ Becomes(e, net_tcp_pump(Opened(sock[e]), fire), net[e])
    /\ UNCHANGED <<listening, app>>

\* The deadlines of net_tcp_pump, and the end of a connection that nobody has
\* accepted or can close.
Expire(e) ==
    /\ sock[e].used
    /\ \/ sock[e].state = "TIME_WAIT" /\ sock' = [sock EXCEPT ![e].used = FALSE]
       \/ sock[e].state = "FIN_WAIT2" /\ sock' = [sock EXCEPT ![e] = net_tcp_error(@)]
       \/ /\ sock[e].state = "ERROR" /\ sock[e].parent
          /\ sock' = [sock EXCEPT ![e].used = FALSE]
    /\ UNCHANGED <<listening, net, faults, app>>

\* The address of the socket is gone, or a segment cannot be sent.
NetDown(e) ==
    /\ Fault(TRUE)
    /\ sock[e].used
    /\ sock[e].state \notin {"ERROR", "TIME_WAIT", "FIN_WAIT2"}
    /\ sock' = [sock EXCEPT ![e] = net_tcp_error(@)]
    /\ UNCHANGED <<listening, net, app>>

k_net_accept ==
    /\ listening
    /\ sock["B"].used /\ sock["B"].parent
    /\ sock["B"].state \in {"ESTABLISHED", "CLOSE_WAIT"}
    /\ sock' = [sock EXCEPT !["B"].parent = FALSE]
    /\ UNCHANGED <<listening, net, faults, app>>

\* A socket that its program can use.
Owned(e) == sock[e].used /\ ~sock[e].detached /\ ~sock[e].parent

k_net_send(e, n) ==
    LET s == Opened(sock[e])
        take == Minimum(n, STREAM - Len(s.tx))
    IN /\ Owned(e)
       /\ s.state \in {"ESTABLISHED", "CLOSE_WAIT"}
       /\ take > 0
       /\ Becomes(e, net_tcp_pump([s EXCEPT
             !.tx = @ \o [k \in 1 .. take |-> sent[e] + k]], FALSE), net[e])
       /\ sent' = [sent EXCEPT ![e] = @ + take]
       /\ UNCHANGED <<listening, faults, got, closed, eof>>

\* The program reads all there is, or is told that there will be no more.
k_net_receive(e) ==
    LET s == Opened(sock[e])
    IN /\ Owned(e)
       /\ IF s.rx # <<>>
          THEN /\ Becomes(e, net_tcp_ack([s EXCEPT !.rx = <<>>]), net[e])
               /\ got' = [got EXCEPT ![e] = @ \o s.rx]
               /\ UNCHANGED eof
          ELSE /\ s.peer_fin
               /\ eof' = [eof EXCEPT ![e] = TRUE]
               /\ UNCHANGED <<sock, net, got>>
       /\ UNCHANGED <<listening, faults, sent, closed>>

\* net_close_internal, for the program or after its death.
Abort(s) ==
    [net_tcp_packet(s, s.snd_nxt, {"RST", "ACK"}, <<>>) EXCEPT !.used = FALSE]

k_net_close(e) ==
    LET s == Opened(sock[e])
    IN /\ s.used /\ ~s.detached
       /\ Becomes(e, CASE s.state = "ERROR" -> [s EXCEPT !.used = FALSE]
                       [] Synchronising(s) -> Abort(s)
                       [] OTHER -> net_tcp_pump([s EXCEPT !.detached = TRUE,
                                                          !.close_requested = TRUE], FALSE),
                  net[e])
       /\ closed' = [closed EXCEPT ![e] = TRUE]
       /\ UNCHANGED <<listening, faults, sent, got, eof>>

CloseListener ==
    LET s == Opened(sock["B"])
    IN /\ listening
       /\ listening' = FALSE
       /\ Becomes("B", IF s.used /\ s.parent THEN Abort(s) ELSE s, net["B"])
       /\ UNCHANGED <<faults, app>>

Next ==
    \/ k_net_listen \/ k_net_connect \/ k_net_accept \/ CloseListener
    \/ \E e \in Ends :
         \/ \E k \in DOMAIN net[e] : Lose(e, k) \/ \E again \in BOOLEAN : net_tcp_input(e, k, again)
         \/ \E fire \in BOOLEAN : Pump(e, fire)
         \/ \E w \in WRITES : /\ sent[Peer(e)] <= w[Peer(e)]
                              /\ \E n \in 1 .. (w[e] - sent[e]) : k_net_send(e, n)
         \/ Expire(e) \/ NetDown(e) \/ k_net_receive(e) \/ k_net_close(e)

Spec == Init /\ [][Next]_vars

\* The states in which a pass with fire, and a receive, change something.
Firing(e) ==
    /\ sock[e].used
    /\ sock[e].state \notin {"ERROR", "TIME_WAIT"}
    /\ IF \A d \in Ends : net[d] = <<>>
       THEN net_tcp_pump(Opened(sock[e]), TRUE) # Opened(sock[e])
       ELSE faults < FAULTS
Readable(e) == Owned(e) /\ (sock[e].rx # <<>> \/ (sock[e].peer_fin /\ ~eof[e]))
Waiting(e) == listening /\ sock[e].used /\ sock[e].parent /\ sock[e].state \in {"ESTABLISHED", "CLOSE_WAIT"}

\* The network delivers what it does not lose, the worker passes over every
\* socket again and again with timers that run out, and the programs accept
\* connections and read: weak fairness, with the states written out in which
\* each action is enabled.
FairSpec ==
    /\ Spec
    /\ \A e \in Ends : /\ []<>(net[e] = <<>>) \/ []<><<net_tcp_input(e, 1, FALSE)>>_vars
                       /\ []<>~Firing(e) \/ []<><<Pump(e, TRUE)>>_vars
                       /\ []<>~Readable(e) \/ []<><<k_net_receive(e)>>_vars
    /\ []<>~Waiting("B") \/ []<><<k_net_accept>>_vars

Stream == INSTANCE ByteStream

\* The connection is a byte stream in each direction: whatever is lost,
\* repeated or reordered, however windows and buffers fill up, each byte is
\* read once and in order, and k_net_receive reports the end of the stream only
\* after the other end closed and all its bytes were read.
ImplementsStream == Stream!Spec

\* What was written is read in the end, also when the writer closes at once,
\* unless the connection breaks or the reader closes: no lost window update,
\* acknowledgement or FIN stalls a connection for ever.  (WRITES bounds what is
\* written, so to have caught up again and again is to read every byte.)
Progress ==
    \A e \in Ends :
       []<>(\/ Len(got[Peer(e)]) = sent[e]
            \/ closed[Peer(e)] \/ ~sock[Peer(e)].used
            \/ sock[e].state = "ERROR" \/ sock[Peer(e)].state = "ERROR")
=============================================================================
