------------------------------ MODULE Channels ------------------------------
(***************************************************************************)
(* What task messaging promises: an inbox per task id, a directory of      *)
(* service names and a relation saying who may write to whom.              *)
(*                                                                         *)
(* An id is opened once and closed once.  While it is open its inbox is a  *)
(* bounded FIFO queue; closing it discards the inbox, its names and its    *)
(* permissions, and nothing else ever takes them away.  Ipc.tla, with its  *)
(* reused slots, ring buffers and grant tables, is shown to implement it.  *)
(***************************************************************************)
EXTENDS Naturals, Sequences

CONSTANTS Ids, Names, Data,
          DEPTH             \* capacity of an inbox

Vacant == 0

VARIABLES
    phase,      \* phase[i]: "new", "open" or "closed"
    trusted,    \* the ids of kernel threads, which need no permission
    inbox,      \* inbox[i]: the messages i has still to receive
    peers,      \* <<i, j>> \in peers: i may write to j
    directory   \* directory[n]: the id that serves name n

vars == <<phase, trusted, inbox, peers, directory>>

Open(i) == phase[i] = "open"

Init ==
    /\ phase = [i \in Ids |-> "new"]
    /\ trusted = {}
    /\ inbox = [i \in Ids |-> <<>>]
    /\ peers = {}
    /\ directory = [n \in Names |-> Vacant]

Begin(i) ==
    /\ phase[i] = "new"
    /\ phase' = [phase EXCEPT ![i] = "open"]
    /\ trusted' \in {trusted, trusted \cup {i}}
    /\ UNCHANGED <<inbox, peers, directory>>

Close(i) ==
    /\ Open(i)
    /\ phase' = [phase EXCEPT ![i] = "closed"]
    /\ trusted' = trusted \ {i}
    /\ inbox' = [inbox EXCEPT ![i] = <<>>]
    /\ peers' = {p \in peers : p[1] # i /\ p[2] # i}
    /\ directory' = [n \in Names |-> IF directory[n] = i THEN Vacant ELSE directory[n]]

Send(i, j, d) ==
    /\ Open(i) /\ Open(j)
    /\ i \in trusted \/ i = j \/ <<i, j>> \in peers
    /\ Len(inbox[j]) < DEPTH
    /\ inbox' = [inbox EXCEPT ![j] = Append(@, [sender |-> i, data |-> d])]
    /\ UNCHANGED <<phase, trusted, peers, directory>>

Receive(i) ==
    /\ Open(i)
    /\ inbox[i] # <<>>
    /\ inbox' = [inbox EXCEPT ![i] = Tail(@)]
    /\ UNCHANGED <<phase, trusted, peers, directory>>

Register(i, n) ==
    /\ Open(i)
    /\ directory[n] = Vacant
    /\ directory' = [directory EXCEPT ![n] = i]
    /\ UNCHANGED <<phase, trusted, inbox, peers>>

\* Both directions at once, or neither.
Connect(i, n) ==
    /\ Open(i)
    /\ directory[n] # Vacant
    /\ peers' = peers \cup {<<directory[n], i>>}
                      \cup (IF i \in trusted THEN {} ELSE {<<i, directory[n]>>})
    /\ UNCHANGED <<phase, trusted, inbox, directory>>

Next ==
    \/ \E i \in Ids : Begin(i) \/ Close(i) \/ Receive(i)
    \/ \E i, j \in Ids, d \in Data : Send(i, j, d)
    \/ \E i \in Ids, n \in Names : Register(i, n) \/ Connect(i, n)

Spec == Init /\ [][Next]_vars
=============================================================================
