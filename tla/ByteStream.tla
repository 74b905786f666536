----------------------------- MODULE ByteStream -----------------------------
(***************************************************************************)
(* What a TCP connection promises to the two programs that use it: each    *)
(* reads what the other has written, every byte once and in order, and is  *)
(* told of the end of the stream only when the other has closed its side   *)
(* and everything it wrote has been read.                                  *)
(***************************************************************************)
EXTENDS Integers, Sequences

CONSTANT Ends

VARIABLES
    sent,   \* the number of bytes each end has written: byte k is the number k
    got,    \* what each end has read
    closed, \* whether each end has closed its side
    eof     \* whether each end has been told of the end of the stream

Peer(e) == CHOOSE o \in Ends : o # e

Init ==
    /\ sent = [e \in Ends |-> 0]
    /\ got = [e \in Ends |-> <<>>]
    /\ closed = [e \in Ends |-> FALSE]
    /\ eof = [e \in Ends |-> FALSE]

Write(e) ==
    /\ ~closed[e]
    /\ sent'[e] > sent[e]
    /\ sent' = [sent EXCEPT ![e] = sent'[e]]
    /\ UNCHANGED <<got, closed, eof>>

Read(e) ==
    /\ Len(got'[e]) \in (Len(got[e]) + 1) .. sent[Peer(e)]
    /\ got' = [got EXCEPT ![e] = [k \in 1 .. Len(got'[e]) |-> k]]
    /\ UNCHANGED <<sent, closed, eof>>

Close(e) ==
    /\ closed' = [closed EXCEPT ![e] = TRUE]
    /\ UNCHANGED <<sent, got, eof>>

End(e) ==
    /\ closed[Peer(e)]
    /\ Len(got[e]) = sent[Peer(e)]
    /\ eof' = [eof EXCEPT ![e] = TRUE]
    /\ UNCHANGED <<sent, got, closed>>

Next == \E e \in Ends : Write(e) \/ Read(e) \/ Close(e) \/ End(e)

Spec == Init /\ [][Next]_<<sent, got, closed, eof>>
=============================================================================
