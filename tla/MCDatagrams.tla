---------------------------- MODULE MCDatagrams ----------------------------
(* A small instance of Datagrams. *)
EXTENDS Datagrams

MCBudgets == {[calls |-> 0, sends |-> 3, pings |-> 0, faults |-> 1],
              [calls |-> 0, sends |-> 0, pings |-> 3, faults |-> 1],
              [calls |-> 4, sends |-> 0, pings |-> 0, faults |-> 0],
              [calls |-> 1, sends |-> 0, pings |-> 1, faults |-> 2],
              [calls |-> 2, sends |-> 1, pings |-> 0, faults |-> 1]}

=============================================================================
