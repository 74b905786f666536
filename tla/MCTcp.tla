------------------------------- MODULE MCTcp -------------------------------
(* Buffers of two segments.  Either both ends write, or one writes more than  *)
(* its peer's buffer holds while the peer does not read.                      *)
EXTENDS Tcp

MCWrites == {[A |-> 2, B |-> 1], [A |-> 3, B |-> 0]}
=============================================================================
