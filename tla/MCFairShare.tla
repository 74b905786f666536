---------------------------- MODULE MCFairShare ----------------------------
(* Three tasks, the last as heavy as the others together.                *)
EXTENDS FairShare

MCWeight == <<1, 1, 2>>
=============================================================================
