---------------------------- MODULE MCScheduler ----------------------------
(* Two CPUs with their idle tasks, the boot task and two more slots.       *)
EXTENDS Scheduler, TLC

CONSTANTS c0, c1, idle0, idle1

MCIdle == c0 :> idle0 @@ c1 :> idle1
=============================================================================
