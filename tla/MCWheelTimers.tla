---------------------------- MODULE MCWheelTimers ----------------------------
(* Two timers, three threads and two wheels: any two threads can stop a    *)
(* timer at once while a third starts the other one, or adds it again.     *)
EXTENDS WheelTimers
=============================================================================
