----------------------------- MODULE MCTimerCtrl -----------------------------
(* One controller on small instances: the delays are none, less than a     *)
(* turn of the wheel, exactly one, and more than one.                      *)
EXTENDS TimerCtrl

MCPeriod == { 0, 1, 2, 5 }

(* For the run whose short does not hold the turns of the longest delay.   *)
MCShortPeriod == { 0, 1, 5 }
=============================================================================
