----------------------------- MODULE MCAlarmClock -----------------------------
(* Two entries of tmrCtrl; resolutions below the alarm's period, equal to  *)
(* it, two and three times as long, and between those; longest delays on   *)
(* both sides of ten periods.                                              *)
EXTENDS AlarmClock

MCResolution == { 1, 5, 7, 10, 12, 15 }
MCLongest == { 50, 120 }
=============================================================================
