------------------------------ MODULE AlarmClock ------------------------------
(***************************************************************************)
(* AlarmLoop with a history of the alarms, to say how well the wheel of a  *)
(* controller keeps time: how many alarms there were, how many were lost,  *)
(* and how many passes each controller has made.                           *)
(***************************************************************************)
EXTENDS AlarmLoop

CONSTANT Horizon            \* bound: alarms the history is kept for

ASSUME AlarmClockAssumption == Horizon \in Nat

VARIABLES raised,           \* alarms raised
          lost,             \* alarms raised while another was pending
          passes,           \* per controller: passes begun
          firstAt           \* and alarms taken when the first one began

clockVars == <<raised, lost, passes, firstAt>>
allVars == <<vars, clockVars>>

NoPasses == [c \in Ctrl |-> 0]

ClockInit == /\ Init
             /\ raised = 0
             /\ lost = 0
             /\ passes = NoPasses
             /\ firstAt = NoPasses

(* Alarms that sigwait has taken.                                          *)
Taken == raised - lost - (IF pending THEN 1 ELSE 0)

(* The history counts the alarm, or it is one too many for it.             *)
ClockAlarm == /\ Alarm
              /\ raised' = raised + 1
              /\ IF raised' < Horizon
                   THEN /\ lost' = IF pending THEN lost + 1 ELSE lost
                        /\ UNCHANGED <<passes, firstAt>>
                   ELSE lost' = 0 /\ passes' = NoPasses /\ firstAt' = NoPasses

ClockCountTick ==
  /\ CountTick
  /\ IF thread' = "process"
       THEN /\ passes' = [passes EXCEPT ![scan] = @ + 1]
            /\ firstAt' = IF passes[scan] = 0 THEN [firstAt EXCEPT ![scan] = Taken]
                                              ELSE firstAt
       ELSE UNCHANGED <<passes, firstAt>>
  /\ UNCHANGED <<raised, lost>>

ClockOther == /\ \/ tmrModuleInit \/ tmrInit \/ StartTicking \/ TakeAlarm
                 \/ SkipCtrl \/ SeeCtrl \/ EndPass
              /\ UNCHANGED clockVars

(* The history is kept for Horizon alarms; the alarms go on.               *)
ClockNext == \/ raised < Horizon /\ (ClockAlarm \/ ClockCountTick \/ ClockOther)
             \/ raised >= Horizon /\ Next /\ UNCHANGED clockVars

ClockSpec == ClockInit /\ [][ClockNext]_allVars

ClockFairSpec == ClockSpec /\ Fairness
-----------------------------------------------------------------------------
(* timerLoopFunc has still to come to the controller with this alarm.      *)
Unseen(c) == \/ thread \in {"scan", "tick"} /\ scan <= c
             \/ thread = "process" /\ scan < c

(* Alarms counted for a controller since the one that began its first pass *)
Counted(c) == Taken - (IF Unseen(c) THEN 1 ELSE 0) - firstAt[c]

(* From its first pass on, a controller counts every alarm that is taken,  *)
(* once: what is not in its ticks has gone into whole periods              *)
(* (tdengine_old.c:121-132).                                               *)
TicksAccounted ==
  \A c \in Ctrl : passes[c] > 0 =>
     IF thread = "process" /\ scan = c
       THEN Counted(c) = (passes[c] - 1) * maxTicks[c]
       ELSE /\ Counted(c) = (passes[c] - 1) * maxTicks[c] + ticks[c]
            /\ ticks[c] \in 0 .. maxTicks[c] - 1

(* What a period of the controller takes on the clock: its resolution, but *)
(* for the milliseconds that do not make up a whole tick.                  *)
PeriodOnClock(c) == resolution[c] - (resolution[c] % MSECONDS_PER_TICK)

(* The wheel runs ahead of the clock by nothing but the milliseconds that  *)
(* tmrInit's division drops in each period, whatever the resolution: after *)
(* the first pass, which may come at any time, passes are no more than one *)
(* to a period on the clock, so that a timer of a whole resolution is not  *)
(* early by more than the period it was armed in                           *)
(* (tdengine_old.c:126-130, 203-206, 231).                                 *)
WheelNotAhead ==
  \A c \in Ctrl : passes[c] > 0 =>
     (passes[c] - 1) * PeriodOnClock(c) <= (raised - 1) * MSECONDS_PER_TICK

(* The wheel falls behind the clock by the alarms that were lost, and by   *)
(* one period and the alarm in hand: by nothing else                       *)
(* (tdengine_old.c:124-130, 155-160).                                      *)
WheelNotBehind ==
  \A c \in Ctrl : passes[c] > 0 =>
     (raised - lost - firstAt[c]) * MSECONDS_PER_TICK
        < passes[c] * PeriodOnClock(c) + 2 * MSECONDS_PER_TICK
=============================================================================
