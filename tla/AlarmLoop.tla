------------------------------- MODULE AlarmLoop -------------------------------
(***************************************************************************)
(* What drives the timer controllers of ttimer/tdengine_old.c: a periodic  *)
(* SIGALRM, the timer thread that waits for it (processAlarmSignal) and    *)
(* counts ticks for every controller (timerLoopFunc), and the main thread  *)
(* that starts the timer thread (tmrModuleInit) and builds controllers     *)
(* under its eyes (tmrInit), without a lock.                               *)
(*                                                                         *)
(* SIGALRM is blocked in every thread, so that it stays pending until      *)
(* sigwait takes it, and one that is raised while another is pending is    *)
(* lost. What a pass of tmrProcessList does to the controller's wheel is   *)
(* the subject of TimerCtrl; here it only takes time. Plain stores are     *)
(* taken to be visible in program order.                                   *)
(***************************************************************************)
EXTENDS Integers

CONSTANTS MaxNumOfTmrCtrl,  \* entries of tmrCtrl (16)
          Resolution,       \* the resolutions callers pass to tmrInit, in ms
          Longest,          \* the longest delays callers pass, in ms
          RandMax,          \* rand() is 0 .. RandMax
          IntMax,           \* an int is -IntMax-1 .. IntMax (2^31-1)
          Inits             \* bound: calls of tmrInit

MSECONDS_PER_TICK == 5

ASSUME AlarmLoopAssumption ==
  /\ MaxNumOfTmrCtrl \in Nat \ {0}
  /\ IntMax \in Nat \ {0} /\ RandMax \in 0 .. IntMax
  /\ Resolution \subseteq 0 .. IntMax * MSECONDS_PER_TICK
  /\ Longest \subseteq Nat
  /\ Inits \in Nat

Ctrl == 0 .. MaxNumOfTmrCtrl - 1

ToInt(x) == ((x + IntMax + 1) % (2 * IntMax + 2)) - IntMax - 1

VARIABLES signature,        \* per controller: whether it is ready
          ticks,            \* alarms since its last pass
          maxTicks,         \* alarms in one of its periods
          resolution,       \* milliseconds in one of its periods
          numOfPeriods,     \* slots of its wheel
          tmrList,          \* whether the slots have been allocated
          pending,          \* SIGALRM has been raised and not been taken
          ticking,          \* setitimer has been called
          thread,           \* where the timer thread is
          scan,             \* timerLoopFunc's loop index
          main,             \* where the main thread is
          inits             \* calls of tmrInit so far

ctrlVars == <<signature, ticks, maxTicks, resolution, numOfPeriods, tmrList>>
mainVars == <<main, inits>>
threadVars == <<thread, scan>>
vars == <<signature, ticks, maxTicks, resolution, numOfPeriods, tmrList,
          pending, ticking, thread, scan, main, inits>>

Init == /\ signature = [c \in Ctrl |-> FALSE]
        /\ ticks = [c \in Ctrl |-> 0]
        /\ maxTicks = [c \in Ctrl |-> 0]
        /\ resolution = [c \in Ctrl |-> 0]
        /\ numOfPeriods = [c \in Ctrl |-> 0]
        /\ tmrList = [c \in Ctrl |-> FALSE]
        /\ pending = FALSE
        /\ ticking = FALSE
        /\ thread = "none"
        /\ scan = 0
        /\ main = "moduleInit"
        /\ inits = 0

Running == main # "crashed"
-----------------------------------------------------------------------------
(* tmrModuleInit: the controllers are cleared, as they are already, and    *)
(* the timer thread is created, or is not, which nobody is told.           *)
tmrModuleInit ==
  /\ main = "moduleInit"
  /\ main' = "idle"
  /\ thread' \in {"starting", "none"}
  /\ UNCHANGED <<signature, ticks, maxTicks, resolution, numOfPeriods, tmrList,
                 pending, ticking, scan, inits>>

(* tmrInit is called: it takes the first controller, and clears it.        *)
InitClear ==
  /\ main = "idle"
  /\ inits < Inits
  /\ inits' = inits + 1
  /\ signature' = [signature EXCEPT ![0] = FALSE]
  /\ ticks' = [ticks EXCEPT ![0] = 0]
  /\ maxTicks' = [maxTicks EXCEPT ![0] = 0]
  /\ resolution' = [resolution EXCEPT ![0] = 0]
  /\ numOfPeriods' = [numOfPeriods EXCEPT ![0] = 0]
  /\ tmrList' = [tmrList EXCEPT ![0] = FALSE]
  /\ main' = "cleared"
  /\ UNCHANGED <<pending, ticking, thread, scan>>

(* memPoolInit fails; memPoolCleanup(NULL) takes the process down.         *)
InitPoolFails ==
  /\ main = "cleared"
  /\ main' = "crashed"
  /\ UNCHANGED <<signature, ticks, maxTicks, resolution, numOfPeriods, tmrList,
                 pending, ticking, thread, scan, inits>>

AtLeast(m, x) == IF x < m THEN m ELSE x

(* Mutant: the controller is the timer thread's before it has its slots.   *)
ListsPublishFirst ==
  /\ main = "fields"
  /\ signature' = [signature EXCEPT ![0] = TRUE]
  /\ main' = "lists"
  /\ UNCHANGED <<ticks, maxTicks, resolution, numOfPeriods, tmrList, pending,
                 ticking, thread, scan, inits>>

(* The arithmetic of tmrInit. The ticks start from rand() / maxTicks,      *)
(* which is mostly far above maxTicks.                                     *)
InitFields ==
  /\ main = "cleared"
  /\ \E r \in Resolution, l \in Longest, rand \in 0 .. RandMax :
       LET res == AtLeast(MSECONDS_PER_TICK, r)
           mt == res \div MSECONDS_PER_TICK
       IN  /\ resolution' = [resolution EXCEPT ![0] = res]
           /\ maxTicks' = [maxTicks EXCEPT ![0] = mt]
           /\ ticks' = [ticks EXCEPT ![0] = rand \div mt]
           /\ numOfPeriods' = [numOfPeriods EXCEPT ![0] = AtLeast(10, l \div res)]
  /\ main' = "fields"
  /\ UNCHANGED <<signature, tmrList, pending, ticking, thread, scan, inits>>

InitLists ==
  /\ main = "fields"
  /\ tmrList' = [tmrList EXCEPT ![0] = TRUE]
  /\ main' = "lists"
  /\ UNCHANGED <<signature, ticks, maxTicks, resolution, numOfPeriods, pending,
                 ticking, thread, scan, inits>>

(* The last store of tmrInit makes the controller the timer thread's.      *)
InitPublish ==
  /\ main = "lists"
  /\ signature' = [signature EXCEPT ![0] = TRUE]
  /\ main' = "idle"
  /\ UNCHANGED <<ticks, maxTicks, resolution, numOfPeriods, tmrList, pending,
                 ticking, thread, scan, inits>>

tmrInit == InitClear \/ InitPoolFails \/ InitFields \/ InitLists \/ InitPublish
-----------------------------------------------------------------------------
(* Mutant: an interval timer with no interval.                             *)
AlarmOnce ==
  /\ Running
  /\ ticking
  /\ pending' = TRUE
  /\ ticking' = FALSE
  /\ UNCHANGED <<signature, ticks, maxTicks, resolution, numOfPeriods, tmrList,
                 thread, scan, main, inits>>

(* The interval timer raises SIGALRM.                                      *)
Alarm ==
  /\ Running
  /\ ticking
  /\ pending' = TRUE
  /\ UNCHANGED <<signature, ticks, maxTicks, resolution, numOfPeriods, tmrList,
                 ticking, thread, scan, main, inits>>

(* processAlarmSignal starts: it sets the interval timer going.            *)
StartTicking ==
  /\ Running
  /\ thread = "starting"
  /\ ticking' = TRUE
  /\ thread' = "sigwait"
  /\ UNCHANGED <<signature, ticks, maxTicks, resolution, numOfPeriods, tmrList,
                 pending, scan, main, inits>>

(* sigwait takes the pending SIGALRM and timerLoopFunc starts.             *)
TakeAlarm ==
  /\ Running
  /\ thread = "sigwait"
  /\ pending
  /\ pending' = FALSE
  /\ thread' = "scan"
  /\ scan' = 0
  /\ UNCHANGED <<signature, ticks, maxTicks, resolution, numOfPeriods, tmrList,
                 ticking, main, inits>>

(* Mutant: the loop goes one controller too far.                           *)
NextCtrlTooFar ==
  IF scan + 1 <= MaxNumOfTmrCtrl
    THEN scan' = scan + 1 /\ thread' = "scan"
    ELSE scan' = 0 /\ thread' = "sigwait"

(* The loop goes on to the next controller, or back to sigwait.            *)
NextCtrl ==
  IF scan + 1 < MaxNumOfTmrCtrl
    THEN scan' = scan + 1 /\ thread' = "scan"
    ELSE scan' = 0 /\ thread' = "sigwait"

(* The controller is not in use.                                           *)
SkipCtrl ==
  /\ Running
  /\ thread = "scan"
  /\ ~ signature[scan]
  /\ NextCtrl
  /\ UNCHANGED <<signature, ticks, maxTicks, resolution, numOfPeriods, tmrList,
                 pending, ticking, main, inits>>

(* The controller is in use, by its signature at this moment.              *)
SeeCtrl ==
  /\ Running
  /\ thread = "scan"
  /\ signature[scan]
  /\ thread' = "tick"
  /\ UNCHANGED <<signature, ticks, maxTicks, resolution, numOfPeriods, tmrList,
                 pending, ticking, scan, main, inits>>

(* Mutants: a period that is a tick too short, or too long.                *)
PeriodTooShort(t, c) == t >= maxTicks[c] - 1
PeriodTooLong(t, c) == t > maxTicks[c]

(* The ticks make up a period of the controller.                           *)
PeriodOver(t, c) == t >= maxTicks[c]

(* The tick is counted; it ends a period or it does not.                   *)
CountTick ==
  LET t == ToInt(ticks[scan] + 1)
  IN  /\ Running
      /\ thread = "tick"
      /\ ticks' = [ticks EXCEPT ![scan] = t]
      /\ IF PeriodOver(t, scan)
           THEN thread' = "process" /\ UNCHANGED scan
           ELSE NextCtrl
      /\ UNCHANGED <<signature, maxTicks, resolution, numOfPeriods, tmrList,
                     pending, ticking, main, inits>>

(* Mutant: the ticks are not reset after a pass.                           *)
EndKeepsTicks ==
  /\ Running
  /\ thread = "process"
  /\ NextCtrl
  /\ UNCHANGED <<signature, ticks, maxTicks, resolution, numOfPeriods, tmrList,
                 pending, ticking, main, inits>>

(* tmrProcessList has returned and the ticks start again.                  *)
EndPass ==
  /\ Running
  /\ thread = "process"
  /\ ticks' = [ticks EXCEPT ![scan] = 0]
  /\ NextCtrl
  /\ UNCHANGED <<signature, maxTicks, resolution, numOfPeriods, tmrList, pending,
                 ticking, main, inits>>

timerLoopFunc == SkipCtrl \/ SeeCtrl \/ CountTick \/ EndPass

processAlarmSignal == StartTicking \/ TakeAlarm \/ timerLoopFunc

Next == tmrModuleInit \/ tmrInit \/ Alarm \/ processAlarmSignal

Spec == Init /\ [][Next]_vars

(* The interval timer never stops, and the timer thread is scheduled.      *)
Fairness == WF_vars(Alarm) /\ WF_vars(processAlarmSignal)
-----------------------------------------------------------------------------
(* Types of the shared fields and of where the two threads are.            *)
TypeOK == /\ signature \in [Ctrl -> BOOLEAN]
          /\ ticks \in [Ctrl -> -IntMax - 1 .. IntMax]
          /\ maxTicks \in [Ctrl -> 0 .. IntMax]
          /\ resolution \in [Ctrl -> Nat]
          /\ numOfPeriods \in [Ctrl -> Nat]
          /\ tmrList \in [Ctrl -> BOOLEAN]
          /\ pending \in BOOLEAN
          /\ ticking \in BOOLEAN
          /\ thread \in {"none", "starting", "sigwait", "scan", "tick", "process"}
          /\ scan \in Ctrl
          /\ main \in {"moduleInit", "idle", "cleared", "fields", "lists", "crashed"}
          /\ inits \in 0 .. Inits

(* The timer thread never works on a controller that tmrInit has still to  *)
(* build: when it processes one, the controller has periods to divide by   *)
(* (tdengine_old.c:78) and slots to look into (tdengine_old.c:79), though  *)
(* the two threads share no lock (tdengine_old.c:192-217, 124-129).        *)
NoHalfBuiltController ==
  thread = "process" => /\ numOfPeriods[scan] > 0
                        /\ maxTicks[scan] > 0
                        /\ tmrList[scan]

(* A controller that is ready is processed, again and again, for as long   *)
(* as the timer thread could be created, whatever number its ticks started *)
(* from (tdengine_old.c:126-130, 153-161, 206).                            *)
PassesGoOn ==
  \A c \in Ctrl :
     signature[c] /\ thread # "none" ~> thread = "process" /\ scan = c
=============================================================================
