---------------------------- MODULE AlarmClockProofs ----------------------------
(***************************************************************************)
(* Proofs about AlarmLoop and AlarmClock, for any number of controllers,   *)
(* any resolutions and any number of alarms. What is proved of controllers *)
(* in use assumes that tmrInit is called once: a second call rebuilds the  *)
(* controller of the first.                                                *)
(***************************************************************************)
EXTENDS AlarmClock, TLAPS

(* The history follows the loop: a step of it is a step of the loop.       *)
LEMMA ClockStepIsLoopStep ==
  ASSUME [ClockNext]_allVars
  PROVE  [Next]_vars
BY DEF allVars, ClockNext, ClockAlarm, ClockCountTick, ClockOther, Next,
       processAlarmSignal, timerLoopFunc

(* The next entry of tmrCtrl is an entry.                                  *)
LEMMA NextCtrlTypes ==
  ASSUME scan \in Ctrl, NextCtrl
  PROVE  scan' \in Ctrl /\ thread' \in {"scan", "sigwait"}
BY AlarmLoopAssumption DEF NextCtrl, Ctrl

(* tmrInit's conversions keep within an int, and the ticks of a period are *)
(* at least one.                                                           *)
LEMMA FieldsTypes ==
  ASSUME NEW r \in Resolution, NEW l \in Longest, NEW rand \in 0 .. RandMax,
         NEW res, res = AtLeast(MSECONDS_PER_TICK, r),
         NEW mt, mt = res \div MSECONDS_PER_TICK
  PROVE  /\ res \in Nat /\ mt \in 1 .. IntMax
         /\ rand \div mt \in 0 .. IntMax
         /\ AtLeast(10, l \div res) \in Nat \ {0}
         /\ res - (res % MSECONDS_PER_TICK) = mt * MSECONDS_PER_TICK
<1>1. /\ r \in Nat /\ r <= 5 * IntMax /\ l \in Nat /\ rand \in Nat
      /\ IntMax \in Nat /\ IntMax >= 1 /\ rand <= IntMax
  BY AlarmLoopAssumption DEF MSECONDS_PER_TICK
<1>2. res \in Nat /\ res >= 5 /\ res <= 5 * IntMax
  BY <1>1 DEF AtLeast, MSECONDS_PER_TICK
<1>3. mt \in 1 .. IntMax /\ res - (res % 5) = mt * 5
  BY <1>1, <1>2 DEF MSECONDS_PER_TICK
<1>4. rand \div mt \in 0 .. IntMax
  <2>1. rand \div mt \in Nat /\ rand \div mt <= rand
    BY <1>1, <1>3
  <2>2. QED
    BY <2>1, <1>1
<1>5. l \div res \in Int
  BY <1>1, <1>2
<1>6. AtLeast(10, l \div res) \in Nat \ {0}
  BY <1>5 DEF AtLeast
<1>7. QED
  BY <1>2, <1>3, <1>4, <1>6 DEF MSECONDS_PER_TICK
-----------------------------------------------------------------------------
(* A controller that is built has everything a pass uses.                  *)
Built(c) == /\ numOfPeriods[c] > 0
            /\ maxTicks[c] > 0
            /\ tmrList[c]

(* What tmrInit has done so far, and that nobody sees it before the end.   *)
Building ==
  /\ \A c \in Ctrl : signature[c] => c = 0 /\ Built(c)
  /\ inits = 0 => main \in {"moduleInit", "idle"} /\ ~ signature[0]
  /\ main \in {"cleared", "fields", "lists"} => ~ signature[0]
  /\ main \in {"fields", "lists"} => numOfPeriods[0] > 0 /\ maxTicks[0] > 0
  /\ main = "lists" => tmrList[0]

(* The timer thread works on controllers that are ready only.              *)
Seeing == thread \in {"tick", "process"} => signature[scan]

LoopInv == TypeOK /\ Building /\ Seeing

(* Nothing is built, and nothing has been seen, before tmrModuleInit.      *)
LEMMA LoopInit ==
  ASSUME Init
  PROVE  LoopInv
<1>1. 0 \in Ctrl
  BY AlarmLoopAssumption DEF Ctrl
<1>2. TypeOK
  <2>1. 0 \in -IntMax - 1 .. IntMax /\ 0 \in 0 .. IntMax /\ 0 \in 0 .. Inits
    BY AlarmLoopAssumption
  <2>2. QED
    BY <1>1, <2>1 DEF Init, TypeOK
<1>3. QED
  BY <1>1, <1>2 DEF Init, LoopInv, Building, Seeing

(* Every step keeps the types.                                             *)
LEMMA TypeStep ==
  ASSUME TypeOK, [Next]_vars
  PROVE  TypeOK'
<1>1. 0 \in Ctrl
  BY AlarmLoopAssumption DEF Ctrl
<1>2. CASE tmrModuleInit
  BY <1>2 DEF TypeOK, tmrModuleInit
<1>3. CASE InitClear
  BY <1>1, <1>3, AlarmLoopAssumption DEF TypeOK, InitClear
<1>4. CASE InitPoolFails
  BY <1>4 DEF TypeOK, InitPoolFails
<1>5. CASE InitFields
  <2>1. PICK r \in Resolution, l \in Longest, rand \in 0 .. RandMax :
          LET res == AtLeast(MSECONDS_PER_TICK, r)
              mt == res \div MSECONDS_PER_TICK
          IN  /\ resolution' = [resolution EXCEPT ![0] = res]
              /\ maxTicks' = [maxTicks EXCEPT ![0] = mt]
              /\ ticks' = [ticks EXCEPT ![0] = rand \div mt]
              /\ numOfPeriods' = [numOfPeriods EXCEPT ![0] = AtLeast(10, l \div res)]
    BY <1>5 DEF InitFields
  <2>2. PICK res : res = AtLeast(MSECONDS_PER_TICK, r)
    OBVIOUS
  <2>3. PICK mt : mt = res \div MSECONDS_PER_TICK
    OBVIOUS
  <2>4. /\ res \in Nat /\ mt \in 1 .. IntMax /\ rand \div mt \in 0 .. IntMax
        /\ AtLeast(10, l \div res) \in Nat
    BY <2>2, <2>3, FieldsTypes
  <2>5. PICK t : t = rand \div mt
    OBVIOUS
  <2>6. PICK n : n = AtLeast(10, l \div res)
    OBVIOUS
  <2>7. /\ resolution' = [resolution EXCEPT ![0] = res]
        /\ maxTicks' = [maxTicks EXCEPT ![0] = mt]
        /\ ticks' = [ticks EXCEPT ![0] = t]
        /\ numOfPeriods' = [numOfPeriods EXCEPT ![0] = n]
    BY <2>1, <2>2, <2>3, <2>5, <2>6
  <2>8. t \in -IntMax - 1 .. IntMax /\ mt \in 0 .. IntMax /\ n \in Nat
    BY <2>4, <2>5, <2>6, AlarmLoopAssumption
  <2>9. QED
    BY <1>5, <2>4, <2>7, <2>8 DEF TypeOK, InitFields
<1>6. CASE InitLists
  BY <1>6 DEF TypeOK, InitLists
<1>7. CASE InitPublish
  BY <1>7 DEF TypeOK, InitPublish
<1>8. CASE Alarm
  BY <1>8 DEF TypeOK, Alarm
<1>9. CASE StartTicking
  BY <1>9 DEF TypeOK, StartTicking
<1>10. CASE TakeAlarm
  BY <1>1, <1>10 DEF TypeOK, TakeAlarm
<1>11. CASE SkipCtrl
  BY <1>11, NextCtrlTypes DEF TypeOK, SkipCtrl
<1>12. CASE SeeCtrl
  BY <1>12 DEF TypeOK, SeeCtrl
<1>13. CASE CountTick
  <2>1. PICK t : t = ToInt(ticks[scan] + 1)
    OBVIOUS
  <2>2. ticks[scan] \in Int
    BY AlarmLoopAssumption DEF TypeOK
  <2>3. t \in -IntMax - 1 .. IntMax
    BY <2>1, <2>2, AlarmLoopAssumption DEF ToInt
  <2>4. /\ ticks' = [ticks EXCEPT ![scan] = t]
        /\ \/ thread' = "process" /\ UNCHANGED scan
           \/ NextCtrl
    BY <1>13, <2>1 DEF CountTick
  <2>5. scan' \in Ctrl /\ thread' \in {"process", "scan", "sigwait"}
    BY <2>4, NextCtrlTypes DEF TypeOK
  <2>6. QED
    BY <1>13, <2>3, <2>4, <2>5 DEF TypeOK, CountTick
<1>14. CASE EndPass
  <2>1. 0 \in -IntMax - 1 .. IntMax
    BY AlarmLoopAssumption
  <2>2. QED
    BY <1>14, <2>1, NextCtrlTypes DEF TypeOK, EndPass
<1>15. CASE UNCHANGED vars
  BY <1>15 DEF TypeOK, vars
<1>16. QED
  BY <1>2, <1>3, <1>4, <1>5, <1>6, <1>7, <1>8, <1>9, <1>10, <1>11, <1>12, <1>13,
     <1>14, <1>15
  DEF Next, tmrInit, processAlarmSignal, timerLoopFunc

(* Every step keeps what tmrInit has built away from the timer thread      *)
(* until it is whole.                                                      *)
LEMMA LoopStep ==
  ASSUME Inits <= 1, LoopInv, [Next]_vars
  PROVE  LoopInv'
<1>1. 0 \in Ctrl
  BY AlarmLoopAssumption DEF Ctrl
<1>2. TypeOK /\ Building /\ Seeing /\ TypeOK'
  BY TypeStep DEF LoopInv
<1>3. SUFFICES Building' /\ Seeing'
  BY <1>2 DEF LoopInv
<1>4. CASE tmrModuleInit
  BY <1>2, <1>4 DEF TypeOK, Building, Seeing, Built, tmrModuleInit
<1>5. CASE InitClear
  <2>1. inits = 0 /\ inits' = 1
    BY <1>2, <1>5, AlarmLoopAssumption DEF TypeOK, InitClear
  <2>2. \A c \in Ctrl : ~ signature[c]
    BY <1>2, <2>1 DEF Building
  <2>3. \A c \in Ctrl : ~ signature'[c]
    BY <1>1, <1>2, <1>5, <2>2 DEF TypeOK, InitClear
  <2>4. main' = "cleared" /\ UNCHANGED threadVars
    BY <1>5 DEF InitClear, threadVars
  <2>5. thread \notin {"tick", "process"}
    BY <1>2, <2>2 DEF Seeing, TypeOK
  <2>6. QED
    BY <1>1, <2>1, <2>3, <2>4, <2>5 DEF Building, Seeing, threadVars
<1>6. CASE InitPoolFails
  BY <1>2, <1>6 DEF TypeOK, Building, Seeing, Built, InitPoolFails
<1>7. CASE InitFields
  <2>1. \A c \in Ctrl : ~ signature[c]
    BY <1>2, <1>7 DEF Building, InitFields
  <2>2. /\ UNCHANGED <<signature, thread, scan, inits>> /\ main' = "fields"
        /\ inits # 0
    BY <1>2, <1>7 DEF InitFields, Building
  <2>3. numOfPeriods'[0] > 0 /\ maxTicks'[0] > 0
    <3>1. PICK r \in Resolution, l \in Longest, rand \in 0 .. RandMax :
            LET res == AtLeast(MSECONDS_PER_TICK, r)
                mt == res \div MSECONDS_PER_TICK
            IN  /\ maxTicks' = [maxTicks EXCEPT ![0] = mt]
                /\ numOfPeriods' = [numOfPeriods EXCEPT ![0] = AtLeast(10, l \div res)]
      BY <1>7 DEF InitFields
    <3>2. PICK res : res = AtLeast(MSECONDS_PER_TICK, r)
      OBVIOUS
    <3>3. PICK mt : mt = res \div MSECONDS_PER_TICK
      OBVIOUS
    <3>4. PICK n : n = AtLeast(10, l \div res)
      OBVIOUS
    <3>5. mt \in 1 .. IntMax /\ n \in Nat \ {0}
      BY <3>2, <3>3, <3>4, FieldsTypes
    <3>6. /\ maxTicks' = [maxTicks EXCEPT ![0] = mt]
          /\ numOfPeriods' = [numOfPeriods EXCEPT ![0] = n]
      BY <3>1, <3>2, <3>3, <3>4
    <3>7. maxTicks'[0] = mt /\ numOfPeriods'[0] = n
      BY <1>1, <1>2, <3>6 DEF TypeOK
    <3>8. QED
      BY <3>5, <3>7
  <2>4. QED
    BY <1>1, <1>2, <2>1, <2>2, <2>3 DEF Building, Seeing
<1>8. CASE InitLists
  BY <1>1, <1>2, <1>8 DEF TypeOK, Building, Seeing, Built, InitLists
<1>9. CASE InitPublish
  BY <1>1, <1>2, <1>9 DEF TypeOK, Building, Seeing, Built, InitPublish
<1>10. CASE Alarm
  BY <1>2, <1>10 DEF Building, Seeing, Built, Alarm
<1>11. CASE StartTicking
  BY <1>2, <1>11 DEF Building, Seeing, Built, StartTicking
<1>12. CASE TakeAlarm
  BY <1>2, <1>12 DEF Building, Seeing, Built, TakeAlarm
<1>13. CASE SkipCtrl
  BY <1>2, <1>13, NextCtrlTypes DEF TypeOK, Building, Seeing, Built, SkipCtrl
<1>14. CASE SeeCtrl
  BY <1>2, <1>14 DEF Building, Seeing, Built, SeeCtrl
<1>15. CASE CountTick
  <2>1. \/ thread' = "process" /\ UNCHANGED scan
        \/ thread' \in {"scan", "sigwait"}
    BY <1>2, <1>15, NextCtrlTypes DEF CountTick, TypeOK
  <2>2. Seeing'
    BY <1>2, <1>15, <2>1 DEF Seeing, CountTick
  <2>3. QED
    BY <1>2, <1>15, <2>2 DEF Building, Built, CountTick
<1>16. CASE EndPass
  BY <1>2, <1>16, NextCtrlTypes DEF TypeOK, Building, Seeing, Built, EndPass
<1>17. CASE UNCHANGED vars
  BY <1>2, <1>17 DEF Building, Seeing, Built, vars
<1>18. QED
  BY <1>4, <1>5, <1>6, <1>7, <1>8, <1>9, <1>10, <1>11, <1>12, <1>13, <1>14, <1>15,
     <1>16, <1>17
  DEF Next, tmrInit, processAlarmSignal, timerLoopFunc

(* AlarmLoop is type correct, however often tmrInit is called.             *)
THEOREM LoopTypeCorrect == Spec => []TypeOK
<1>1. Init => TypeOK
  BY LoopInit DEF LoopInv
<1>2. TypeOK /\ [Next]_vars => TypeOK'
  BY TypeStep
<1>3. QED
  BY <1>1, <1>2, PTL DEF Spec

(* When tmrInit is called once at most, the timer thread never processes a *)
(* controller that is half built.                                          *)
THEOREM OnlyBuiltControllers ==
  ASSUME Inits <= 1
  PROVE  Spec => []NoHalfBuiltController
<1>1. Init => LoopInv
  BY LoopInit
<1>2. LoopInv /\ [Next]_vars => LoopInv'
  BY LoopStep
<1>3. LoopInv => NoHalfBuiltController
  BY DEF LoopInv, TypeOK, Building, Seeing, Built, NoHalfBuiltController
<1>4. QED
  BY <1>1, <1>2, <1>3, PTL DEF Spec
-----------------------------------------------------------------------------
ClockTypes == /\ raised \in Nat /\ lost \in Nat
              /\ passes \in [Ctrl -> Nat]
              /\ firstAt \in [Ctrl -> Nat]

(* No more alarms are taken than were raised, the timer thread is at work  *)
(* on one it has taken, and it exists only when it was created.            *)
AlarmsTaken == /\ Taken \in Nat
               /\ thread \in {"scan", "tick", "process"} => Taken >= 1
               /\ main = "moduleInit" => thread = "none"

(* Only a controller that is ready makes passes.                           *)
PassesOfReady ==
  \A c \in Ctrl : passes[c] > 0 => signature[c] /\ firstAt[c] >= 1

(* While the history is kept.                                              *)
KeptInv == LoopInv /\ ClockTypes /\ AlarmsTaken /\ PassesOfReady /\ TicksAccounted

(* A step after which the history is kept.                                 *)
KeptAlarm == ClockAlarm /\ raised' < Horizon

KeptNext == KeptAlarm \/ ClockCountTick \/ ClockOther

(* No alarm has been taken at the start, and none is owed.                 *)
LEMMA KeptInvInit ==
  ASSUME ClockInit
  PROVE  KeptInv
<1>1. LoopInv
  BY LoopInit DEF ClockInit
<1>2. ClockTypes /\ AlarmsTaken
  BY DEF ClockInit, Init, NoPasses, ClockTypes, AlarmsTaken, Taken
<1>3. \A c \in Ctrl : passes[c] = 0
  BY DEF ClockInit, NoPasses
<1>4. QED
  BY <1>1, <1>2, <1>3 DEF KeptInv, PassesOfReady, TicksAccounted

(* The types of the history and the number of alarms taken.                *)
LEMMA TakenStep ==
  ASSUME KeptInv, [KeptNext]_allVars
  PROVE  ClockTypes' /\ AlarmsTaken'
<1>1. TypeOK /\ ClockTypes /\ AlarmsTaken
  BY DEF KeptInv, LoopInv
<1>2. Taken \in Nat /\ raised \in Nat /\ lost \in Nat /\ pending \in BOOLEAN
  BY <1>1 DEF AlarmsTaken, ClockTypes, TypeOK
<1>3. CASE KeptAlarm
  <2>1. ClockTypes'
    BY <1>1, <1>3 DEF ClockTypes, KeptAlarm, ClockAlarm, Alarm
  <2>2. Taken' = Taken /\ UNCHANGED <<thread, main>>
    BY <1>2, <1>3 DEF KeptAlarm, ClockAlarm, Alarm, Taken
  <2>3. QED
    BY <1>1, <2>1, <2>2 DEF AlarmsTaken
<1>4. CASE ClockCountTick
  <2>1. UNCHANGED <<raised, lost, pending, main>> /\ thread = "tick" /\ scan \in Ctrl
    BY <1>1, <1>4 DEF ClockCountTick, CountTick, TypeOK
  <2>2. Taken' = Taken /\ Taken >= 1
    BY <1>1, <2>1 DEF Taken, AlarmsTaken
  <2>3. ClockTypes'
    BY <1>1, <1>2, <1>4, <2>1 DEF ClockCountTick, ClockTypes
  <2>4. QED
    BY <1>1, <2>1, <2>2, <2>3 DEF AlarmsTaken
<1>5. CASE TakeAlarm /\ UNCHANGED clockVars
  <2>1. Taken' = Taken + 1 /\ UNCHANGED main
    BY <1>2, <1>5 DEF TakeAlarm, clockVars, Taken
  <2>2. QED
    BY <1>1, <1>2, <1>5, <2>1 DEF ClockTypes, AlarmsTaken, clockVars, TakeAlarm
<1>6. ASSUME tmrInit \/ tmrModuleInit \/ StartTicking \/ SkipCtrl \/ SeeCtrl \/ EndPass,
             UNCHANGED clockVars
      PROVE  ClockTypes' /\ AlarmsTaken'
  <2>1. UNCHANGED pending
    BY <1>6 DEF tmrInit, InitClear, InitPoolFails, InitFields, InitLists, InitPublish,
       tmrModuleInit, StartTicking, SkipCtrl, SeeCtrl, EndPass
  <2>2. Taken' = Taken /\ ClockTypes'
    BY <1>1, <1>6, <2>1 DEF Taken, ClockTypes, clockVars
  <2>3. CASE SkipCtrl \/ SeeCtrl \/ EndPass
    <3>1. thread \in {"scan", "process"} /\ UNCHANGED main
      BY <2>3 DEF SkipCtrl, SeeCtrl, EndPass
    <3>2. QED
      BY <1>1, <2>2, <3>1 DEF AlarmsTaken
  <2>4. CASE tmrInit
    <3>1. UNCHANGED thread /\ main' # "moduleInit"
      BY <2>4 DEF tmrInit, InitClear, InitPoolFails, InitFields, InitLists, InitPublish
    <3>2. QED
      BY <1>1, <2>2, <3>1 DEF AlarmsTaken
  <2>5. CASE tmrModuleInit \/ StartTicking
    <3>1. thread' \in {"starting", "none", "sigwait"} /\ main' # "moduleInit"
      BY <1>1, <2>5 DEF tmrModuleInit, StartTicking, AlarmsTaken
    <3>2. QED
      BY <1>1, <2>2, <3>1 DEF AlarmsTaken
  <2>6. QED
    BY <1>6, <2>3, <2>4, <2>5
<1>7. CASE UNCHANGED allVars
  BY <1>1, <1>7 DEF allVars, vars, clockVars, ClockTypes, AlarmsTaken, Taken
<1>8. QED
  BY <1>3, <1>4, <1>5, <1>6, <1>7 DEF KeptNext, ClockOther

(* A step that leaves a controller's account alone.                        *)
SameAccount(c) ==
  /\ passes'[c] = passes[c] /\ firstAt'[c] = firstAt[c]
  /\ maxTicks'[c] = maxTicks[c] /\ ticks'[c] = ticks[c]
  /\ Taken' - (IF Unseen(c) THEN 1 ELSE 0)' = Taken - (IF Unseen(c) THEN 1 ELSE 0)
  /\ (thread' = "process" /\ scan' = c) <=> (thread = "process" /\ scan = c)

Accounted(c) ==
  passes[c] > 0 =>
     IF thread = "process" /\ scan = c
       THEN Counted(c) = (passes[c] - 1) * maxTicks[c]
       ELSE /\ Counted(c) = (passes[c] - 1) * maxTicks[c] + ticks[c]
            /\ ticks[c] \in 0 .. maxTicks[c] - 1

(* A controller whose ticks and passes a step leaves alone stays accounted *)
(* for.                                                                    *)
LEMMA SameAccountKeeps ==
  ASSUME NEW c \in Ctrl, Accounted(c), SameAccount(c)
  PROVE  Accounted(c)'
<1>1. Counted(c)' = Counted(c)
  BY DEF SameAccount, Counted
<1>2. QED
  BY <1>1 DEF SameAccount, Accounted

(* The account of a controller that the step is not about, when the loop   *)
(* goes on.                                                                *)
LEMMA OthersUnseen ==
  ASSUME TypeOK, NEW c \in Ctrl, c # scan, NextCtrl,
         thread \in {"scan", "tick", "process"}
  PROVE  Unseen(c)' = Unseen(c) /\ ~ (thread' = "process" /\ scan' = c)
<1>1. scan \in Int /\ c \in Int /\ MaxNumOfTmrCtrl \in Int /\ c <= MaxNumOfTmrCtrl - 1
  BY AlarmLoopAssumption DEF TypeOK, Ctrl
<1>2. QED
  BY <1>1 DEF NextCtrl, Unseen

(* The controller the loop leaves behind has been seen.                    *)
LEMMA ScannedSeen ==
  ASSUME TypeOK, NEW c \in Ctrl, c = scan, NextCtrl
  PROVE  ~ Unseen(c)' /\ ~ (thread' = "process" /\ scan' = c)
<1>1. c \in Int
  BY DEF Ctrl
<1>2. QED
  BY <1>1 DEF NextCtrl, Unseen

(* One more pass is as many milliseconds more as one pass is.              *)
LEMMA OnePassMore ==
  ASSUME NEW n \in Nat, NEW m \in Nat
  PROVE  ((n + 1) - 1) * m = (n - 1) * m + m
<1>1. (n + 1) - 1 = (n - 1) + 1
  OBVIOUS
<1>2. ((n - 1) + 1) * m = (n - 1) * m + m
  OBVIOUS
<1>3. QED
  BY <1>1, <1>2

(* A tick of the controller itself: counted, or the last of a period.      *)
LEMMA TickAccounted ==
  ASSUME KeptInv, ClockCountTick, NEW c \in Ctrl, c = scan
  PROVE  Accounted(c)'
<1>1. /\ TypeOK /\ ClockTypes /\ AlarmsTaken /\ Accounted(c) /\ signature[c] /\ Built(c)
      /\ thread = "tick"
  BY DEF KeptInv, LoopInv, Seeing, Building, TicksAccounted, Accounted, ClockCountTick,
     CountTick
<1>2. PICK t : t = ToInt(ticks[c] + 1)
  OBVIOUS
<1>3. /\ ticks' = [ticks EXCEPT ![c] = t] /\ UNCHANGED <<maxTicks, pending, raised, lost>>
      /\ IF t >= maxTicks[c]
           THEN thread' = "process" /\ UNCHANGED scan
           ELSE NextCtrl
  BY <1>2 DEF ClockCountTick, CountTick, PeriodOver
<1>4. /\ ticks'[c] = t /\ maxTicks'[c] = maxTicks[c] /\ Taken' = Taken
  BY <1>1, <1>3 DEF TypeOK, Taken
<1>5. Unseen(c)
  <2>1. c \in Int
    BY DEF Ctrl
  <2>2. QED
    BY <1>1, <2>1 DEF Unseen
<1>6. /\ Taken \in Nat /\ firstAt[c] \in Nat /\ passes[c] \in Nat
      /\ maxTicks[c] \in Nat /\ maxTicks[c] >= 1 /\ maxTicks[c] <= IntMax
      /\ IntMax \in Nat
  BY <1>1, AlarmLoopAssumption DEF ClockTypes, AlarmsTaken, TypeOK, Built
<1>7. PICK k : k = (passes[c] - 1) * maxTicks[c]
  OBVIOUS
<1>8. k \in Int
  BY <1>6, <1>7
<1>9. passes[c] > 0 => t = ticks[c] + 1 /\ ticks[c] \in 0 .. maxTicks[c] - 1
  <2>1. passes[c] > 0 => ticks[c] \in 0 .. maxTicks[c] - 1
    BY <1>1 DEF Accounted
  <2>2. SUFFICES ASSUME passes[c] > 0 PROVE t = ticks[c] + 1
    BY <2>1
  <2>3. PICK x : x = ticks[c] + 1
    OBVIOUS
  <2>4. x \in Int /\ x >= 1 /\ x <= IntMax
    BY <1>6, <2>1, <2>2, <2>3
  <2>5. ToInt(x) = x
    BY <1>6, <2>4 DEF ToInt
  <2>6. QED
    BY <1>2, <2>3, <2>5
<1>10. passes[c] > 0 => Taken - 1 - firstAt[c] = k + ticks[c]
  BY <1>1, <1>5, <1>7 DEF Accounted, Counted
<1>11. CASE t >= maxTicks[c]
  <2>1. thread' = "process" /\ scan' = c
    BY <1>3, <1>11
  <2>2. passes' = [passes EXCEPT ![c] = @ + 1]
    BY <2>1 DEF ClockCountTick
  <2>3. passes'[c] = passes[c] + 1
    BY <1>1, <2>2 DEF ClockTypes
  <2>4. ~ Unseen(c)'
    <3>1. c \in Int
      BY DEF Ctrl
    <3>2. QED
      BY <2>1, <3>1 DEF Unseen
  <2>5. Counted(c)' = Taken - firstAt'[c]
    BY <1>4, <1>6, <2>4 DEF Counted
  <2>6. CASE passes[c] = 0
    <3>1. firstAt'[c] = Taken
      BY <1>1, <2>1, <2>6 DEF ClockCountTick, ClockTypes
    <3>2. Counted(c)' = 0
      BY <1>6, <2>5, <3>1
    <3>3. (passes'[c] - 1) * maxTicks'[c] = 0
      BY <1>4, <1>6, <2>3, <2>6
    <3>4. QED
      BY <2>1, <3>2, <3>3 DEF Accounted
  <2>7. CASE passes[c] > 0
    <3>1. firstAt'[c] = firstAt[c]
      BY <2>1, <2>7 DEF ClockCountTick
    <3>2. ticks[c] + 1 = maxTicks[c]
      BY <1>6, <1>9, <1>11, <2>7
    <3>3. Counted(c)' = k + maxTicks[c]
      <4>1. ticks[c] \in Int
        BY <1>6, <1>9, <2>7
      <4>2. QED
        BY <1>6, <1>8, <1>10, <2>5, <2>7, <3>1, <3>2, <4>1
    <3>4. (passes'[c] - 1) * maxTicks'[c] = k + maxTicks[c]
      <4>1. ((passes[c] + 1) - 1) * maxTicks[c] = (passes[c] - 1) * maxTicks[c] + maxTicks[c]
        BY <1>6, OnePassMore, Zenon
      <4>2. QED
        BY <1>4, <1>7, <2>3, <4>1, Zenon
    <3>5. QED
      BY <2>1, <3>3, <3>4 DEF Accounted
  <2>8. QED
    BY <1>6, <2>6, <2>7
<1>12. CASE ~ (t >= maxTicks[c])
  <2>1. NextCtrl
    BY <1>3, <1>12
  <2>2. ~ Unseen(c)' /\ ~ (thread' = "process" /\ scan' = c)
    BY <1>1, <2>1, ScannedSeen
  <2>3. thread' # "process"
    BY <2>1 DEF NextCtrl
  <2>4. UNCHANGED <<passes, firstAt>>
    BY <2>3 DEF ClockCountTick
  <2>5. SUFFICES ASSUME passes[c] > 0 PROVE Accounted(c)'
    BY <2>4 DEF Accounted
  <2>6. ticks[c] \in Int /\ t = ticks[c] + 1 /\ t \in 0 .. maxTicks[c] - 1
    BY <1>6, <1>9, <1>12, <2>5
  <2>7. Counted(c)' = Taken - firstAt[c]
    BY <1>4, <1>6, <2>2, <2>4 DEF Counted
  <2>8. Counted(c)' = k + t
    BY <1>6, <1>8, <1>10, <2>5, <2>6, <2>7
  <2>9. QED
    BY <1>4, <1>7, <2>2, <2>4, <2>6, <2>8 DEF Accounted
<1>13. QED
  BY <1>11, <1>12

(* Every step keeps the account of a controller's ticks: those that raise  *)
(* alarms, take them, count them and make passes, and those of tmrInit.    *)
LEMMA AccountStep ==
  ASSUME Inits <= 1, KeptInv, [KeptNext]_allVars, NEW c \in Ctrl
  PROVE  Accounted(c)'
<1>1. /\ TypeOK /\ Building /\ Seeing /\ ClockTypes /\ AlarmsTaken /\ PassesOfReady
      /\ Accounted(c)
  BY DEF KeptInv, LoopInv, TicksAccounted, Accounted
<1>2. c \in Int /\ scan \in Int /\ c >= 0 /\ 0 \in Ctrl
  BY <1>1, AlarmLoopAssumption DEF Ctrl, TypeOK
<1>3. /\ Taken \in Nat /\ firstAt[c] \in Nat /\ passes[c] \in Nat
  BY <1>1 DEF ClockTypes, AlarmsTaken
<1>4. CASE ClockCountTick
  <2>1. CASE c = scan
    BY <1>4, <2>1, TickAccounted
  <2>2. CASE c # scan
    <3>1. /\ thread = "tick" /\ UNCHANGED <<maxTicks, pending, raised, lost>>
          /\ ticks'[c] = ticks[c] /\ passes'[c] = passes[c] /\ firstAt'[c] = firstAt[c]
          /\ \/ thread' = "process" /\ UNCHANGED scan
             \/ NextCtrl
      BY <1>1, <1>4, <2>2 DEF ClockCountTick, CountTick, TypeOK, ClockTypes
    <3>2. Unseen(c)' = Unseen(c) /\ ~ (thread' = "process" /\ scan' = c)
      <4>1. CASE thread' = "process" /\ UNCHANGED scan
        BY <1>2, <2>2, <3>1, <4>1 DEF Unseen
      <4>2. CASE NextCtrl
        BY <1>1, <2>2, <3>1, <4>2, OthersUnseen
      <4>3. QED
        BY <3>1, <4>1, <4>2
    <3>3. SameAccount(c)
      BY <3>1, <3>2 DEF SameAccount, Taken
    <3>4. QED
      BY <1>1, <3>3, SameAccountKeeps
  <2>3. QED
    BY <2>1, <2>2
<1>5. CASE KeptAlarm
  <2>1. Taken' = Taken
    BY <1>1, <1>5 DEF KeptAlarm, ClockAlarm, Alarm, Taken, TypeOK, ClockTypes
  <2>2. SameAccount(c)
    BY <1>5, <2>1 DEF KeptAlarm, ClockAlarm, Alarm, SameAccount, Unseen
  <2>3. QED
    BY <1>1, <2>2, SameAccountKeeps
<1>6. CASE TakeAlarm /\ UNCHANGED clockVars
  <2>1. Taken' = Taken + 1 /\ ~ Unseen(c) /\ Unseen(c)'
    BY <1>1, <1>2, <1>6 DEF TakeAlarm, clockVars, Taken, Unseen, ClockTypes
  <2>2. SameAccount(c)
    BY <1>3, <1>6, <2>1 DEF SameAccount, TakeAlarm, clockVars
  <2>3. QED
    BY <1>1, <2>2, SameAccountKeeps
<1>7. CASE EndPass /\ UNCHANGED clockVars
  <2>1. Taken' = Taken /\ thread = "process" /\ NextCtrl
    BY <1>7 DEF EndPass, clockVars, Taken
  <2>2. CASE c # scan
    <3>1. ticks'[c] = ticks[c]
      BY <1>1, <1>7, <2>2 DEF EndPass, TypeOK
    <3>2. SameAccount(c)
      BY <1>1, <1>7, <2>1, <2>2, <3>1, OthersUnseen DEF SameAccount, EndPass, clockVars
    <3>3. QED
      BY <1>1, <3>2, SameAccountKeeps
  <2>3. CASE c = scan
    <3>1. ~ Unseen(c)' /\ ~ (thread' = "process" /\ scan' = c)
      BY <1>1, <2>1, <2>3, ScannedSeen
    <3>2. ~ Unseen(c)
      BY <1>2, <2>1, <2>3 DEF Unseen
    <3>3. Counted(c)' = Counted(c)
      BY <1>7, <2>1, <3>1, <3>2 DEF Counted, clockVars
    <3>4. ticks'[c] = 0 /\ UNCHANGED <<passes, maxTicks>>
      BY <1>1, <1>7, <2>3 DEF EndPass, TypeOK, clockVars
    <3>5. maxTicks[c] \in Nat /\ maxTicks[c] >= 1
      BY <1>1, <2>1, <2>3, AlarmLoopAssumption DEF Seeing, Building, Built, TypeOK
    <3>6. passes[c] > 0 => Counted(c) = (passes[c] - 1) * maxTicks[c]
      BY <1>1, <2>1, <2>3 DEF Accounted
    <3>7. (passes[c] - 1) * maxTicks[c] \in Int
      BY <1>3, <3>5
    <3>8. PICK k : k = (passes[c] - 1) * maxTicks[c]
      OBVIOUS
    <3>9. passes[c] > 0 => Counted(c)' = k + 0
      BY <3>3, <3>6, <3>7, <3>8
    <3>10. 0 \in 0 .. maxTicks[c] - 1
      BY <3>5
    <3>11. QED
      BY <3>1, <3>4, <3>8, <3>9, <3>10 DEF Accounted
  <2>4. QED
    BY <2>2, <2>3
<1>8. CASE SkipCtrl /\ UNCHANGED clockVars
  <2>1. Taken' = Taken /\ thread = "scan" /\ NextCtrl /\ UNCHANGED <<passes, firstAt>>
    BY <1>8 DEF SkipCtrl, clockVars, Taken
  <2>2. CASE passes[c] > 0
    <3>1. c # scan
      BY <1>1, <1>8, <2>2 DEF PassesOfReady, SkipCtrl
    <3>2. SameAccount(c)
      BY <1>1, <1>8, <2>1, <3>1, OthersUnseen DEF SameAccount, SkipCtrl
    <3>3. QED
      BY <1>1, <3>2, SameAccountKeeps
  <2>3. QED
    BY <2>1, <2>2 DEF Accounted
<1>9. CASE SeeCtrl /\ UNCHANGED clockVars
  <2>1. SameAccount(c)
    BY <1>9 DEF SeeCtrl, SameAccount, Unseen, Taken, clockVars
  <2>2. QED
    BY <1>1, <2>1, SameAccountKeeps
<1>10. CASE (tmrModuleInit \/ StartTicking) /\ UNCHANGED clockVars
  <2>1. SameAccount(c)
    BY <1>1, <1>10 DEF tmrModuleInit, StartTicking, SameAccount, Unseen, Taken, clockVars,
       AlarmsTaken
  <2>2. QED
    BY <1>1, <2>1, SameAccountKeeps
<1>11. CASE (InitPoolFails \/ InitPublish \/ InitLists) /\ UNCHANGED clockVars
  <2>1. SameAccount(c)
    BY <1>11 DEF InitPoolFails, InitPublish, InitLists, SameAccount, Unseen, Taken,
       clockVars
  <2>2. QED
    BY <1>1, <2>1, SameAccountKeeps
<1>12. CASE (InitClear \/ InitFields) /\ UNCHANGED clockVars
  <2>1. ~ signature[c]
    <3>1. inits < Inits => inits = 0
      BY <1>1, AlarmLoopAssumption DEF TypeOK
    <3>2. QED
      BY <1>1, <1>12, <3>1 DEF InitClear, InitFields, Building
  <2>2. ~ (passes'[c] > 0)
    BY <1>1, <1>12, <2>1 DEF PassesOfReady, clockVars
  <2>3. QED
    BY <2>2 DEF Accounted
<1>13. CASE UNCHANGED allVars
  <2>1. SameAccount(c)
    BY <1>13 DEF allVars, vars, clockVars, SameAccount, Unseen, Taken
  <2>2. QED
    BY <1>1, <2>1, SameAccountKeeps
<1>14. QED
  BY <1>4, <1>5, <1>6, <1>7, <1>8, <1>9, <1>10, <1>11, <1>12, <1>13
  DEF KeptNext, ClockOther, tmrInit

(* A controller that has made a pass stays ready.                          *)
LEMMA ReadyStep ==
  ASSUME Inits <= 1, KeptInv, [KeptNext]_allVars
  PROVE  PassesOfReady'
<1>1. TypeOK /\ Building /\ Seeing /\ ClockTypes /\ AlarmsTaken /\ PassesOfReady
  BY DEF KeptInv, LoopInv
<1>2. SUFFICES ASSUME NEW c \in Ctrl, passes'[c] > 0
               PROVE  signature'[c] /\ firstAt'[c] >= 1
  BY DEF PassesOfReady
<1>3. CASE ClockCountTick
  <2>1. UNCHANGED signature /\ thread = "tick" /\ scan \in Ctrl
    BY <1>1, <1>3 DEF ClockCountTick, CountTick, TypeOK
  <2>2. signature[scan] /\ Taken >= 1
    BY <1>1, <2>1 DEF Seeing, AlarmsTaken
  <2>3. CASE c # scan \/ thread' # "process" \/ passes[scan] # 0
    <3>1. firstAt'[c] = firstAt[c] /\ (c # scan \/ thread' # "process" => passes'[c] = passes[c])
      BY <1>1, <1>3, <2>3 DEF ClockCountTick, ClockTypes
    <3>2. passes[c] > 0
      BY <1>1, <1>2, <2>3, <3>1 DEF ClockTypes
    <3>3. QED
      BY <1>1, <2>1, <3>1, <3>2 DEF PassesOfReady
  <2>4. CASE c = scan /\ thread' = "process" /\ passes[scan] = 0
    <3>1. firstAt'[c] = Taken
      BY <1>1, <1>3, <2>4 DEF ClockCountTick, ClockTypes
    <3>2. QED
      BY <2>1, <2>2, <2>4, <3>1
  <2>5. QED
    BY <2>3, <2>4
<1>4. CASE UNCHANGED <<passes, firstAt, signature>>
  BY <1>1, <1>2, <1>4 DEF PassesOfReady
<1>5. CASE InitClear /\ UNCHANGED clockVars
  <2>1. inits = 0
    BY <1>1, <1>5, AlarmLoopAssumption DEF InitClear, TypeOK
  <2>2. ~ signature[c] /\ passes[c] > 0
    BY <1>1, <1>2, <1>5, <2>1 DEF Building, clockVars
  <2>3. QED
    BY <1>1, <2>2 DEF PassesOfReady
<1>6. CASE InitPublish /\ UNCHANGED clockVars
  <2>1. signature[c] /\ firstAt[c] >= 1 /\ UNCHANGED firstAt
    BY <1>1, <1>2, <1>6 DEF PassesOfReady, clockVars
  <2>2. signature'[c]
    BY <1>1, <1>6, <2>1 DEF InitPublish, TypeOK
  <2>3. QED
    BY <2>1, <2>2
<1>7. QED
  BY <1>3, <1>4, <1>5, <1>6
  DEF KeptNext, ClockOther, KeptAlarm, ClockAlarm, Alarm, tmrInit, tmrModuleInit, InitPoolFails,
      InitFields, InitLists, StartTicking, TakeAlarm, SkipCtrl, SeeCtrl, EndPass,
      clockVars, allVars, vars

(* Every step, of the alarms, the timer thread and tmrInit, keeps the      *)
(* alarm loop's invariant.                                                 *)
LEMMA KeptInvStep ==
  ASSUME Inits <= 1, KeptInv, [KeptNext]_allVars
  PROVE  KeptInv'
<1>1. LoopInv'
  <2>1. [Next]_vars
    BY DEF allVars, KeptNext, KeptAlarm, ClockAlarm, ClockCountTick, ClockOther, Next,
           processAlarmSignal, timerLoopFunc
  <2>2. QED
    BY <2>1, LoopStep DEF KeptInv
<1>2. ClockTypes' /\ AlarmsTaken'
  BY TakenStep
<1>3. PassesOfReady'
  BY ReadyStep
<1>4. \A c \in Ctrl : Accounted(c)'
  BY AccountStep
<1>5. TicksAccounted'
  BY <1>4 DEF Accounted, TicksAccounted
<1>6. QED
  BY <1>1, <1>2, <1>3, <1>5 DEF KeptInv

(* The history is kept, or it has no pass.                                 *)
ClockInv == LoopInv /\ IF raised < Horizon THEN KeptInv ELSE ClockTypes /\ passes = NoPasses

(* At the start the history has no pass.                                   *)
LEMMA ClockInvInit ==
  ASSUME ClockInit
  PROVE  ClockInv
BY KeptInvInit DEF ClockInv, KeptInv, ClockInit

(* An alarm that is one too many ends the history.                         *)
LEMMA ClockInvStep ==
  ASSUME Inits <= 1, ClockInv, [ClockNext]_allVars
  PROVE  ClockInv'
<1>1. LoopInv'
  BY ClockStepIsLoopStep, LoopStep DEF ClockInv
<1>2. raised \in Nat /\ Horizon \in Nat
  BY AlarmClockAssumption DEF ClockInv, KeptInv, ClockTypes
<1>3. CASE raised >= Horizon
  <2>1. UNCHANGED clockVars
    BY <1>2, <1>3 DEF ClockNext, allVars
  <2>2. QED
    BY <1>1, <1>2, <1>3, <2>1 DEF ClockInv, ClockTypes, clockVars
<1>4. CASE raised < Horizon /\ raised' < Horizon
  <2>1. [KeptNext]_allVars
    BY <1>2, <1>4 DEF ClockNext, KeptNext, KeptAlarm
  <2>2. QED
    BY <1>1, <1>4, <2>1, KeptInvStep DEF ClockInv
<1>5. CASE raised < Horizon /\ ~ (raised' < Horizon)
  <2>1. ClockAlarm
    <3>1. raised' # raised
      BY <1>5
    <3>2. QED
      BY <1>2, <1>5, <3>1 DEF ClockNext, ClockCountTick, ClockOther, clockVars, allVars
  <2>2. raised' = raised + 1 /\ lost' = 0 /\ passes' = NoPasses /\ firstAt' = NoPasses
    BY <1>5, <2>1 DEF ClockAlarm
  <2>3. ClockTypes'
    BY <1>2, <2>2 DEF ClockTypes, NoPasses
  <2>4. QED
    BY <1>1, <1>5, <2>2, <2>3 DEF ClockInv, NoPasses
<1>6. QED
  BY <1>2, <1>3, <1>4, <1>5

(* Without passes there is nothing to account for.                         *)
LEMMA KeptOrNoPasses ==
  ASSUME ClockInv
  PROVE  KeptInv \/ \A c \in Ctrl : ~ (passes[c] > 0)
BY DEF ClockInv, NoPasses

(* From its first pass on a controller counts every alarm that is taken.   *)
THEOREM EveryTakenAlarmCounts ==
  ASSUME Inits <= 1
  PROVE  ClockSpec => []TicksAccounted
<1>1. ClockInv /\ [ClockNext]_allVars => ClockInv'
  BY ClockInvStep
<1>2. ClockInv => TicksAccounted
  BY KeptOrNoPasses DEF KeptInv, TicksAccounted
<1>3. QED
  BY <1>1, <1>2, ClockInvInit, PTL DEF ClockSpec
-----------------------------------------------------------------------------
(* A period's ticks are the whole ones of its milliseconds.                *)
Scaled ==
  /\ \A c \in Ctrl : signature[c] => PeriodOnClock(c) = maxTicks[c] * MSECONDS_PER_TICK
  /\ main \in {"fields", "lists"} => PeriodOnClock(0) = maxTicks[0] * MSECONDS_PER_TICK

(* tmrInit stores the resolution before the controller is ready, and       *)
(* nothing changes it afterwards.                                          *)
LEMMA ScaledStep ==
  ASSUME LoopInv, Scaled, [Next]_vars
  PROVE  Scaled'
<1>1. TypeOK /\ Building /\ 0 \in Ctrl
  BY AlarmLoopAssumption DEF LoopInv, Ctrl
<1>2. CASE InitClear
  <2>1. ~ signature'[0] /\ main' = "cleared"
    BY <1>1, <1>2 DEF TypeOK, InitClear
  <2>2. \A c \in Ctrl : c # 0 => ~ signature'[c]
    BY <1>1, <1>2 DEF TypeOK, InitClear, Building
  <2>3. QED
    BY <2>1, <2>2 DEF Scaled
<1>3. CASE InitFields
  <2>1. PICK r \in Resolution, l \in Longest, rand \in 0 .. RandMax :
          LET res == AtLeast(MSECONDS_PER_TICK, r)
              mt == res \div MSECONDS_PER_TICK
          IN  /\ resolution' = [resolution EXCEPT ![0] = res]
              /\ maxTicks' = [maxTicks EXCEPT ![0] = mt]
    BY <1>3 DEF InitFields
  <2>2. PICK res : res = AtLeast(MSECONDS_PER_TICK, r)
    OBVIOUS
  <2>3. PICK mt : mt = res \div MSECONDS_PER_TICK
    OBVIOUS
  <2>4. res - (res % MSECONDS_PER_TICK) = mt * MSECONDS_PER_TICK
    BY <2>2, <2>3, FieldsTypes
  <2>5. resolution'[0] = res /\ maxTicks'[0] = mt
    BY <1>1, <2>1, <2>2, <2>3 DEF TypeOK
  <2>6. \A c \in Ctrl : ~ signature'[c]
    BY <1>1, <1>3 DEF InitFields, Building
  <2>7. QED
    BY <2>4, <2>5, <2>6 DEF Scaled, PeriodOnClock
<1>4. CASE InitPublish
  BY <1>1, <1>4 DEF TypeOK, InitPublish, Scaled, Building, PeriodOnClock
<1>5. CASE InitLists
  BY <1>5 DEF InitLists, Scaled, PeriodOnClock
<1>6. CASE UNCHANGED <<signature, resolution, maxTicks>> /\ main' \notin {"fields", "lists"}
  BY <1>6 DEF Scaled, PeriodOnClock
<1>7. CASE UNCHANGED <<signature, resolution, maxTicks, main>>
  BY <1>7 DEF Scaled, PeriodOnClock
<1>8. QED
  BY <1>2, <1>3, <1>4, <1>5, <1>6, <1>7
  DEF Next, tmrInit, tmrModuleInit, InitPoolFails, Alarm, processAlarmSignal,
      StartTicking, TakeAlarm, timerLoopFunc, SkipCtrl, SeeCtrl, CountTick, EndPass, vars

(* The arithmetic of the two bounds: n whole periods of m ticks, k ticks   *)
(* counted since the first pass.                                           *)
LEMMA ClockArithmetic ==
  ASSUME NEW n \in Nat, NEW m \in Nat, n > 0, m > 0, NEW k \in Int, NEW q,
         q = (n - 1) * m, k >= q, k < q + m
  PROVE  /\ (n - 1) * (m * 5) <= k * 5
         /\ k * 5 + 5 <= n * (m * 5)
<1>1. q \in Int
  OBVIOUS
<1>2. (n - 1) * (m * 5) = q * 5
  <2>1. (n - 1) * (m * 5) = ((n - 1) * m) * 5
    OBVIOUS
  <2>2. QED
    BY <2>1
<1>3. n * (m * 5) = q * 5 + m * 5
  <2>1. n * (m * 5) = (n * m) * 5
    OBVIOUS
  <2>2. n * m = (n - 1) * m + m
    OBVIOUS
  <2>3. QED
    BY <1>1, <2>1, <2>2
<1>4. QED
  BY <1>1, <1>2, <1>3

(* What the accounts say of the clock.                                     *)
LEMMA ClockBounds ==
  ASSUME KeptInv, Scaled
  PROVE  WheelNotAhead /\ WheelNotBehind
<1>1. /\ TypeOK /\ Building /\ ClockTypes /\ AlarmsTaken /\ PassesOfReady /\ TicksAccounted
  BY DEF KeptInv, LoopInv
<1>2. SUFFICES ASSUME NEW c \in Ctrl, passes[c] > 0
      PROVE  /\ (passes[c] - 1) * PeriodOnClock(c) <= (raised - 1) * MSECONDS_PER_TICK
             /\ (raised - lost - firstAt[c]) * MSECONDS_PER_TICK
                   < passes[c] * PeriodOnClock(c) + 2 * MSECONDS_PER_TICK
  BY DEF WheelNotAhead, WheelNotBehind
<1>3. /\ passes[c] \in Nat /\ firstAt[c] \in Nat /\ firstAt[c] >= 1
      /\ raised \in Nat /\ lost \in Nat /\ maxTicks[c] \in Nat /\ maxTicks[c] > 0
      /\ pending \in BOOLEAN
  BY <1>1, <1>2, AlarmLoopAssumption DEF ClockTypes, PassesOfReady, TypeOK, Building, Built
<1>4. PeriodOnClock(c) = maxTicks[c] * 5
  BY <1>1, <1>2 DEF Scaled, PassesOfReady, MSECONDS_PER_TICK
<1>5. PICK u : u = IF Unseen(c) THEN 1 ELSE 0
  OBVIOUS
<1>6. PICK w : w = IF pending THEN 1 ELSE 0
  OBVIOUS
<1>7. PICK k : k = Counted(c)
  OBVIOUS
<1>8. u \in 0 .. 1 /\ w \in 0 .. 1 /\ k = raised - lost - w - u - firstAt[c]
  BY <1>5, <1>6, <1>7 DEF Counted, Taken
<1>9. k \in Int
  BY <1>3, <1>8
<1>10. PICK q : q = (passes[c] - 1) * maxTicks[c]
  OBVIOUS
<1>11. q \in Int
  BY <1>3, <1>10
<1>12. k >= q /\ k < q + maxTicks[c]
  <2>1. CASE thread = "process" /\ scan = c
    BY <1>1, <1>2, <1>3, <1>7, <1>10, <1>11, <2>1 DEF TicksAccounted
  <2>2. CASE ~ (thread = "process" /\ scan = c)
    <3>1. k = q + ticks[c] /\ ticks[c] \in 0 .. maxTicks[c] - 1
      BY <1>1, <1>2, <1>7, <1>10, <2>2 DEF TicksAccounted
    <3>2. QED
      BY <1>3, <1>11, <3>1
  <2>3. QED
    BY <2>1, <2>2
<1>13. /\ (passes[c] - 1) * (maxTicks[c] * 5) <= k * 5
       /\ k * 5 + 5 <= passes[c] * (maxTicks[c] * 5)
  BY <1>2, <1>3, <1>9, <1>10, <1>12, ClockArithmetic
<1>14. PICK x : x = (passes[c] - 1) * PeriodOnClock(c)
  OBVIOUS
<1>15. PICK y : y = passes[c] * PeriodOnClock(c)
  OBVIOUS
<1>16. x \in Int /\ y \in Int
  BY <1>3, <1>4, <1>14, <1>15
<1>17. x <= k * 5 /\ k * 5 + 5 <= y
  BY <1>4, <1>13, <1>14, <1>15
<1>18. x <= (raised - 1) * 5
  BY <1>3, <1>8, <1>9, <1>16, <1>17
<1>19. (raised - lost - firstAt[c]) * 5 < y + 10
  BY <1>3, <1>8, <1>9, <1>16, <1>17
<1>20. QED
  BY <1>14, <1>15, <1>18, <1>19 DEF MSECONDS_PER_TICK

(* For every resolution, the wheel is ahead of the clock by what tmrInit's *)
(* division drops, and behind it by lost alarms, a period and the alarm in *)
(* hand (tdengine_old.c:124-130, 155-160, 203-206).                        *)
THEOREM WheelKeepsTime ==
  ASSUME Inits <= 1
  PROVE  ClockSpec => []WheelNotAhead /\ []WheelNotBehind
<1>1. ClockInit => ClockInv /\ Scaled
  <2>1. SUFFICES ASSUME ClockInit PROVE ClockInv /\ Scaled
    OBVIOUS
  <2>2. Scaled
    BY <2>1 DEF ClockInit, Init, Scaled
  <2>3. QED
    BY <2>1, <2>2, ClockInvInit
<1>2. ClockInv /\ Scaled /\ [ClockNext]_allVars => ClockInv' /\ Scaled'
  BY ClockInvStep, ScaledStep, ClockStepIsLoopStep DEF ClockInv
<1>3. ClockInv /\ Scaled => WheelNotAhead /\ WheelNotBehind
  BY KeptOrNoPasses, ClockBounds DEF WheelNotAhead, WheelNotBehind
<1>4. QED
  BY <1>1, <1>2, <1>3, PTL DEF ClockSpec

(* Of the two, that timers are not late by more than the lost alarms and a *)
(* period (tdengine_old.c:124-130, 155-160).                               *)
COROLLARY WheelKeepsUp ==
  ASSUME Inits <= 1
  PROVE  ClockSpec => []WheelNotBehind
BY WheelKeepsTime, PTL
=============================================================================
