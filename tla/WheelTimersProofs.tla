--------------------------- MODULE WheelTimersProofs ---------------------------
(***************************************************************************)
(* The timers of ttimer/timer.c, for any number of threads, timers and     *)
(* wheels.                                                                 *)
(*                                                                         *)
(* Everything rests on who may touch timer->wheel without a mutex: a       *)
(* thread that adds a timer to a wheel has it to itself (AddersAreAlone),  *)
(* so that what removeFromWheel has read of it can only become `no wheel'  *)
(* (ReadWheelLasts). The code does not see to the first when a removed     *)
(* timer is added again, as run wheel_rearm shows: there callers have to   *)
(* (Orderly).                                                              *)
(***************************************************************************)
EXTENDS WheelTimers, FiniteSetTheorems, TLAPS

(* Callers add no removed timer again, or stop such a timer in turns.      *)
Orderly == TakeTurns \/ Rearmed = {}

Adding(th) == pc[th] \in {"add", "choose", "link"}

(* A thread works on a timer, which addTimer has been called for; one that *)
(* is idle works on none.                                                  *)
WorksOnTimers ==
  /\ \A th \in Thread : /\ timer[th] = NULL <=> pc[th] = "idle"
                        /\ timer[th] # NULL => life[timer[th]] # "unborn"
  /\ \A t \in known : life[t] # "unborn"

(* A timer that is being added is unknown to other threads, or is being    *)
(* added again by callers that take turns.                                 *)
AddersAreAlone ==
  /\ \A th, other \in Thread : Adding(th) /\ timer[other] = timer[th] => other = th
  /\ \A th \in Thread : Adding(th) => timer[th] \notin known \/ timer[th] \in Rearmed
  /\ \A th, other \in Thread :
       TakeTurns /\ timer[th] \in Rearmed /\ timer[other] = timer[th] => other = th

(* The wheel a timer is in, as the thread that works on it has read or     *)
(* written it.                                                             *)
ReadWheelLasts ==
  \A th \in Thread :
    /\ At(th, "add") \/ At(th, "removed") => wheel[timer[th]] = NumOfWheels
    /\ At(th, "choose") => wheel[timer[th]] \in Wheel
    /\ At(th, "link") => seen[th] \in Wheel /\ wheel[timer[th]] = seen[th]
    /\ At(th, "read") \/ At(th, "lock") \/ At(th, "unlink") =>
         wheel[timer[th]] \in {seen[th], NumOfWheels}
    /\ At(th, "read") \/ At(th, "unlink") \/ (~RereadsWheel /\ At(th, "lock")) =>
         seen[th] \in Wheel

(* A timer that can be removed from its wheel has not been since it was    *)
(* added, and one that has been, once.                                     *)
RemovedAtMostOnce ==
  /\ OneRemover
  /\ \A t \in Timer :
       wheel[t] # NumOfWheels /\ (\A th \in Thread : Adding(th) => timer[th] # t) =>
         removals[t] = 0

TypeInv == TypeOK /\ NULL \notin Timer /\ NumOfWheels \in Nat \ {0}

(* No timer is in use at the start.                                        *)
LEMMA TypeInit == Init => TypeInv
BY WheelTimersAssumption DEF Init, TypeInv, TypeOK, Wheel

(* Counting modulo RefMod stays below it.                                  *)
LEMMA RefCountRange ==
  ASSUME NEW n \in Int
  PROVE  n % RefMod \in 0 .. RefMod - 1
BY WheelTimersAssumption, SMTT(30)

(* Adding and dropping a reference keeps the types.                        *)
LEMMA RefTypes ==
  ASSUME TypeInv, NEW t \in Timer
  PROVE  /\ timerAddRef(t) => refCount' \in [Timer -> 0 .. RefMod - 1]
         /\ timerDecRef(t) => /\ refCount' \in [Timer -> 0 .. RefMod - 1]
                              /\ life' \in [Timer -> {"unborn", "live", "freed"}]
<1>1. refCount \in [Timer -> 0 .. RefMod - 1] /\ life \in [Timer -> {"unborn", "live", "freed"}]
  BY DEF TypeInv, TypeOK
<1>2. refCount[t] \in Int
  BY <1>1, WheelTimersAssumption
<1>3. (refCount[t] + 1) % RefMod \in 0 .. RefMod - 1 /\ (refCount[t] - 1) % RefMod \in 0 .. RefMod - 1
  BY <1>2, RefCountRange
<1>4. QED
  BY <1>1, <1>3 DEF timerAddRef, timerDecRef

(* A thread that is not idle works on one of the timers.                   *)
LEMMA TimerOf ==
  ASSUME TypeInv, WorksOnTimers, NEW th \in Thread, pc[th] # "idle"
  PROVE  timer[th] \in Timer
BY DEF TypeInv, TypeOK, WorksOnTimers

(* Every step keeps the types.                                             *)
LEMMA TypeStep ==
  ASSUME TypeInv, WorksOnTimers, ReadWheelLasts, [Next]_vars
  PROVE  TypeInv'
<1>1. ASSUME NEW th \in Thread, NEW t \in Timer, addTimer(th, t)
      PROVE  TypeInv'
  BY <1>1, RefTypes DEF TypeInv, TypeOK, addTimer, GoTo, At, NoWheel
<1>2. ASSUME NEW th \in Thread, NEW t \in Timer, findTimer(th, t)
      PROVE  TypeInv'
  BY <1>2, RefTypes DEF TypeInv, TypeOK, findTimer, GoTo, At
<1>3. ASSUME NEW th \in Thread, Continue(th) \/ Rearm(th)
      PROVE  TypeInv'
  <2>1. CASE AddChooseLast(th)
    <3>1. timer[th] \in Timer
      BY <2>1, TimerOf DEF AddChooseLast, At
    <3>2. QED
      BY <2>1, <3>1, RefTypes DEF TypeInv, TypeOK, AddChooseLast, GoTo
  <2>2. CASE AddChoose(th)
    <3>1. timer[th] \in Timer
      BY <2>2, TimerOf DEF AddChoose, At
    <3>2. QED
      BY <2>2, <3>1 DEF TypeInv, TypeOK, AddChoose, GoTo, Wheel
  <2>3. CASE AddLink(th)
    <3>1. timer[th] \in Timer
      BY <2>3, TimerOf DEF AddLink, At
    <3>2. seen[th] \in Wheel
      BY <2>3 DEF ReadWheelLasts, AddLink
    <3>3. slots[seen[th]] \in Timer \union {NULL}
      BY <3>2 DEF TypeInv, TypeOK
    <3>4. /\ next' \in [Timer -> Timer \union {NULL}]
          /\ prev' \in [Timer -> Timer \union {NULL}]
          /\ slots' \in [Wheel -> Timer \union {NULL}]
      BY <2>3, <3>1, <3>2, <3>3 DEF TypeInv, TypeOK, AddLink
    <3>5. /\ timer' \in [Thread -> Timer \union {NULL}]
          /\ removals' \in [Timer -> Nat]
      BY <2>3, <3>1 DEF TypeInv, TypeOK, AddLink
    <3>6. QED
      BY <2>3, <3>1, <3>4, <3>5 DEF TypeInv, TypeOK, AddLink, GoTo
  <2>4. CASE RemoveCheck(th) \/ RemoveRead(th)
    <3>1. timer[th] \in Timer
      BY <2>4, TimerOf DEF RemoveCheck, RemoveRead, At
    <3>2. QED
      BY <2>4, <3>1 DEF TypeInv, TypeOK, RemoveCheck, RemoveRead, WheelToLock, GoTo
  <2>5. CASE RemoveLock(th)
    BY <2>5 DEF TypeInv, TypeOK, RemoveLock, GoTo
  <2>6. CASE RemoveUnlink(th)
    <3>1. timer[th] \in Timer
      BY <2>6, TimerOf DEF RemoveUnlink, At
    <3>2. CASE StillLinked(timer[th])
      <4>1. /\ next' \in [Timer -> Timer \union {NULL}]
            /\ prev' \in [Timer -> Timer \union {NULL}]
            /\ slots' \in [Wheel -> Timer \union {NULL}]
        BY <2>6, <3>1, <3>2 DEF TypeInv, TypeOK, RemoveUnlink, Unlink, HeadsWithout
      <4>2. /\ refCount' \in [Timer -> 0 .. RefMod - 1]
            /\ life' \in [Timer -> {"unborn", "live", "freed"}]
        BY <2>6, <3>1, <3>2, RefTypes DEF RemoveUnlink
      <4>3. /\ wheel' \in [Timer -> 0 .. NumOfWheels]
            /\ removals' \in [Timer -> Nat]
        BY <2>6, <3>1, <3>2 DEF TypeInv, TypeOK, RemoveUnlink, NoWheel
      <4>4. /\ mutex' \in [Wheel -> Thread \union {NULL}]
            /\ UNCHANGED <<inMap, known, timer, seen>>
            /\ pc' = [pc EXCEPT ![th] = "removed"]
        BY <2>6, <3>2 DEF TypeInv, TypeOK, RemoveUnlink, GoTo
      <4>5. QED
        BY <4>1, <4>2, <4>3, <4>4 DEF TypeInv, TypeOK
    <3>3. CASE ~StillLinked(timer[th])
      BY <2>6, <3>3 DEF TypeInv, TypeOK, RemoveUnlink, GoTo
    <3>4. QED
      BY <3>2, <3>3
  <2>7. CASE removeTimer(th)
    <3>1. timer[th] \in Timer
      BY <2>7, TimerOf DEF removeTimer, At
    <3>2. QED
      BY <2>7, <3>1, RefTypes DEF TypeInv, TypeOK, removeTimer, GoTo
  <2>8. CASE Rearm(th)
    BY <2>8 DEF TypeInv, TypeOK, Rearm, GoTo
  <2>9. CASE Release(th)
    <3>1. timer[th] \in Timer
      BY <2>9, TimerOf DEF Release, At
    <3>2. QED
      BY <2>9, <3>1, RefTypes DEF TypeInv, TypeOK, Release, GoTo
  <2>10. QED
    BY <1>3, <2>1, <2>2, <2>3, <2>4, <2>5, <2>6, <2>7, <2>8, <2>9
       DEF Continue, addToWheel, removeFromWheel
<1>4. CASE UNCHANGED vars
  BY <1>4 DEF TypeInv, TypeOK, vars
<1>5. QED
  BY <1>1, <1>2, <1>3, <1>4 DEF Next, Begin
(* Timers that threads work on have been added and are not forgotten.      *)
LEMMA WorkStep ==
  ASSUME TypeInv, WorksOnTimers, [Next]_vars
  PROVE  WorksOnTimers'
<1>1. ASSUME NEW th \in Thread, NEW t \in Timer, addTimer(th, t)
      PROVE  WorksOnTimers'
  BY <1>1 DEF WorksOnTimers, Adding, TypeInv, TypeOK, addTimer, timerAddRef, GoTo, At, NoWheel
<1>2. ASSUME NEW th \in Thread, NEW t \in Timer, findTimer(th, t)
      PROVE  WorksOnTimers'
  BY <1>2 DEF WorksOnTimers, Adding, TypeInv, TypeOK, findTimer, timerAddRef, MayStop, GoTo, At
<1>3. ASSUME NEW th \in Thread, Continue(th) \/ Rearm(th)
      PROVE  WorksOnTimers'
  <2>1. CASE AddChooseLast(th)
    <3>1. timer[th] \in Timer
      BY <2>1, TimerOf DEF AddChooseLast, At
    <3>2. QED
      BY <2>1, <3>1 DEF timerAddRef, WorksOnTimers, Adding, TypeInv, TypeOK, AddChooseLast, GoTo, At
  <2>2. CASE AddChoose(th)
    <3>1. timer[th] \in Timer
      BY <2>2, TimerOf DEF AddChoose, At
    <3>2. QED
      BY <2>2, <3>1 DEF WorksOnTimers, Adding, TypeInv, TypeOK, AddChoose, GoTo, At
  <2>3. CASE AddLink(th)
    <3>1. timer[th] \in Timer
      BY <2>3, TimerOf DEF AddLink, At
    <3>2. QED
      BY <2>3, <3>1 DEF WorksOnTimers, Adding, TypeInv, TypeOK, AddLink, GoTo, At
  <2>4. CASE RemoveCheck(th)
    <3>1. timer[th] \in Timer
      BY <2>4, TimerOf DEF RemoveCheck, At
    <3>2. QED
      BY <2>4, <3>1 DEF WorksOnTimers, Adding, TypeInv, TypeOK, RemoveCheck, GoTo, At
  <2>5. CASE RemoveRead(th)
    <3>1. timer[th] \in Timer
      BY <2>5, TimerOf DEF RemoveRead, At
    <3>2. QED
      BY <2>5, <3>1 DEF WorksOnTimers, Adding, TypeInv, TypeOK, RemoveRead, GoTo, At
  <2>6. CASE RemoveLock(th)
    <3>1. timer[th] \in Timer
      BY <2>6, TimerOf DEF RemoveLock, At
    <3>2. QED
      BY <2>6, <3>1 DEF WorksOnTimers, Adding, TypeInv, TypeOK, RemoveLock, GoTo, At
  <2>7. CASE RemoveUnlink(th)
    <3>1. timer[th] \in Timer
      BY <2>7, TimerOf DEF RemoveUnlink, At
    <3>2. QED
      BY <2>7, <3>1 DEF timerDecRef, WorksOnTimers, Adding, TypeInv, TypeOK, RemoveUnlink, GoTo, At
  <2>8. CASE removeTimer(th)
    <3>1. timer[th] \in Timer
      BY <2>8, TimerOf DEF removeTimer, At
    <3>2. QED
      BY <2>8, <3>1 DEF timerDecRef, WorksOnTimers, Adding, TypeInv, TypeOK, removeTimer, GoTo, At
  <2>9. CASE Rearm(th)
    <3>1. timer[th] \in Timer
      BY <2>9, TimerOf DEF Rearm, At
    <3>2. QED
      BY <2>9, <3>1 DEF WorksOnTimers, Adding, TypeInv, TypeOK, Rearm, GoTo, At
  <2>10. CASE Release(th)
    <3>1. timer[th] \in Timer
      BY <2>10, TimerOf DEF Release, At
    <3>2. QED
      BY <2>10, <3>1 DEF timerDecRef, WorksOnTimers, Adding, TypeInv, TypeOK, Release, GoTo, At
  <2>11. QED
    BY <1>3, <2>1, <2>2, <2>3, <2>4, <2>5, <2>6, <2>7, <2>8, <2>9, <2>10
       DEF Continue, addToWheel, removeFromWheel
<1>4. CASE UNCHANGED vars
  BY <1>4 DEF WorksOnTimers, Adding, At, vars
<1>5. QED
  BY <1>1, <1>2, <1>3, <1>4 DEF Next, Begin

(* Adders stay alone with their timers.                                    *)
LEMMA AloneStep ==
  ASSUME Orderly, TypeInv, WorksOnTimers, AddersAreAlone, [Next]_vars
  PROVE  AddersAreAlone'
<1>1. ASSUME NEW th \in Thread, NEW t \in Timer, addTimer(th, t)
      PROVE  AddersAreAlone'
  BY <1>1
     DEF WorksOnTimers, Orderly, AddersAreAlone, Adding, TypeInv, TypeOK, addTimer, timerAddRef,
         GoTo, At, NoWheel
<1>2. ASSUME NEW th \in Thread, NEW t \in Timer, findTimer(th, t)
      PROVE  AddersAreAlone'
  BY <1>2
     DEF WorksOnTimers, Orderly, AddersAreAlone, Adding, TypeInv, TypeOK, findTimer, timerAddRef,
         MayStop, GoTo, At
<1>3. ASSUME NEW th \in Thread, Continue(th) \/ Rearm(th)
      PROVE  AddersAreAlone'
  <2>1. CASE AddChooseLast(th)
    <3>1. timer[th] \in Timer
      BY <2>1, TimerOf DEF AddChooseLast, At
    <3>2. QED
      BY <2>1, <3>1 DEF AddersAreAlone, Adding, TypeInv, TypeOK, AddChooseLast, GoTo, At
  <2>2. CASE AddChoose(th)
    <3>1. timer[th] \in Timer
      BY <2>2, TimerOf DEF AddChoose, At
    <3>2. QED
      BY <2>2, <3>1 DEF AddersAreAlone, Adding, TypeInv, TypeOK, AddChoose, GoTo, At
  <2>3. CASE AddLink(th)
    <3>1. timer[th] \in Timer
      BY <2>3, TimerOf DEF AddLink, At
    <3>2. QED
      <4>1. /\ \A x \in Thread \ {th} : timer'[x] = timer[x] /\ pc'[x] = pc[x]
            /\ timer'[th] \in {timer[th], NULL} /\ ~Adding(th)' /\ Adding(th)
            /\ known' = known \union {timer[th]}
        BY <2>3, <3>1 DEF TypeInv, TypeOK, AddLink, GoTo, At, Adding
      <4>2. \A x \in Thread : Adding(x) => timer[x] # NULL
        BY DEF WorksOnTimers, Adding
      <4>3. NULL \notin Rearmed
        BY WheelTimersAssumption
      <4>4. QED
        BY <4>1, <4>2, <4>3 DEF AddersAreAlone, Adding
  <2>4. CASE RemoveCheck(th)
    <3>1. timer[th] \in Timer
      BY <2>4, TimerOf DEF RemoveCheck, At
    <3>2. QED
      BY <2>4, <3>1 DEF AddersAreAlone, Adding, TypeInv, TypeOK, RemoveCheck, GoTo, At
  <2>5. CASE RemoveRead(th)
    <3>1. timer[th] \in Timer
      BY <2>5, TimerOf DEF RemoveRead, At
    <3>2. QED
      BY <2>5, <3>1 DEF AddersAreAlone, Adding, TypeInv, TypeOK, RemoveRead, GoTo, At
  <2>6. CASE RemoveLock(th)
    <3>1. timer[th] \in Timer
      BY <2>6, TimerOf DEF RemoveLock, At
    <3>2. QED
      BY <2>6, <3>1 DEF AddersAreAlone, Adding, TypeInv, TypeOK, RemoveLock, GoTo, At
  <2>7. CASE RemoveUnlink(th)
    <3>1. timer[th] \in Timer
      BY <2>7, TimerOf DEF RemoveUnlink, At
    <3>2. QED
      BY <2>7, <3>1 DEF AddersAreAlone, Adding, TypeInv, TypeOK, RemoveUnlink, GoTo, At
  <2>8. CASE removeTimer(th)
    <3>1. timer[th] \in Timer
      BY <2>8, TimerOf DEF removeTimer, At
    <3>2. QED
      BY <2>8, <3>1 DEF AddersAreAlone, Adding, TypeInv, TypeOK, removeTimer, GoTo, At
  <2>9. CASE Rearm(th)
    <3>1. timer[th] \in Timer
      BY <2>9, TimerOf DEF Rearm, At
    <3>2. QED
      BY <2>9, <3>1 DEF Orderly, AddersAreAlone, Adding, TypeInv, TypeOK, Rearm, GoTo, At
  <2>10. CASE Release(th)
    <3>1. timer[th] \in Timer
      BY <2>10, TimerOf DEF Release, At
    <3>2. QED
      <4>1. /\ \A x \in Thread \ {th} : timer'[x] = timer[x] /\ pc'[x] = pc[x]
            /\ timer'[th] = NULL /\ ~Adding(th)' /\ UNCHANGED known
        BY <2>10, <3>1 DEF TypeInv, TypeOK, Release, GoTo, At, Adding
      <4>2. \A x \in Thread : Adding(x) => timer[x] # NULL
        BY DEF WorksOnTimers, Adding
      <4>3. NULL \notin Rearmed
        BY WheelTimersAssumption
      <4>4. QED
        BY <4>1, <4>2, <4>3 DEF AddersAreAlone, Adding
  <2>11. QED
    BY <1>3, <2>1, <2>2, <2>3, <2>4, <2>5, <2>6, <2>7, <2>8, <2>9, <2>10
       DEF Continue, addToWheel, removeFromWheel
<1>4. CASE UNCHANGED vars
  BY <1>4 DEF AddersAreAlone, Adding, At, vars
<1>5. QED
  BY <1>1, <1>2, <1>3, <1>4 DEF Next, Begin

(* What was read of timer->wheel stays right, or becomes `no wheel'.        *)
LEMMA WheelStep ==
  ASSUME TypeInv, WorksOnTimers, AddersAreAlone, ReadWheelLasts, [Next]_vars
  PROVE  ReadWheelLasts'
<1>1. ASSUME NEW th \in Thread, NEW t \in Timer, addTimer(th, t)
      PROVE  ReadWheelLasts'
  BY <1>1
     DEF WorksOnTimers, ReadWheelLasts, Adding, TypeInv, TypeOK, addTimer, timerAddRef, GoTo, At,
         NoWheel
<1>2. ASSUME NEW th \in Thread, NEW t \in Timer, findTimer(th, t)
      PROVE  ReadWheelLasts'
  BY <1>2
     DEF WorksOnTimers, ReadWheelLasts, Adding, TypeInv, TypeOK, findTimer, timerAddRef, MayStop,
         GoTo, At
<1>3. ASSUME NEW th \in Thread, Continue(th) \/ Rearm(th)
      PROVE  ReadWheelLasts'
  <2>1. CASE AddChooseLast(th)
    <3>1. timer[th] \in Timer
      BY <2>1, TimerOf DEF AddChooseLast, At
    <3>2. QED
      BY <2>1, <3>1
         DEF AddersAreAlone, Wheel, ReadWheelLasts, Adding, TypeInv, TypeOK, AddChooseLast, GoTo,
             At
  <2>2. CASE AddChoose(th)
    <3>1. timer[th] \in Timer
      BY <2>2, TimerOf DEF AddChoose, At
    <3>2. QED
      BY <2>2, <3>1
         DEF AddersAreAlone, Wheel, ReadWheelLasts, Adding, TypeInv, TypeOK, AddChoose, GoTo, At
  <2>3. CASE AddLink(th)
    <3>1. timer[th] \in Timer
      BY <2>3, TimerOf DEF AddLink, At
    <3>2. QED
      BY <2>3, <3>1 DEF ReadWheelLasts, Adding, TypeInv, TypeOK, AddLink, GoTo, At
  <2>4. CASE RemoveCheck(th)
    <3>1. timer[th] \in Timer
      BY <2>4, TimerOf DEF RemoveCheck, At
    <3>2. QED
      BY <2>4, <3>1 DEF Wheel, ReadWheelLasts, Adding, TypeInv, TypeOK, RemoveCheck, GoTo, At
  <2>5. CASE RemoveRead(th)
    <3>1. timer[th] \in Timer
      BY <2>5, TimerOf DEF RemoveRead, At
    <3>2. QED
      BY <2>5, <3>1
         DEF WheelToLock, Wheel, ReadWheelLasts, Adding, TypeInv, TypeOK, RemoveRead, GoTo, At
  <2>6. CASE RemoveLock(th)
    <3>1. timer[th] \in Timer
      BY <2>6, TimerOf DEF RemoveLock, At
    <3>2. QED
      BY <2>6, <3>1 DEF ReadWheelLasts, Adding, TypeInv, TypeOK, RemoveLock, GoTo, At
  <2>7. CASE RemoveUnlink(th)
    <3>1. timer[th] \in Timer
      BY <2>7, TimerOf DEF RemoveUnlink, At
    <3>2. QED
      <4>1. /\ \A x \in Thread \ {th} : pc'[x] = pc[x]
            /\ pc'[th] \in {"removed", "release"} /\ UNCHANGED <<timer, seen>>
            /\ pc'[th] = "removed" => wheel'[timer[th]] = NumOfWheels
            /\ \A x \in Timer : wheel'[x] = wheel[x] \/ (x = timer[th] /\ wheel'[x] = NumOfWheels)
        BY <2>7, <3>1 DEF TypeInv, TypeOK, RemoveUnlink, GoTo, NoWheel
      <4>2. \A x \in Thread : x # th /\ Adding(x) => timer[x] # timer[th]
        BY DEF AddersAreAlone
      <4>3. \A x \in Thread : pc[x] # "idle" => timer[x] \in Timer
        BY TimerOf
      <4>4. QED
        BY <4>1, <4>2, <4>3 DEF ReadWheelLasts, Adding, At
  <2>8. CASE removeTimer(th)
    <3>1. timer[th] \in Timer
      BY <2>8, TimerOf DEF removeTimer, At
    <3>2. QED
      BY <2>8, <3>1 DEF ReadWheelLasts, Adding, TypeInv, TypeOK, removeTimer, GoTo, At
  <2>9. CASE Rearm(th)
    <3>1. timer[th] \in Timer
      BY <2>9, TimerOf DEF Rearm, At
    <3>2. QED
      BY <2>9, <3>1 DEF ReadWheelLasts, Adding, TypeInv, TypeOK, Rearm, GoTo, At
  <2>10. CASE Release(th)
    <3>1. timer[th] \in Timer
      BY <2>10, TimerOf DEF Release, At
    <3>2. QED
      BY <2>10, <3>1 DEF ReadWheelLasts, Adding, TypeInv, TypeOK, Release, GoTo, At
  <2>11. QED
    BY <1>3, <2>1, <2>2, <2>3, <2>4, <2>5, <2>6, <2>7, <2>8, <2>9, <2>10
       DEF Continue, addToWheel, removeFromWheel
<1>4. CASE UNCHANGED vars
  BY <1>4 DEF ReadWheelLasts, Adding, At, vars
<1>5. QED
  BY <1>1, <1>2, <1>3, <1>4 DEF Next, Begin

(* Nobody is told twice.                                                   *)
LEMMA RemovedStep ==
  ASSUME TypeInv, WorksOnTimers, AddersAreAlone, ReadWheelLasts, RemovedAtMostOnce, [Next]_vars
  PROVE  RemovedAtMostOnce'
<1>1. ASSUME NEW th \in Thread, NEW t \in Timer, addTimer(th, t)
      PROVE  RemovedAtMostOnce'
  BY <1>1
     DEF OneRemover, WorksOnTimers, RemovedAtMostOnce, Adding, TypeInv, TypeOK, addTimer,
         timerAddRef, GoTo, At, NoWheel
<1>2. ASSUME NEW th \in Thread, NEW t \in Timer, findTimer(th, t)
      PROVE  RemovedAtMostOnce'
  BY <1>2
     DEF OneRemover, RemovedAtMostOnce, Adding, TypeInv, TypeOK, findTimer, timerAddRef, MayStop,
         GoTo, At
<1>3. ASSUME NEW th \in Thread, Continue(th) \/ Rearm(th)
      PROVE  RemovedAtMostOnce'
  <2>1. CASE AddChooseLast(th)
    <3>1. timer[th] \in Timer
      BY <2>1, TimerOf DEF AddChooseLast, At
    <3>2. QED
      BY <2>1, <3>1
         DEF OneRemover, AddersAreAlone, RemovedAtMostOnce, Adding, TypeInv, TypeOK,
             AddChooseLast, GoTo, At
  <2>2. CASE AddChoose(th)
    <3>1. timer[th] \in Timer
      BY <2>2, TimerOf DEF AddChoose, At
    <3>2. QED
      BY <2>2, <3>1 DEF OneRemover, RemovedAtMostOnce, Adding, TypeInv, TypeOK, AddChoose, GoTo, At
  <2>3. CASE AddLink(th)
    <3>1. timer[th] \in Timer
      BY <2>3, TimerOf DEF AddLink, At
    <3>2. QED
      BY <2>3, <3>1 DEF OneRemover, RemovedAtMostOnce, Adding, TypeInv, TypeOK, AddLink, GoTo, At
  <2>4. CASE RemoveCheck(th)
    <3>1. timer[th] \in Timer
      BY <2>4, TimerOf DEF RemoveCheck, At
    <3>2. QED
      BY <2>4, <3>1
         DEF OneRemover, RemovedAtMostOnce, Adding, TypeInv, TypeOK, RemoveCheck, GoTo, At
  <2>5. CASE RemoveRead(th)
    <3>1. timer[th] \in Timer
      BY <2>5, TimerOf DEF RemoveRead, At
    <3>2. QED
      BY <2>5, <3>1 DEF OneRemover, RemovedAtMostOnce, Adding, TypeInv, TypeOK, RemoveRead, GoTo, At
  <2>6. CASE RemoveLock(th)
    <3>1. timer[th] \in Timer
      BY <2>6, TimerOf DEF RemoveLock, At
    <3>2. QED
      BY <2>6, <3>1 DEF OneRemover, RemovedAtMostOnce, Adding, TypeInv, TypeOK, RemoveLock, GoTo, At
  <2>7. CASE RemoveUnlink(th)
    <3>1. timer[th] \in Timer
      BY <2>7, TimerOf DEF RemoveUnlink, At
    <3>2. QED
      BY <2>7, <3>1
         DEF OneRemover, AddersAreAlone, StillLinked, NoWheel, RemovedAtMostOnce, Adding, TypeInv,
             TypeOK, RemoveUnlink, GoTo, At
  <2>8. CASE removeTimer(th)
    <3>1. timer[th] \in Timer
      BY <2>8, TimerOf DEF removeTimer, At
    <3>2. QED
      BY <2>8, <3>1
         DEF OneRemover, RemovedAtMostOnce, Adding, TypeInv, TypeOK, removeTimer, GoTo, At
  <2>9. CASE Rearm(th)
    <3>1. timer[th] \in Timer
      BY <2>9, TimerOf DEF Rearm, At
    <3>2. QED
      BY <2>9, <3>1
         DEF OneRemover, ReadWheelLasts, RemovedAtMostOnce, Adding, TypeInv, TypeOK, Rearm, GoTo,
             At
  <2>10. CASE Release(th)
    <3>1. timer[th] \in Timer
      BY <2>10, TimerOf DEF Release, At
    <3>2. QED
      BY <2>10, <3>1 DEF OneRemover, RemovedAtMostOnce, Adding, TypeInv, TypeOK, Release, GoTo, At
  <2>11. QED
    BY <1>3, <2>1, <2>2, <2>3, <2>4, <2>5, <2>6, <2>7, <2>8, <2>9, <2>10
       DEF Continue, addToWheel, removeFromWheel
<1>4. CASE UNCHANGED vars
  BY <1>4 DEF RemovedAtMostOnce, Adding, At, vars, OneRemover
<1>5. QED
  BY <1>1, <1>2, <1>3, <1>4 DEF Next, Begin

-----------------------------------------------------------------------------
(* Threads and timers are as these functions expect.                       *)
ThreadInv == /\ TypeInv
             /\ WorksOnTimers
             /\ AddersAreAlone
             /\ ReadWheelLasts
             /\ RemovedAtMostOnce

(* No thread is in a call at the start.                                    *)
LEMMA ThreadInit == Init => ThreadInv
<1> SUFFICES ASSUME Init PROVE ThreadInv
  OBVIOUS
<1>1. TypeInv
  BY TypeInit
<1>2. WorksOnTimers /\ AddersAreAlone /\ ReadWheelLasts /\ RemovedAtMostOnce
  BY WheelTimersAssumption
     DEF Init, WorksOnTimers, AddersAreAlone, ReadWheelLasts, RemovedAtMostOnce, OneRemover,
         Adding, At
<1>3. QED
  BY <1>1, <1>2 DEF ThreadInv

(* Every step of a thread keeps what the others know of the timers they    *)
(* deal with.                                                              *)
LEMMA ThreadStep ==
  ASSUME Orderly, ThreadInv, [Next]_vars
  PROVE  ThreadInv'
BY TypeStep, WorkStep, AloneStep, WheelStep, RemovedStep DEF ThreadInv

(* Where callers are orderly, threads and timers stay as the functions     *)
(* expect.                                                                 *)
THEOREM ThreadInvariant == ASSUME Orderly PROVE Spec => []ThreadInv
<1>1. ThreadInv /\ [Next]_vars => ThreadInv'
  BY ThreadStep
<1>2. QED
  BY <1>1, ThreadInit, PTL DEF Spec

(* Fields, links and counts keep their types (timer.c:21-75).              *)
THEOREM TypeCorrect == ASSUME Orderly PROVE Spec => []TypeOK
<1>1. ThreadInv => TypeOK
  BY DEF ThreadInv, TypeInv
<1>2. Spec => []ThreadInv
  BY ThreadInvariant
<1>3. QED
  BY <1>1, <1>2, PTL

(* However many threads stop a timer, one is told that it removed it       *)
(* (timer.c:216-242).                                                      *)
THEOREM OneIsTold == ASSUME Orderly PROVE Spec => []OneRemover
<1>1. ThreadInv => OneRemover
  BY DEF ThreadInv, RemovedAtMostOnce
<1>2. Spec => []ThreadInv
  BY ThreadInvariant
<1>3. QED
  BY <1>1, <1>2, PTL
-----------------------------------------------------------------------------
(* Every thread can hold a reference without the count overflowing.        *)
CountFits == IsFiniteSet(Thread) /\ Cardinality(Thread) + 2 < RefMod

(* The references there are to a timer.                                    *)
InMap(t) == IF t \in inMap THEN 1 ELSE 0
InWheel(t) == IF wheel[t] # NumOfWheels THEN 1 ELSE 0

(* A timer that no thread has looked up yet is in the map until it is      *)
(* known; one that a thread has looked up is known.                        *)
TimersAreKept ==
  /\ \A th \in Thread : Adding(th) => timer[th] \in known \union inMap
  /\ \A th \in Thread : pc[th] # "idle" /\ ~Adding(th) => timer[th] \in known
  /\ \A t \in Timer : life[t] = "unborn" => refCount[t] = 0 /\ t \notin inMap

(* All that the count of a timer depends on, but for the timer t, stays.   *)
OthersStay(t) ==
  \A x \in Timer \ {t} :
    /\ (x \in inMap)' <=> x \in inMap
    /\ wheel'[x] = wheel[x] /\ refCount'[x] = refCount[x] /\ life'[x] = life[x]
    /\ Holders(x)' = Holders(x)

(* How many threads can hold a timer.                                      *)
LEMMA HoldersAreFew ==
  ASSUME CountFits, NEW t
  PROVE  /\ IsFiniteSet(Holders(t)) /\ Cardinality(Holders(t)) \in Nat
         /\ Cardinality(Holders(t)) + 2 < RefMod
         /\ \A th \in Thread \ Holders(t) : Cardinality(Holders(t)) + 3 < RefMod
<1>1. Holders(t) \in SUBSET Thread
  BY DEF Holders
<1>2. /\ IsFiniteSet(Holders(t)) /\ Cardinality(Holders(t)) \in Nat
      /\ Cardinality(Thread) \in Nat /\ Cardinality(Holders(t)) <= Cardinality(Thread)
  BY <1>1, FS_Subset, FS_CardinalityType DEF CountFits
<1>3. ASSUME NEW th \in Thread \ Holders(t)
      PROVE  Cardinality(Holders(t)) + 1 <= Cardinality(Thread)
  <2>1. Cardinality(Holders(t) \union {th}) <= Cardinality(Thread)
    BY <1>1, FS_Subset DEF CountFits
  <2>2. QED
    BY <1>2, <2>1, FS_AddElement
<1>4. QED
  BY <1>2, <1>3, WheelTimersAssumption DEF CountFits

(* The count goes up and down by one, and not round.                       *)
LEMMA CountByOne ==
  ASSUME TypeInv, NEW t \in Timer
  PROVE  /\ timerAddRef(t) /\ refCount[t] + 1 < RefMod =>
              refCount' = [refCount EXCEPT ![t] = refCount[t] + 1]
         /\ timerDecRef(t) /\ refCount[t] >= 1 =>
              refCount' = [refCount EXCEPT ![t] = refCount[t] - 1]
<1>1. refCount \in [Timer -> 0 .. RefMod - 1] /\ RefMod \in Nat \ {0}
  BY WheelTimersAssumption DEF TypeInv, TypeOK
<1>2. \A n \in Nat : n < RefMod => n % RefMod = n
  BY <1>1, SMTT(30)
<1>3. /\ refCount[t] \in Nat /\ refCount[t] < RefMod
      /\ refCount[t] + 1 \in Nat
      /\ refCount[t] >= 1 => refCount[t] - 1 \in Nat /\ refCount[t] - 1 < RefMod
  BY <1>1
<1>4. refCount[t] + 1 < RefMod => (refCount[t] + 1) % RefMod = refCount[t] + 1
  BY <1>2, <1>3
<1>5. refCount[t] >= 1 => (refCount[t] - 1) % RefMod = refCount[t] - 1
  BY <1>2, <1>3
<1>6. QED
  BY <1>4, <1>5 DEF timerAddRef, timerDecRef

(* A step that leaves the others alone and keeps t's count exact keeps all *)
(* counts exact.                                                           *)
LEMMA CountsFromOne ==
  ASSUME RefCountIsExact, NEW t \in Timer, OthersStay(t),
         life'[t] # "unborn" =>
           /\ refCount'[t] = InMap(t)' + InWheel(t)' + Cardinality(Holders(t)')
           /\ life'[t] = "freed" <=> refCount'[t] = 0
  PROVE  RefCountIsExact'
<1> SUFFICES ASSUME NEW x \in Timer, life'[x] # "unborn"
             PROVE  /\ refCount'[x] = InMap(x)' + InWheel(x)' + Cardinality(Holders(x)')
                    /\ life'[x] = "freed" <=> refCount'[x] = 0
  BY DEF RefCountIsExact, InMap, InWheel
<1>1. CASE x = t
  BY <1>1
<1>2. CASE x # t
  BY <1>2 DEF OthersStay, RefCountIsExact, InMap, InWheel
<1>3. QED
  BY <1>1, <1>2

RefInv == RefCountIsExact /\ TimersAreKept

(* Timers are kept while threads work on them.                             *)
LEMMA KeptStep ==
  ASSUME TypeInv, WorksOnTimers, AddersAreAlone, RefCountIsExact, TimersAreKept, CountFits,
         [Next]_vars
  PROVE  TimersAreKept'
<1>1. ASSUME NEW th \in Thread, NEW t \in Timer, addTimer(th, t) \/ findTimer(th, t)
      PROVE  TimersAreKept'
  <2>1. \A x \in Timer \ {t} : life'[x] = life[x] /\ refCount'[x] = refCount[x]
    BY <1>1 DEF addTimer, findTimer, timerAddRef, TypeInv, TypeOK
  <2>2. life'[t] # "unborn"
    BY <1>1 DEF addTimer, findTimer, WorksOnTimers, TypeInv, TypeOK
  <2>3. QED
    BY <1>1, <2>1, <2>2 DEF TimersAreKept, Adding, addTimer, findTimer, GoTo, At, TypeInv, TypeOK
<1>2. ASSUME NEW th \in Thread, Continue(th) \/ Rearm(th)
      PROVE  TimersAreKept'
  <2>1. timer[th] \in Timer /\ life[timer[th]] # "unborn"
    <3>1. pc[th] # "idle"
      BY <1>2 DEF Continue, addToWheel, removeFromWheel, removeTimer, Rearm, Release, AddChooseLast,
                  AddChoose, AddLink, RemoveCheck, RemoveRead, RemoveLock, RemoveUnlink, At
    <3>2. QED
      BY <3>1, TimerOf DEF WorksOnTimers, TypeInv
  <2>2. ASSUME NEW x \in Timer, life'[x] = "unborn"
        PROVE  refCount'[x] = 0 /\ life[x] = "unborn"
    BY <1>2, <2>1, <2>2 DEF TimersAreKept, TypeInv, TypeOK, Continue, addToWheel, removeFromWheel,
         removeTimer, Rearm, Release, AddChooseLast, AddChoose, AddLink, RemoveCheck, RemoveRead,
         RemoveLock, RemoveUnlink, timerAddRef, timerDecRef
  <2>3. inMap' \subseteq inMap
    BY <1>2 DEF Continue, addToWheel, removeFromWheel,
         removeTimer, Rearm, Release, AddChooseLast, AddChoose, AddLink, RemoveCheck, RemoveRead,
         RemoveLock, RemoveUnlink
  <2>4. \A x \in Thread \ {th} : pc'[x] = pc[x] /\ timer'[x] = timer[x]
    BY <1>2 DEF TypeInv, TypeOK, Continue, addToWheel, removeFromWheel,
         removeTimer, Rearm, Release, AddChooseLast, AddChoose, AddLink, RemoveCheck, RemoveRead,
         RemoveLock, RemoveUnlink, GoTo
  <2>5. known \subseteq known'
    BY <1>2 DEF Continue, addToWheel, removeFromWheel,
         removeTimer, Rearm, Release, AddChooseLast, AddChoose, AddLink, RemoveCheck, RemoveRead,
         RemoveLock, RemoveUnlink
  <2>6. \A x \in Thread \ {th} : Adding(x) /\ timer[x] \in inMap => timer[x] \in inMap'
    BY <1>2, <2>1 DEF AddersAreAlone, Continue, addToWheel, removeFromWheel,
         removeTimer, Rearm, Release, AddChooseLast, AddChoose, AddLink, RemoveCheck, RemoveRead,
         RemoveLock, RemoveUnlink
  <2>7. /\ Adding(th)' => timer'[th] \in known' \union inMap'
        /\ pc'[th] # "idle" /\ ~Adding(th)' => timer'[th] \in known'
    BY <1>2, <2>5 DEF TimersAreKept, Adding, TypeInv, TypeOK, Continue, addToWheel, removeFromWheel,
         removeTimer, Rearm, Release, AddChooseLast, AddChoose, AddLink, RemoveCheck, RemoveRead,
         RemoveLock, RemoveUnlink, GoTo, At
  <2>8. QED
    BY <2>2, <2>3, <2>4, <2>5, <2>6, <2>7 DEF TimersAreKept, Adding
<1>3. CASE UNCHANGED vars
  BY <1>3 DEF TimersAreKept, Adding, vars
<1>4. QED
  BY <1>1, <1>2, <1>3 DEF Next, Begin

(* Every step counts exactly.                                              *)
LEMMA CountStep ==
  ASSUME ThreadInv, RefInv, CountFits, [Next]_vars
  PROVE  RefCountIsExact'
<1> USE DEF InMap, InWheel
<1>0. TypeInv /\ WorksOnTimers /\ AddersAreAlone /\ ReadWheelLasts /\ RefCountIsExact /\ TimersAreKept
  BY DEF ThreadInv, RefInv
<1>a. \A x \in Timer : /\ refCount[x] \in Nat /\ Cardinality(Holders(x)) \in Nat
                       /\ IsFiniteSet(Holders(x)) /\ Cardinality(Holders(x)) + 2 < RefMod
                       /\ life[x] # "unborn" =>
                            refCount[x] = InMap(x) + InWheel(x) + Cardinality(Holders(x))
  BY <1>0, HoldersAreFew DEF TypeInv, TypeOK, RefCountIsExact
<1>b. \A x \in Timer : \A e : Cardinality(Holders(x) \union {e}) =
         IF e \in Holders(x) THEN Cardinality(Holders(x)) ELSE Cardinality(Holders(x)) + 1
  BY <1>a, FS_AddElement
<1>c. \A x \in Timer : \A e : Cardinality(Holders(x) \ {e}) =
         IF e \in Holders(x) THEN Cardinality(Holders(x)) - 1 ELSE Cardinality(Holders(x))
  BY <1>a, FS_RemoveElement
<1>d. \A x \in Timer : RefMod \in Nat /\ (\A h \in Holders(x) : Cardinality(Holders(x)) >= 1)
  <2> SUFFICES ASSUME NEW x \in Timer, NEW h \in Holders(x) PROVE Cardinality(Holders(x)) >= 1
    BY WheelTimersAssumption
  <2>1. Cardinality(Holders(x) \ {h}) = Cardinality(Holders(x)) - 1
    BY <1>c
  <2>2. Cardinality(Holders(x) \ {h}) \in Nat
    BY <1>a, FS_RemoveElement, FS_CardinalityType
  <2>3. QED
    BY <1>a, <2>1, <2>2
<1>1. ASSUME NEW th \in Thread, NEW t \in Timer, addTimer(th, t)
      PROVE  RefCountIsExact'
  <2>1. /\ refCount[t] = 0 /\ life[t] = "unborn" /\ t \notin known
        /\ \A x \in Thread : timer[x] # t
    BY <1>0, <1>1 DEF TimersAreKept, WorksOnTimers, TypeInv, addTimer
  <2>2. /\ refCount' = [refCount EXCEPT ![t] = 1]
        /\ life' = [life EXCEPT ![t] = "live"] /\ wheel' = [wheel EXCEPT ![t] = NumOfWheels]
        /\ inMap' = inMap \union {t} /\ known' = known
        /\ timer' = [timer EXCEPT ![th] = t] /\ pc' = [pc EXCEPT ![th] = "add"]
    <3>1. timerAddRef(t) /\ refCount[t] + 1 < RefMod
      BY <1>1, <1>a, <1>d, <2>1 DEF addTimer
    <3>2. refCount' = [refCount EXCEPT ![t] = 1]
      BY <1>0, <2>1, <3>1, CountByOne
    <3>3. QED
      BY <1>1, <3>2 DEF addTimer, GoTo, NoWheel
  <2>3. timer[th] = NULL /\ pc[th] = "idle"
    BY <1>0, <1>1 DEF addTimer, At, WorksOnTimers
  <2>4. Holders(t)' = {}
    BY <1>0, <2>1, <2>2, <2>3 DEF Holders, TypeInv, TypeOK
  <2>5. OthersStay(t)
    BY <1>0, <2>2, <2>3 DEF OthersStay, Holders, TypeInv, TypeOK
  <2>6. refCount'[t] = 1 /\ life'[t] = "live" /\ wheel'[t] = NumOfWheels /\ t \in inMap'
    BY <1>0, <2>2 DEF TypeInv, TypeOK
  <2>7. Cardinality(Holders(t)') = 0
    BY <2>4, FS_EmptySet
  <2>8. QED
    BY <1>0, <2>5, <2>6, <2>7, CountsFromOne
<1>2. ASSUME NEW th \in Thread, NEW t \in Timer, findTimer(th, t)
      PROVE  RefCountIsExact'
  <2>1. /\ t \in known /\ t \in inMap /\ life[t] # "unborn"
        /\ timer[th] = NULL /\ pc[th] = "idle"
    BY <1>0, <1>2 DEF WorksOnTimers, findTimer, At
  <2>2. /\ refCount' = [refCount EXCEPT ![t] = refCount[t] + 1]
        /\ timer' = [timer EXCEPT ![th] = t] /\ pc' = [pc EXCEPT ![th] = "remove"]
        /\ UNCHANGED <<life, wheel, inMap, known>>
    <3>1. timerAddRef(t)
      BY <1>2 DEF findTimer
    <3>2. refCount[t] + 1 < RefMod
      <4>1. th \notin Holders(t)
        BY <1>0, <2>1 DEF Holders, TypeInv
      <4>2. Cardinality(Holders(t)) + 3 < RefMod
        BY <4>1, HoldersAreFew
      <4>3. refCount[t] <= 2 + Cardinality(Holders(t))
        BY <1>a, <2>1
      <4>4. QED
        BY <1>a, <1>d, <4>2, <4>3
    <3>3. QED
      BY <1>0, <1>2, <3>1, <3>2, CountByOne DEF findTimer, GoTo
  <2>3. Holders(t)' = Holders(t) \union {th} /\ th \notin Holders(t)
    BY <1>0, <2>1, <2>2 DEF Holders, TypeInv, TypeOK
  <2>4. OthersStay(t)
    BY <1>0, <2>1, <2>2 DEF OthersStay, Holders, TypeInv, TypeOK
  <2>5. Cardinality(Holders(t)') = Cardinality(Holders(t)) + 1
    BY <1>b, <2>3
  <2>6. refCount'[t] = refCount[t] + 1 /\ life'[t] # "freed" /\ refCount[t] >= 1
    BY <1>0, <1>a, <2>1, <2>2 DEF TypeInv, TypeOK, RefCountIsExact
  <2>7. QED
    BY <1>0, <1>a, <2>1, <2>2, <2>4, <2>5, <2>6, CountsFromOne
<1>3. ASSUME NEW th \in Thread, Continue(th) \/ Rearm(th)
      PROVE  RefCountIsExact'
  <2>a. timer[th] \in Timer /\ life[timer[th]] # "unborn"
    <3>1. pc[th] # "idle"
      BY <1>3 DEF Continue, addToWheel, removeFromWheel, removeTimer, Rearm, Release, AddChooseLast,
                  AddChoose, AddLink, RemoveCheck, RemoveRead, RemoveLock, RemoveUnlink, At
    <3>2. QED
      BY <1>0, <3>1, TimerOf DEF WorksOnTimers, TypeInv
  <2>0. PICK t \in Timer : t = timer[th] /\ life[t] # "unborn"
    BY <2>a
  <2>1. CASE AddChooseLast(th)
    <3>1. /\ wheel[t] = NumOfWheels /\ t \in known \union inMap
          /\ t \in known => th \in Holders(t)
      BY <2>0, <1>0, <2>1 DEF AddChooseLast, ReadWheelLasts, TimersAreKept, Holders, At, Adding
    <3>2. refCount[t] >= 1 /\ refCount[t] + 1 < RefMod
      BY <1>a, <1>d, <2>0, <3>1
    <3>3. /\ refCount' = [refCount EXCEPT ![t] = refCount[t] + 1]
          /\ wheel' = [wheel EXCEPT ![t] = NumOfWheels - 1] /\ pc' = [pc EXCEPT ![th] = "choose"]
          /\ UNCHANGED <<life, inMap, known, timer>>
      BY <1>0, <2>0, <2>1, <3>2, CountByOne DEF AddChooseLast, GoTo
    <3>4. \A x \in Timer : Holders(x)' = Holders(x)
      BY <2>0, <1>0, <2>1, <3>3 DEF Holders, AddChooseLast, At, TypeInv, TypeOK
    <3>5. /\ refCount'[t] = refCount[t] + 1 /\ wheel'[t] # NumOfWheels /\ life'[t] # "freed"
          /\ OthersStay(t)
      BY <1>0, <2>0, <3>2, <3>3, <3>4 DEF TypeInv, TypeOK, RefCountIsExact, OthersStay
    <3>6. QED
      BY <1>0, <1>a, <2>0, <3>1, <3>2, <3>3, <3>4, <3>5, CountsFromOne
  <2>2. CASE AddChoose(th)
    <3>1. /\ wheel[t] # NumOfWheels /\ wheel'[t] # NumOfWheels
          /\ \A x \in Timer \ {t} : wheel'[x] = wheel[x]
          /\ UNCHANGED <<refCount, life, inMap, known, timer>> /\ pc' = [pc EXCEPT ![th] = "link"]
      BY <1>0, <2>0, <2>2, WheelTimersAssumption
         DEF AddChoose, ReadWheelLasts, At, Wheel, TypeInv, TypeOK, GoTo
    <3>2. \A x \in Timer : Holders(x)' = Holders(x)
      BY <2>0, <1>0, <2>2, <3>1 DEF Holders, AddChoose, At, TypeInv, TypeOK
    <3>3. QED
      BY <2>0, <1>0, <3>1, <3>2 DEF RefCountIsExact
  <2>3. CASE AddLink(th)
    <3>1. /\ UNCHANGED <<refCount, life, wheel, inMap>> /\ known' = known \union {t} /\ pc[th] = "link"
          /\ t \in known => timer' = timer /\ pc' = [pc EXCEPT ![th] = "release"]
          /\ t \notin known => /\ timer' = [timer EXCEPT ![th] = NULL]
                               /\ pc' = [pc EXCEPT ![th] = "idle"]
      BY <2>0, <2>3 DEF AddLink, GoTo, At
    <3>2. \A x \in Thread : x # th => timer[x] # t
      BY <2>0, <1>0, <3>1 DEF AddersAreAlone, Adding
    <3>3. \A x \in Timer : Holders(x)' = Holders(x)
      BY <1>0, <2>0, <3>1, <3>2 DEF Holders, TypeInv, TypeOK
    <3>4. QED
      BY <2>0, <1>0, <3>1, <3>3 DEF RefCountIsExact
  <2>4. CASE RemoveCheck(th) \/ RemoveRead(th) \/ RemoveLock(th)
    <3>1. /\ UNCHANGED <<refCount, life, wheel, inMap, known, timer>>
          /\ \A x \in Thread : /\ pc'[x] \in {"add", "choose", "link"} <=> Adding(x)
                               /\ pc'[x] = "idle" <=> pc[x] = "idle"
      BY <2>0, <1>0, <2>4 DEF RemoveCheck, RemoveRead, RemoveLock, GoTo, At, Adding, TypeInv, TypeOK
    <3>2. \A x \in Timer : Holders(x)' = Holders(x)
      BY <2>0, <3>1 DEF Holders, Adding
    <3>3. QED
      BY <2>0, <1>0, <3>1, <3>2 DEF RefCountIsExact
  <2>5. CASE RemoveUnlink(th)
    <3>1. /\ UNCHANGED <<inMap, known, timer>> /\ pc[th] = "unlink"
          /\ pc' = [pc EXCEPT ![th] = "removed"] \/ pc' = [pc EXCEPT ![th] = "release"]
      BY <2>0, <2>5 DEF RemoveUnlink, GoTo, At
    <3>2. \A x \in Timer : Holders(x)' = Holders(x)
      BY <2>0, <1>0, <3>1 DEF Holders, TypeInv, TypeOK
    <3>3. CASE ~StillLinked(t)
      BY <2>0, <1>0, <2>5, <3>1, <3>2, <3>3 DEF RemoveUnlink, RefCountIsExact
    <3>4. CASE StillLinked(t)
      <4>1. wheel[t] # NumOfWheels /\ th \in Holders(t)
        BY <1>0, <2>0, <3>1, <3>4 DEF StillLinked, Holders, TypeInv, TypeOK
      <4>2. refCount[t] >= 2
        BY <1>a, <1>d, <2>0, <4>1
      <4>3. /\ refCount' = [refCount EXCEPT ![t] = refCount[t] - 1] /\ timerDecRef(t)
            /\ wheel' = [wheel EXCEPT ![t] = NumOfWheels]
        BY <1>0, <1>a, <2>0, <2>5, <3>4, <4>2, CountByOne DEF RemoveUnlink, NoWheel
      <4>4. refCount'[t] = refCount[t] - 1 /\ refCount'[t] # 0 /\ wheel'[t] = NumOfWheels
        BY <1>0, <1>a, <2>0, <4>2, <4>3 DEF TypeInv, TypeOK
      <4>5. life' = life
        BY <2>0, <4>3, <4>4 DEF timerDecRef, NoReferences
      <4>6. OthersStay(t)
        BY <2>0, <1>0, <3>1, <3>2, <4>3, <4>5 DEF OthersStay, TypeInv, TypeOK
      <4>7. life[t] # "freed"
        BY <1>0, <2>0, <4>2 DEF RefCountIsExact
      <4>8. QED
        BY <1>0, <1>a, <2>0, <3>1, <3>2, <4>1, <4>4, <4>5, <4>6, <4>7, CountsFromOne
    <3>5. QED
      BY <2>0, <3>3, <3>4
  <2>6. CASE removeTimer(th)
    <3>1. /\ UNCHANGED <<wheel, known, timer>> /\ pc[th] = "removed"
          /\ pc' = [pc EXCEPT ![th] = "release"] /\ inMap' = inMap \ {t}
      BY <2>0, <2>6 DEF removeTimer, GoTo, At
    <3>2. \A x \in Timer : Holders(x)' = Holders(x)
      BY <2>0, <1>0, <3>1 DEF Holders, TypeInv, TypeOK
    <3>3. CASE t \notin inMap
      BY <2>0, <1>0, <2>6, <3>1, <3>2, <3>3 DEF removeTimer, RefCountIsExact
    <3>4. CASE t \in inMap
      <4>1. th \in Holders(t)
        BY <2>0, <3>1 DEF Holders
      <4>2. refCount[t] >= 2
        BY <1>a, <1>d, <2>0, <3>4, <4>1
      <4>3. refCount' = [refCount EXCEPT ![t] = refCount[t] - 1] /\ timerDecRef(t)
        BY <1>0, <1>a, <2>0, <2>6, <3>4, <4>2, CountByOne DEF removeTimer
      <4>4. refCount'[t] = refCount[t] - 1 /\ refCount'[t] # 0
        BY <1>0, <1>a, <2>0, <4>2, <4>3 DEF TypeInv, TypeOK
      <4>5. life' = life
        BY <2>0, <4>3, <4>4 DEF timerDecRef, NoReferences
      <4>6. OthersStay(t)
        BY <2>0, <1>0, <3>1, <3>2, <4>3, <4>5 DEF OthersStay, TypeInv, TypeOK
      <4>7. life[t] # "freed"
        BY <1>0, <2>0, <4>2 DEF RefCountIsExact
      <4>8. QED
        BY <1>0, <1>a, <2>0, <3>1, <3>2, <3>4, <4>4, <4>5, <4>6, <4>7, CountsFromOne
    <3>5. QED
      BY <2>0, <3>3, <3>4
  <2>7. CASE Rearm(th)
    <3>1. /\ UNCHANGED <<refCount, life, wheel, inMap, known, timer>> /\ pc[th] = "removed"
          /\ pc' = [pc EXCEPT ![th] = "add"] /\ t \in known
      BY <2>0, <1>0, <2>7 DEF Rearm, GoTo, At, TimersAreKept, Adding
    <3>2. \A x \in Timer : Holders(x)' = Holders(x)
      BY <2>0, <1>0, <3>1 DEF Holders, TypeInv, TypeOK
    <3>3. QED
      BY <2>0, <1>0, <3>1, <3>2 DEF RefCountIsExact
  <2>8. CASE Release(th)
    <3>1. /\ UNCHANGED <<wheel, inMap, known>> /\ pc[th] = "release"
          /\ pc' = [pc EXCEPT ![th] = "idle"] /\ timer' = [timer EXCEPT ![th] = NULL]
      BY <2>0, <2>8 DEF Release, GoTo, At
    <3>2. /\ Holders(t)' = Holders(t) \ {th} /\ th \in Holders(t)
          /\ \A x \in Timer \ {t} : Holders(x)' = Holders(x)
      BY <1>0, <2>0, <3>1 DEF Holders, TypeInv, TypeOK
    <3>3. Cardinality(Holders(t)') = Cardinality(Holders(t)) - 1
      BY <1>c, <2>0, <3>2
    <3>4. refCount[t] >= 1
      BY <1>a, <1>d, <2>0, <3>2
    <3>5. refCount' = [refCount EXCEPT ![t] = refCount[t] - 1] /\ timerDecRef(t)
      BY <1>0, <2>0, <2>8, <3>4, CountByOne DEF Release
    <3>6. /\ refCount'[t] = refCount[t] - 1
          /\ life' = IF refCount'[t] = 0 THEN [life EXCEPT ![t] = "freed"] ELSE life
      BY <1>0, <2>0, <3>5 DEF timerDecRef, NoReferences, TypeInv, TypeOK
    <3>7. OthersStay(t)
      BY <2>0, <1>0, <3>1, <3>2, <3>5, <3>6 DEF OthersStay, TypeInv, TypeOK
    <3>8. life[t] # "freed"
      BY <1>0, <2>0, <3>4 DEF RefCountIsExact
    <3>9. life'[t] = "freed" <=> refCount'[t] = 0
      BY <1>0, <2>0, <3>6, <3>8 DEF TypeInv, TypeOK
    <3>10. QED
      BY <1>0, <1>a, <2>0, <3>1, <3>3, <3>6, <3>7, <3>9, CountsFromOne
  <2>9. QED
    BY <2>0, <1>3, <2>1, <2>2, <2>3, <2>4, <2>5, <2>6, <2>7, <2>8
       DEF Continue, addToWheel, removeFromWheel
<1>4. CASE UNCHANGED vars
  BY <1>0, <1>4 DEF RefCountIsExact, Holders, vars
<1>5. QED
  BY <1>1, <1>2, <1>3, <1>4 DEF Next, Begin

(* No timer has a reference at the start.                                  *)
LEMMA RefInit == Init => RefInv
BY WheelTimersAssumption DEF Init, RefInv, RefCountIsExact, TimersAreKept, Adding

(* Every step that adds or drops a reference counts it, and the count      *)
(* never gets to where a byte wraps.                                       *)
LEMMA RefStep ==
  ASSUME CountFits
  PROVE  ThreadInv /\ RefInv /\ [Next]_vars => RefInv'
BY CountStep, KeptStep DEF RefInv, ThreadInv

(* As long as the threads are fewer than the count can hold, a timer's     *)
(* count is the number of references to it, and it is freed when the last  *)
(* of them goes and not before (timer.c:86-94, 113-165, 209-243).          *)
THEOREM CountIsExact == ASSUME Orderly, CountFits PROVE Spec => []RefCountIsExact
<1>1. ThreadInv /\ RefInv /\ [Next]_vars => RefInv'
  BY RefStep
<1>2. RefInv => RefCountIsExact
  BY DEF RefInv
<1>3. Spec => []ThreadInv
  BY ThreadInvariant
<1>4. QED
  BY <1>1, <1>2, <1>3, RefInit, PTL DEF Spec
-----------------------------------------------------------------------------
(* The list of the wheel w is doubly linked: it links the timers it should *)
(* and no others, and either link of one undoes the other.                 *)
ListOf(w) ==
  /\ Chain(slots[w]) = Linked(w)
  /\ \A t \in Linked(w) :
       /\ prev[t] = NULL <=> slots[w] = t
       /\ next[t] # NULL => next[t] \in Linked(w) /\ prev[next[t]] = t
       /\ prev[t] # NULL => prev[t] \in Linked(w) /\ next[prev[t]] = t

(* A timer that is about to become the head of a list has no predecessor.  *)
ListInv == /\ \A th \in Thread : At(th, "link") => prev[timer[th]] = NULL
           /\ \A w \in Wheel : ListOf(w)

(* A timer with a wheel is not freed: its wheel has a reference to it.     *)
LinkedAre ==
  \A t \in Timer, w \in Wheel :
    t \in Linked(w) <=> life[t] # "unborn" /\ wheel[t] = w /\ t \notin BeingAdded

(* A timer that is freed is in no wheel, as its wheel's reference would    *)
(* count.                                                                  *)
LEMMA LinkedAreAdded ==
  ASSUME CountFits
  PROVE  TypeInv /\ RefInv => LinkedAre
<1> SUFFICES ASSUME TypeInv, RefInv, NEW t \in Timer, NEW w \in Wheel, wheel[t] = w,
                    life[t] = "freed"
             PROVE  FALSE
  BY DEF LinkedAre, Linked, TypeInv, TypeOK
<1>1. refCount[t] = 0 /\ refCount[t] = InMap(t) + InWheel(t) + Cardinality(Holders(t))
  BY DEF RefInv, RefCountIsExact, InMap, InWheel
<1>2. InMap(t) \in {0, 1} /\ Cardinality(Holders(t)) \in Nat
  BY HoldersAreFew DEF InMap
<1>3. InWheel(t) = 1
  BY DEF InWheel, Wheel, TypeInv
<1>4. QED
  BY <1>1, <1>2, <1>3

(* Nor is it after a step.                                                 *)
LEMMA LinkedAreAddedNext ==
  ASSUME CountFits
  PROVE  TypeInv' /\ RefInv' => LinkedAre'
<1>1. TypeInv /\ RefInv => LinkedAre
  BY LinkedAreAdded
<1>2. QED
  BY <1>1, PTL

(* What is linked behind p has p and all that is linked behind its timers. *)
LEMMA ChainIsClosed ==
  ASSUME TypeInv, NEW p \in Timer \union {NULL}
  PROVE  Closed(p, Chain(p))
<1>1. next \in [Timer -> Timer \union {NULL}]
  BY DEF TypeInv, TypeOK
<1>2. QED
  BY <1>1 DEF Closed, Chain

(* A list that no step has touched is what it was.                         *)
LEMMA SameList ==
  ASSUME TypeInv, NEW w \in Wheel, ListOf(w),
         Linked(w)' = Linked(w), slots'[w] = slots[w],
         \A t \in Linked(w) : next'[t] = next[t] /\ prev'[t] = prev[t]
  PROVE  ListOf(w)'
<1>0. PICK C : C = Linked(w)
  OBVIOUS
<1>1. C \subseteq Timer /\ slots[w] \in Timer \union {NULL} /\ C = Chain(slots[w])
  BY <1>0 DEF Linked, ListOf, TypeInv, TypeOK
<1>2. Closed(slots[w], C)
  BY <1>1, ChainIsClosed
<1>3. Closed(slots[w], C)'
  BY <1>0, <1>1, <1>2 DEF Closed
<1>4. ASSUME NEW S \in SUBSET Timer, Closed(slots[w], S)'
      PROVE  C \subseteq S
  <2>1. Closed(slots[w], S \intersect C)
    BY <1>0, <1>1, <1>2, <1>4 DEF Closed
  <2>2. S \intersect C \in SUBSET Timer
    OBVIOUS
  <2>3. QED
    BY <1>1, <2>1, <2>2 DEF Chain
<1>5. Chain(slots[w])' = C
  BY <1>1, <1>3, <1>4 DEF Chain
<1>6. QED
  BY <1>0, <1>5 DEF ListOf

(* A timer that becomes the head of the list is linked before the others.  *)
LEMMA HeadIsLinked ==
  ASSUME TypeInv, NEW w \in Wheel, ListOf(w), NEW t \in Timer \ Linked(w), prev[t] = NULL,
         Linked(w)' = Linked(w) \union {t},
         slots'[w] = t,
         next' = [next EXCEPT ![t] = slots[w]],
         prev' = IF slots[w] = NULL THEN prev ELSE [prev EXCEPT ![slots[w]] = t]
  PROVE  ListOf(w)'
<1>0. PICK C, p : C = Linked(w) /\ p = slots[w]
  OBVIOUS
<1>1. /\ C \subseteq Timer /\ p \in Timer \union {NULL} /\ C = Chain(p) /\ NULL \notin Timer
      /\ next \in [Timer -> Timer \union {NULL}] /\ prev \in [Timer -> Timer \union {NULL}]
  BY <1>0 DEF Linked, ListOf, TypeInv, TypeOK
<1>2. Closed(p, C)
  BY <1>1, ChainIsClosed
<1>3. next'[t] = p /\ \A x \in Timer \ {t} : next'[x] = next[x]
  BY <1>0, <1>1
<1>4. Closed(t, C \union {t})'
  BY <1>1, <1>2, <1>3 DEF Closed
<1>5. ASSUME NEW S \in SUBSET Timer, Closed(t, S)'
      PROVE  C \union {t} \subseteq S
  <2>1. Closed(p, S \intersect C)
    BY <1>0, <1>1, <1>2, <1>3, <1>5 DEF Closed
  <2>2. S \intersect C \in SUBSET Timer /\ t \in S
    BY <1>1, <1>5 DEF Closed
  <2>3. QED
    BY <1>1, <2>1, <2>2 DEF Chain
<1>6. Chain(t)' = C \union {t}
  BY <1>1, <1>4, <1>5 DEF Chain
<1>7. p # NULL => p \in C /\ prev[p] = NULL /\ p # t
  BY <1>0, <1>1, <1>2 DEF Closed, ListOf
<1>8. ASSUME NEW x \in C \union {t}
      PROVE  /\ prev'[x] = NULL <=> t = x
             /\ next'[x] # NULL => next'[x] \in C \union {t} /\ prev'[next'[x]] = x
             /\ prev'[x] # NULL => prev'[x] \in C \union {t} /\ next'[prev'[x]] = x
  <2>1. /\ prev[x] = NULL <=> p = x \/ x = t
        /\ x # t /\ next[x] # NULL => next[x] \in C /\ prev[next[x]] = x
        /\ x # t /\ prev[x] # NULL => prev[x] \in C /\ next[prev[x]] = x
    BY <1>0, <1>1, <1>7, <1>8 DEF ListOf
  <2>2. \A y \in Timer : prev'[y] = IF y = p THEN t ELSE prev[y]
    BY <1>0, <1>1
  <2>3. QED
    BY <1>0, <1>1, <1>3, <1>7, <1>8, <2>1, <2>2
<1>9. QED
  BY <1>0, <1>6, <1>8 DEF ListOf

(* A timer that is unlinked leaves the others linked, in their order.      *)
LEMMA OthersAreLinked ==
  ASSUME TypeInv, NEW w \in Wheel, ListOf(w), NEW t \in Linked(w),
         Linked(w)' = Linked(w) \ {t},
         Unlink(t, w)
  PROVE  ListOf(w)'
<1>0. PICK C, D, p, q : C = Linked(w) /\ D = C \ {t} /\ p = slots[w] /\ q = slots'[w]
  OBVIOUS
<1>1. /\ C \subseteq Timer /\ p \in Timer \union {NULL} /\ C = Chain(p) /\ NULL \notin Timer
      /\ next \in [Timer -> Timer \union {NULL}] /\ prev \in [Timer -> Timer \union {NULL}]
      /\ slots \in [Wheel -> Timer \union {NULL}]
  BY <1>0 DEF Linked, ListOf, TypeInv, TypeOK
<1>2. Closed(p, C)
  BY <1>1, ChainIsClosed
<1>3. \A x \in C : /\ prev[x] = NULL <=> p = x
                   /\ next[x] # NULL => next[x] \in C /\ prev[next[x]] = x
                   /\ prev[x] # NULL => prev[x] \in C /\ next[prev[x]] = x
  BY <1>0 DEF ListOf
<1>4. /\ \A x \in Timer : next'[x] = IF x = t THEN NULL
                                     ELSE IF x = prev[t] THEN next[t] ELSE next[x]
      /\ \A x \in Timer : prev'[x] = IF x = t THEN NULL
                                     ELSE IF x = next[t] THEN prev[t] ELSE prev[x]
      /\ q = IF p = t THEN next[t] ELSE p
  BY <1>0, <1>1 DEF Unlink, HeadsWithout
<1>5. t \in Timer /\ t # NULL /\ next[t] # t /\ prev[t] # t
  <2>1. t \in Timer /\ t # NULL
    BY <1>0, <1>1
  <2>2. ASSUME prev[t] = t
        PROVE  FALSE
    <3>1. Closed(p, D)
      BY <1>0, <1>1, <1>2, <1>3, <2>1, <2>2 DEF Closed
    <3>2. QED
      BY <1>0, <1>1, <3>1 DEF Chain
  <2>3. QED
    BY <1>0, <1>3, <2>1, <2>2
<1>6. Closed(q, D)'
  BY <1>0, <1>1, <1>2, <1>3, <1>4, <1>5 DEF Closed
<1>7. ASSUME NEW S \in SUBSET Timer, Closed(q, S)'
      PROVE  D \subseteq S
  <2>1. CASE p = t \/ prev[t] \in S \intersect D
    <3>1. Closed(p, (S \intersect D) \union {t})
      BY <1>0, <1>1, <1>2, <1>3, <1>4, <1>5, <1>6, <1>7, <2>1 DEF Closed
    <3>2. QED
      BY <1>0, <1>1, <3>1 DEF Chain
  <2>2. CASE p # t /\ prev[t] \notin S \intersect D
    <3>1. Closed(p, S \intersect D)
      BY <1>0, <1>1, <1>2, <1>3, <1>4, <1>5, <1>6, <1>7, <2>2 DEF Closed
    <3>2. QED
      BY <1>0, <1>1, <3>1 DEF Chain
  <2>3. QED
    BY <2>1, <2>2
<1>8. Chain(q)' = D
  BY <1>0, <1>1, <1>6, <1>7 DEF Chain
<1>9. ASSUME NEW x \in D
      PROVE  /\ prev'[x] = NULL <=> q = x
             /\ next'[x] # NULL => next'[x] \in D /\ prev'[next'[x]] = x
             /\ prev'[x] # NULL => prev'[x] \in D /\ next'[prev'[x]] = x
  BY <1>0, <1>1, <1>3, <1>4, <1>5, <1>9
<1>10. QED
  BY <1>0, <1>8, <1>9 DEF ListOf

(* A step that leaves the links alone, and the wheels of linked timers.    *)
LEMMA NoListChanges ==
  ASSUME TypeInv, ListInv, UNCHANGED <<prev, next, slots>>,
         \A t \in Timer, w \in Wheel : t \in Linked(w)' <=> t \in Linked(w)
  PROVE  \A w \in Wheel : ListOf(w)'
<1> SUFFICES ASSUME NEW w \in Wheel PROVE ListOf(w)'
  OBVIOUS
<1>1. Linked(w) \subseteq Timer /\ Linked(w)' \subseteq Timer
  BY DEF Linked
<1>2. Linked(w)' = Linked(w)
  BY <1>1
<1>3. QED
  BY <1>2, SameList DEF ListInv

(* The timers a step is not about are linked as before.                    *)
LEMMA OthersStayLinked ==
  ASSUME LinkedAre, LinkedAre', NEW t \in Timer, NEW th \in Thread,
         \A x \in Timer \ {t} : /\ wheel'[x] = wheel[x]
                                /\ life'[x] = "unborn" <=> life[x] = "unborn",
         \A y \in Thread \ {th} : timer'[y] = timer[y] /\ pc'[y] = pc[y],
         timer[th] \in {t, NULL}, timer'[th] \in {t, NULL}, NULL \notin Timer
  PROVE  \A x \in Timer \ {t}, w \in Wheel : x \in Linked(w)' <=> x \in Linked(w)
<1>1. \A x \in Timer \ {t} : x \in BeingAdded' <=> x \in BeingAdded
  BY DEF BeingAdded
<1>2. QED
  BY <1>1 DEF LinkedAre

(* Every step keeps the lists whole.                                       *)
LEMMA ListStep ==
  ASSUME ThreadInv, ThreadInv', LinkedAre, LinkedAre', ListInv, [Next]_vars
  PROVE  \A w \in Wheel : ListOf(w)'
<1>0. /\ TypeInv /\ WorksOnTimers /\ AddersAreAlone /\ ReadWheelLasts /\ NULL \notin Timer
      /\ ReadWheelLasts' /\ TypeInv'
      /\ \A w \in Wheel : w # NumOfWheels /\ Linked(w) \subseteq Timer /\ Linked(w)' \subseteq Timer
  BY DEF ThreadInv, TypeInv, Wheel, Linked
<1>1. ASSUME NEW th \in Thread, NEW t \in Timer, addTimer(th, t) \/ findTimer(th, t)
      PROVE  \A w \in Wheel : ListOf(w)'
  <2>1. /\ timer[th] = NULL /\ timer' = [timer EXCEPT ![th] = t]
        /\ \E p \in {"add", "remove"} : pc' = [pc EXCEPT ![th] = p]
        /\ pc[th] = "idle" /\ UNCHANGED <<prev, next, slots>>
    BY <1>0, <1>1 DEF addTimer, findTimer, GoTo, At, WorksOnTimers
  <2>2. BeingAdded' = BeingAdded
    BY <1>0, <2>1 DEF BeingAdded, TypeInv, TypeOK
  <2>3. \A x \in Timer \ {t} : wheel'[x] = wheel[x] /\ (life'[x] = "unborn" <=> life[x] = "unborn")
    BY <1>0, <1>1 DEF addTimer, findTimer, TypeInv, TypeOK
  <2>4. \/ life[t] = "unborn" /\ wheel'[t] = NumOfWheels
        \/ life[t] # "unborn" /\ UNCHANGED <<life, wheel>>
    BY <1>0, <1>1 DEF addTimer, findTimer, TypeInv, TypeOK, WorksOnTimers, NoWheel
  <2>5. \A x \in Timer, w \in Wheel : x \in Linked(w)' <=> x \in Linked(w)
    BY <1>0, <2>2, <2>3, <2>4 DEF LinkedAre
  <2>6. QED
    BY <1>0, <2>1, <2>5, NoListChanges
<1>2. ASSUME NEW th \in Thread, Continue(th) \/ Rearm(th)
      PROVE  \A w \in Wheel : ListOf(w)'
  <2>0. PICK t \in Timer : t = timer[th] /\ life[t] # "unborn"
    <3>1. pc[th] # "idle"
      BY <1>2 DEF Continue, addToWheel, removeFromWheel, removeTimer, Rearm, Release, AddChooseLast,
                  AddChoose, AddLink, RemoveCheck, RemoveRead, RemoveLock, RemoveUnlink, At
    <3>2. QED
      BY <1>0, <3>1, TimerOf DEF WorksOnTimers
  <2>1. /\ \A y \in Thread \ {th} : timer'[y] = timer[y] /\ pc'[y] = pc[y]
        /\ timer'[th] \in {t, NULL}
    BY <1>0, <1>2, <2>0 DEF TypeInv, TypeOK, Continue, addToWheel, removeFromWheel, removeTimer,
         Rearm, Release, AddChooseLast, AddChoose, AddLink, RemoveCheck, RemoveRead, RemoveLock,
         RemoveUnlink, GoTo
  <2>2. \A x \in Timer : /\ x # t => wheel'[x] = wheel[x]
                         /\ life'[x] = "unborn" <=> life[x] = "unborn"
    BY <1>0, <1>2, <2>0 DEF TypeInv, TypeOK, Continue, addToWheel, removeFromWheel, removeTimer,
         Rearm, Release, AddChooseLast, AddChoose, AddLink, RemoveCheck, RemoveRead, RemoveLock,
         RemoveUnlink, timerDecRef
  <2>3. \A x \in Timer \ {t}, w \in Wheel : x \in Linked(w)' <=> x \in Linked(w)
    BY <1>0, <2>0, <2>1, <2>2, OthersStayLinked
  <2>4. CASE AddChooseLast(th) \/ AddChoose(th)
    <3>1. UNCHANGED <<next, slots>> /\ (AddChooseLast(th) => UNCHANGED prev)
      BY <2>4 DEF AddChooseLast, AddChoose, At
    <3>2. pc[th] \in {"add", "choose"} /\ pc'[th] \in {"choose", "link"} /\ timer'[th] = t
      BY <1>0, <2>0, <2>4 DEF AddChooseLast, AddChoose, GoTo, At, TypeInv, TypeOK
    <3>3. \A w \in Wheel : t \notin Linked(w) /\ t \notin Linked(w)'
      BY <1>0, <2>0, <3>2 DEF LinkedAre, BeingAdded, ReadWheelLasts, At
    <3>4. \A x \in Timer \ {t} : prev'[x] = prev[x]
      BY <1>0, <2>0, <2>4 DEF AddChooseLast, AddChoose, TypeInv, TypeOK
    <3>5. ASSUME NEW w \in Wheel
          PROVE  ListOf(w)'
      <4>1. Linked(w)' = Linked(w)
        BY <1>0, <2>3, <3>3
      <4>2. QED
        BY <1>0, <3>1, <3>3, <3>4, <4>1, SameList DEF ListInv
    <3>6. QED
      BY <3>5
  <2>5. CASE AddLink(th)
    <3>1. PICK w \in Wheel : w = seen[th] /\ wheel[t] = w /\ pc[th] = "link" /\ prev[t] = NULL
      BY <1>0, <2>0, <2>5 DEF ListInv, ReadWheelLasts, AddLink, At
    <3>2. /\ slots' = [slots EXCEPT ![w] = t] /\ next' = [next EXCEPT ![t] = slots[w]]
          /\ prev' = IF slots[w] = NULL THEN prev ELSE [prev EXCEPT ![slots[w]] = t]
          /\ UNCHANGED <<wheel, life>> /\ pc'[th] \in {"release", "idle"}
      BY <1>0, <2>0, <2>5, <3>1 DEF AddLink, GoTo, TypeInv, TypeOK
    <3>3. t \in BeingAdded /\ t \notin BeingAdded'
      <4>1. \A y \in Thread \ {th} : pc'[y] \in {"choose", "link"} => timer'[y] # t
        BY <1>0, <2>0, <2>1, <3>1 DEF AddersAreAlone, Adding
      <4>2. QED
        BY <2>0, <3>1, <3>2, <4>1 DEF BeingAdded
    <3>4. \A v \in Wheel : /\ t \notin Linked(v) /\ (t \in Linked(v)' <=> v = w)
                           /\ v # w => Linked(v)' = Linked(v)
      BY <1>0, <2>0, <2>2, <2>3, <3>1, <3>2, <3>3 DEF LinkedAre
    <3>5. slots[w] = NULL \/ slots[w] \in Linked(w)
      <4>1. slots[w] \in Timer \union {NULL} /\ Chain(slots[w]) = Linked(w)
        BY <1>0, <3>1 DEF TypeInv, TypeOK, ListInv, ListOf
      <4>2. QED
        BY <1>0, <4>1, ChainIsClosed DEF Closed
    <3>6. ListOf(w)'
      <4>1. Linked(w)' = Linked(w) \union {t}
        BY <1>0, <2>3, <3>4
      <4>2. slots'[w] = t
        BY <1>0, <3>2 DEF TypeInv, TypeOK
      <4>3. QED
        BY <1>0, <3>1, <3>2, <3>4, <4>1, <4>2, HeadIsLinked DEF ListInv
    <3>7. ASSUME NEW v \in Wheel, v # w
          PROVE  ListOf(v)'
      <4>1. slots'[v] = slots[v]
        BY <1>0, <3>2, <3>7 DEF TypeInv, TypeOK
      <4>2. \A x \in Linked(v) : x \in Timer /\ x # t /\ x # slots[w]
        BY <1>0, <3>4, <3>5, <3>7 DEF Linked
      <4>3. \A x \in Linked(v) : next'[x] = next[x] /\ prev'[x] = prev[x]
        BY <1>0, <3>2, <4>2 DEF TypeInv, TypeOK
      <4>4. QED
        BY <1>0, <3>4, <3>7, <4>1, <4>3, SameList DEF ListInv
    <3>8. QED
      BY <3>6, <3>7
  <2>6. CASE RemoveUnlink(th) /\ StillLinked(t)
    <3>1. PICK w \in Wheel : w = seen[th] /\ wheel[t] = w /\ pc[th] = "unlink"
      BY <1>0, <2>0, <2>6 DEF ReadWheelLasts, RemoveUnlink, StillLinked, At, TypeInv, TypeOK
    <3>2. Unlink(t, w) /\ wheel'[t] = NumOfWheels
      BY <1>0, <2>0, <2>6, <3>1 DEF RemoveUnlink, NoWheel, TypeInv, TypeOK
    <3>3. t \notin BeingAdded
      BY <1>0, <2>0, <3>1 DEF AddersAreAlone, Adding, BeingAdded
    <3>4. \A v \in Wheel : /\ t \notin Linked(v)' /\ (t \in Linked(v) <=> v = w)
                           /\ v # w => Linked(v)' = Linked(v)
      <4>1. \A v \in Wheel : t \notin Linked(v)' /\ (t \in Linked(v) <=> v = w)
        BY <1>0, <2>0, <3>1, <3>2, <3>3 DEF LinkedAre
      <4>2. QED
        BY <1>0, <2>3, <4>1
    <3>5. Linked(w)' = Linked(w) \ {t}
      BY <1>0, <2>3, <3>4
    <3>6. ListOf(w)'
      BY <1>0, <3>2, <3>4, <3>5, OthersAreLinked DEF ListInv
    <3>7. ASSUME NEW v \in Wheel, v # w
          PROVE  ListOf(v)'
      <4>1. slots'[v] = slots[v]
        BY <1>0, <3>2, <3>7 DEF TypeInv, TypeOK, Unlink, HeadsWithout
      <4>2. \A x \in {prev[t], next[t]} : x # NULL => x \in Linked(w)
        BY <3>4 DEF ListInv, ListOf
      <4>3. \A x \in Linked(v) : x \in Timer /\ x \notin {t, prev[t], next[t]}
        BY <1>0, <3>4, <3>7, <4>2 DEF Linked
      <4>4. \A x \in Linked(v) : next'[x] = next[x] /\ prev'[x] = prev[x]
        BY <3>2, <4>3 DEF Unlink
      <4>5. QED
        BY <1>0, <3>4, <3>7, <4>1, <4>4, SameList DEF ListInv
    <3>8. QED
      BY <3>6, <3>7
  <2>7. CASE \/ RemoveUnlink(th) /\ ~StillLinked(t)
             \/ RemoveCheck(th) \/ RemoveRead(th) \/ RemoveLock(th) \/ removeTimer(th)
             \/ Rearm(th) \/ Release(th)
    <3>1. /\ UNCHANGED <<prev, next, slots, wheel>>
          /\ pc[th] \notin {"choose", "link"} /\ pc'[th] \notin {"choose", "link"}
      BY <1>0, <2>0, <2>7 DEF RemoveUnlink, RemoveCheck, RemoveRead, RemoveLock, removeTimer, Rearm,
           Release, GoTo, At, TypeInv, TypeOK
    <3>2. BeingAdded' = BeingAdded
      BY <2>1, <3>1 DEF BeingAdded
    <3>3. \A x \in Timer, w \in Wheel : x \in Linked(w)' <=> x \in Linked(w)
      BY <2>2, <3>1, <3>2 DEF LinkedAre
    <3>4. QED
      BY <1>0, <3>1, <3>3, NoListChanges
  <2>8. QED
    BY <1>2, <2>0, <2>4, <2>5, <2>6, <2>7 DEF Continue, addToWheel, removeFromWheel
<1>3. CASE UNCHANGED vars
  BY <1>0, <1>3, NoListChanges DEF vars, Linked, BeingAdded
<1>4. QED
  BY <1>1, <1>2, <1>3 DEF Next, Begin

(* A timer that is about to be linked is in no list: no step gives it a    *)
(* predecessor.                                                            *)
LEMMA HeadsStayFirst ==
  ASSUME ThreadInv, ThreadInv', LinkedAre, ListInv, [Next]_vars, NEW y \in Thread, At(y, "link")'
  PROVE  prev'[timer'[y]] = NULL
<1>0. /\ TypeInv /\ WorksOnTimers /\ AddersAreAlone /\ ReadWheelLasts /\ NULL \notin Timer
      /\ ListInv
  BY DEF ThreadInv, TypeInv
<1>1. CASE AddChoose(y)
  <2>1. timer[y] \in Timer
    BY <1>0, <1>1, TimerOf DEF AddChoose, At
  <2>2. QED
    BY <1>0, <1>1, <2>1 DEF AddChoose, TypeInv, TypeOK
<1>2. CASE At(y, "link") /\ timer'[y] = timer[y]
  <2>1. PICK t \in Timer : t = timer[y] /\ t \in BeingAdded /\ prev[t] = NULL
    BY <1>0, <1>2, TimerOf DEF At, BeingAdded, ListInv
  <2>2. \A w \in Wheel : t \notin Linked(w)
    BY <2>1 DEF Linked
  <2>3. ASSUME NEW th \in Thread, AddLink(th), prev'[t] # NULL
        PROVE  FALSE
    <3>1. seen[th] \in Wheel /\ slots[seen[th]] = t
      BY <1>0, <2>1, <2>3 DEF AddLink, ReadWheelLasts, TypeInv, TypeOK
    <3>2. PICK w \in Wheel : w = seen[th] /\ slots[w] = t
      BY <3>1
    <3>3. t \in Linked(w)
      BY <1>0, <2>1, <3>2, ChainIsClosed DEF Closed, ListInv, ListOf
    <3>4. QED
      BY <2>2, <3>3
  <2>4. ASSUME NEW th \in Thread, RemoveUnlink(th), prev'[t] # NULL
        PROVE  FALSE
    <3>1. PICK x \in Timer, w \in Wheel : /\ x = timer[th] /\ w = seen[th] /\ wheel[x] = w
                                          /\ pc[th] = "unlink" /\ Unlink(x, w)
      <4>1. timer[th] \in Timer /\ pc[th] = "unlink" /\ StillLinked(timer[th])
        BY <1>0, <2>1, <2>4, TimerOf DEF RemoveUnlink, At
      <4>2. seen[th] \in Wheel /\ wheel[timer[th]] = seen[th]
        BY <1>0, <4>1 DEF ReadWheelLasts, StillLinked, At, TypeInv, TypeOK
      <4>3. QED
        BY <2>4, <4>1, <4>2 DEF RemoveUnlink
    <3>2. x \in Linked(w)
      <4>1. x \notin BeingAdded
        BY <1>0, <3>1 DEF AddersAreAlone, Adding, BeingAdded
      <4>2. QED
        BY <1>0, <3>1, <4>1 DEF LinkedAre, WorksOnTimers
    <3>3. t = next[x] /\ t # NULL
      BY <1>0, <2>1, <2>4, <3>1 DEF Unlink
    <3>4. t \in Linked(w)
      BY <3>2, <3>3 DEF ListInv, ListOf
    <3>5. QED
      BY <2>2, <3>4
  <2>5. ASSUME NEW th \in Thread, AddChoose(th), prev'[t] # NULL
        PROVE  FALSE
    BY <1>0, <2>1, <2>5 DEF AddChoose, TypeInv, TypeOK
  <2>6. prev'[t] = prev[t] \/ \E th \in Thread : AddLink(th) \/ RemoveUnlink(th) \/ AddChoose(th)
    BY DEF Next, vars, Begin, addTimer, findTimer, Continue, addToWheel, removeFromWheel,
           removeTimer, Rearm, Release, AddChooseLast, RemoveCheck, RemoveRead, RemoveLock
  <2>7. QED
    BY <1>2, <2>1, <2>3, <2>4, <2>5, <2>6
<1>3. AddChoose(y) \/ (At(y, "link") /\ timer'[y] = timer[y])
  <2>1. ASSUME NEW th \in Thread, NEW t \in Timer, addTimer(th, t) \/ findTimer(th, t)
        PROVE  At(y, "link") /\ timer'[y] = timer[y]
    BY <1>0, <2>1 DEF addTimer, findTimer, GoTo, At, TypeInv, TypeOK
  <2>2. ASSUME NEW th \in Thread, Continue(th) \/ Rearm(th)
        PROVE  AddChoose(y) \/ (At(y, "link") /\ timer'[y] = timer[y])
    BY <1>0, <2>2 DEF Continue, addToWheel, removeFromWheel, removeTimer, Rearm, Release,
         AddChooseLast, AddChoose, AddLink, RemoveCheck, RemoveRead, RemoveLock, RemoveUnlink, GoTo,
         At, TypeInv, TypeOK
  <2>3. CASE UNCHANGED vars
    BY <2>3 DEF vars, At
  <2>4. QED
    BY <2>1, <2>2, <2>3 DEF Next, Begin
<1>4. QED
  BY <1>1, <1>2, <1>3

(* Whichever timers threads add, stop and add again at once, each wheel's  *)
(* list has the timers of that wheel, is linked both ways, and goes        *)
(* through all of them from its head (timer.c:198-204, 221-238).           *)
THEOREM ListsStayWhole == ASSUME Orderly, CountFits PROVE Spec => []ListsAreWhole
<1>1. Init => ListInv
  BY WheelTimersAssumption
     DEF Init, ListInv, ListOf, Linked, Chain, Closed, BeingAdded, At
<1>2. ThreadInv /\ RefInv /\ ThreadInv' /\ RefInv' /\ ListInv /\ [Next]_vars => ListInv'
  <2> SUFFICES ASSUME ThreadInv, RefInv, ThreadInv', RefInv', ListInv, [Next]_vars PROVE ListInv'
    OBVIOUS
  <2>1. LinkedAre /\ LinkedAre'
    BY LinkedAreAdded, LinkedAreAddedNext DEF ThreadInv
  <2>2. QED
    BY <2>1, ListStep, HeadsStayFirst DEF ListInv
<1>3. ListInv => ListsAreWhole
  BY DEF ListInv, ListOf, ListsAreWhole
<1>4. ThreadInv /\ RefInv /\ [Next]_vars => RefInv'
  BY RefStep
<1>5. Spec => []ThreadInv
  BY ThreadInvariant
<1>6. QED
  BY <1>1, <1>2, <1>3, <1>4, <1>5, RefInit, PTL DEF Spec
=============================================================================
