------------------------------ MODULE WheelTimers ------------------------------
(***************************************************************************)
(* The timers of ttimer/timer.c: reference counted objects that are in a   *)
(* map, by id, and in one of several wheels. Every bucket of the map has a *)
(* lock and every wheel a mutex, but which wheel a timer is in is read and *)
(* written outside of them.                                                *)
(*                                                                         *)
(* A function that does everything to shared state under one lock is one   *)
(* action: addTimer, findTimer and removeTimer are. addToWheel and         *)
(* removeFromWheel are sequences of steps. The file has no caller of these *)
(* functions yet; here a thread starts a timer (addTimer, addToWheel), and *)
(* other threads, from then on, look it up and stop it (findTimer,         *)
(* removeFromWheel, and removeTimer if the timer was removed), each giving *)
(* its reference back in the end.                                          *)
(*                                                                         *)
(* A wheel has one slot, as the others are no different. An id is the      *)
(* timer itself; no memory is used twice.                                  *)
(***************************************************************************)
EXTENDS Integers, FiniteSets

CONSTANTS Thread, Timer,
          NULL,             \* a pointer to nothing
          NumOfWheels,      \* tListLen(wheels); timer->wheel of a timer in none
          RefMod,           \* refCount is 0 .. RefMod-1 (256)
          RereadsWheel,     \* the build loads timer->wheel again at timer.c:214
          Rearmed,          \* the timers that may be added again when removed
          TakeTurns         \* callers stop such a timer one after the other

ASSUME WheelTimersAssumption ==
  /\ NULL \notin Thread \union Timer
  /\ NumOfWheels \in Nat \ {0}
  /\ RefMod \in Nat \ {0}
  /\ RereadsWheel \in BOOLEAN /\ TakeTurns \in BOOLEAN
  /\ Rearmed \subseteq Timer

Wheel == 0 .. NumOfWheels - 1

VARIABLES life,             \* per timer: "unborn", "live" or "freed"
          refCount,         \* tmr_obj_t.refCount
          wheel,            \* tmr_obj_t.wheel
          prev, next,       \* the links of a wheel's slot
          slots,            \* per wheel: the head of its slot
          inMap,            \* the timers of timerMap
          known,            \* the timers whose id other threads know
          mutex,            \* per wheel: the thread that holds it
          pc,               \* per thread: what it is about to do,
          timer,            \*   the timer it does it to,
          seen              \*   and the wheel it takes the timer to be in

VARIABLE removals           \* history: per timer, threads told they removed it

objVars == <<life, refCount, wheel, prev, next>>
vars == <<life, refCount, wheel, prev, next, slots, inMap, known, mutex, pc,
          timer, seen, removals>>

Init == /\ life = [t \in Timer |-> "unborn"]
        /\ refCount = [t \in Timer |-> 0]
        /\ wheel = [t \in Timer |-> 0]
        /\ prev = [t \in Timer |-> NULL]
        /\ next = [t \in Timer |-> NULL]
        /\ slots = [w \in Wheel |-> NULL]
        /\ inMap = {}
        /\ known = {}
        /\ mutex = [w \in Wheel |-> NULL]
        /\ pc = [th \in Thread |-> "idle"]
        /\ timer = [th \in Thread |-> NULL]
        /\ seen = [th \in Thread |-> 0]
        /\ removals = [t \in Timer |-> 0]

At(th, p) == pc[th] = p
GoTo(th, p) == pc' = [pc EXCEPT ![th] = p]

(* timerAddRef.                                                            *)
timerAddRef(t) == refCount' = [refCount EXCEPT ![t] = (@ + 1) % RefMod]

(* Mutants: the count is compared before it is decremented, or as if it    *)
(* were.                                                                   *)
BelowLastReference(n) == n = RefMod - 1
BeforeLastReference(n) == n <= 1

(* No reference is left.                                                   *)
NoReferences(n) == n = 0

(* timerDecRef: the last reference frees the timer.                        *)
timerDecRef(t) ==
  /\ refCount' = [refCount EXCEPT ![t] = (@ - 1) % RefMod]
  /\ life' = IF NoReferences(refCount'[t]) THEN [life EXCEPT ![t] = "freed"] ELSE life

(* Mutant: a mark that is one too high.                                    *)
PastNoWheel == NumOfWheels + 1

(* timer->wheel of a timer that is in no wheel.                            *)
NoWheel == NumOfWheels
-----------------------------------------------------------------------------
(* addTimer of a new timer.                                                *)
addTimer(th, t) ==
  /\ At(th, "idle")
  /\ life[t] = "unborn"
  /\ life' = [life EXCEPT ![t] = "live"]
  /\ timerAddRef(t)
  /\ wheel' = [wheel EXCEPT ![t] = NoWheel]
  /\ inMap' = inMap \union {t}
  /\ timer' = [timer EXCEPT ![th] = t]
  /\ GoTo(th, "add")
  /\ UNCHANGED <<prev, next, slots, known, mutex, seen, removals>>

(* addToWheel counts the wheel's reference and stores the last wheel as    *)
(* its first choice.                                                       *)
AddChooseLast(th) ==
  LET t == timer[th]
  IN  /\ At(th, "add")
      /\ timerAddRef(t)
      /\ wheel' = [wheel EXCEPT ![t] = NumOfWheels - 1]
      /\ GoTo(th, "choose")
      /\ UNCHANGED <<life, prev, next, slots, inMap, known, mutex, timer, seen, removals>>

(* addToWheel stores the wheel that suits the delay.                       *)
AddChoose(th) ==
  LET t == timer[th]
  IN  /\ At(th, "choose")
      /\ \E w \in Wheel : /\ wheel' = [wheel EXCEPT ![t] = w]
                          /\ seen' = [seen EXCEPT ![th] = w]
      /\ prev' = [prev EXCEPT ![t] = NULL]
      /\ GoTo(th, "link")
      /\ UNCHANGED <<life, refCount, next, slots, inMap, known, mutex, timer, removals>>

(* addToWheel, under the wheel's mutex: the timer becomes the slot's head. *)
AddLink(th) ==
  LET t == timer[th]
      w == seen[th]
      p == slots[w]
  IN  /\ At(th, "link")
      /\ mutex[w] = NULL
      /\ slots' = [slots EXCEPT ![w] = t]
      /\ next' = [next EXCEPT ![t] = p]
      /\ prev' = IF p = NULL THEN prev ELSE [prev EXCEPT ![p] = t]
      /\ removals' = [removals EXCEPT ![t] = 0]
      /\ known' = known \union {t}
      /\ GoTo(th, IF t \in known THEN "release" ELSE "idle")
      /\ timer' = IF t \in known THEN timer ELSE [timer EXCEPT ![th] = NULL]
      /\ UNCHANGED <<life, refCount, wheel, inMap, mutex, seen>>

addToWheel(th) == AddChooseLast(th) \/ AddChoose(th) \/ AddLink(th)
-----------------------------------------------------------------------------
(* Whether a caller may stop the timer t now. removeFromWheel does not     *)
(* bear that another thread adds it to another wheel meanwhile; TakeTurns  *)
(* is the rule by which callers would keep that from happening, and no     *)
(* guard of the code.                                                      *)
MayStop(t) == TakeTurns /\ t \in Rearmed => \A th \in Thread : timer[th] # t

(* findTimer finds the timer; when it finds none nothing changes.          *)
findTimer(th, t) ==
  /\ At(th, "idle")
  /\ t \in known \intersect inMap
  /\ MayStop(t)
  /\ timerAddRef(t)
  /\ timer' = [timer EXCEPT ![th] = t]
  /\ GoTo(th, "remove")
  /\ UNCHANGED <<life, wheel, prev, next, slots, inMap, known, mutex, seen, removals>>

(* removeFromWheel: the timer is in no wheel, or seems to be in one.       *)
RemoveCheck(th) ==
  /\ At(th, "remove")
  /\ GoTo(th, IF wheel[timer[th]] >= NumOfWheels THEN "release" ELSE "read")
  /\ seen' = [seen EXCEPT ![th] = wheel[timer[th]]]
  /\ UNCHANGED <<life, refCount, wheel, prev, next, slots, inMap, known, mutex, timer,
                 removals>>

(* The wheel removeFromWheel locks: timer->wheel as it was or as it is now. *)
WheelToLock(th) == IF RereadsWheel THEN wheel[timer[th]] ELSE seen[th]

(* removeFromWheel takes the address of the wheel.                         *)
RemoveRead(th) ==
  /\ At(th, "read")
  /\ seen' = [seen EXCEPT ![th] = WheelToLock(th)]
  /\ GoTo(th, "lock")
  /\ UNCHANGED <<life, refCount, wheel, prev, next, slots, inMap, known, mutex, timer,
                 removals>>

(* removeFromWheel locks the wheel, if there is one at that address.       *)
RemoveLock(th) ==
  /\ At(th, "lock")
  /\ seen[th] \in Wheel
  /\ mutex[seen[th]] = NULL
  /\ mutex' = [mutex EXCEPT ![seen[th]] = th]
  /\ GoTo(th, "unlink")
  /\ UNCHANGED <<life, refCount, wheel, prev, next, slots, inMap, known, timer, seen,
                 removals>>

(* Mutant: the head of the slot stays as it was.                           *)
SameHeads(t, w) == slots

(* The heads of the slots without t, if it is the head of w's.             *)
HeadsWithout(t, w) == IF slots[w] = t THEN [slots EXCEPT ![w] = next[t]] ELSE slots

(* The timer leaves the list it is linked in; the wheel whose mutex is     *)
(* held is the one whose head may change.                                  *)
Unlink(t, w) ==
  /\ next' = [x \in Timer |-> IF x = t THEN NULL
                              ELSE IF x = prev[t] THEN next[t] ELSE next[x]]
  /\ prev' = [x \in Timer |-> IF x = t THEN NULL
                              ELSE IF x = next[t] THEN prev[t] ELSE prev[x]]
  /\ slots' = HeadsWithout(t, w)

(* Mutant: the timer is not looked at again under the mutex.               *)
TakenToBeLinked(t) == TRUE

(* No other thread has removed the timer.                                  *)
StillLinked(t) == wheel[t] < NumOfWheels

(* removeFromWheel, under the mutex: the timer is unlinked, or another     *)
(* thread has done that already.                                           *)
RemoveUnlink(th) ==
  LET t == timer[th]
      w == seen[th]
  IN  /\ At(th, "unlink")
      /\ IF StillLinked(t)
           THEN /\ Unlink(t, w)
                /\ wheel' = [wheel EXCEPT ![t] = NoWheel]
                /\ timerDecRef(t)
                /\ removals' = [removals EXCEPT ![t] = @ + 1]
                /\ GoTo(th, "removed")
           ELSE /\ GoTo(th, "release")
                /\ UNCHANGED <<life, refCount, wheel, prev, next, slots, removals>>
      /\ mutex' = [mutex EXCEPT ![w] = NULL]
      /\ UNCHANGED <<inMap, known, timer, seen>>

removeFromWheel(th) ==
  RemoveCheck(th) \/ RemoveRead(th) \/ RemoveLock(th) \/ RemoveUnlink(th)

(* removeTimer: the timer leaves the map, if it is in it.                  *)
removeTimer(th) ==
  LET t == timer[th]
  IN  /\ At(th, "removed")
      /\ inMap' = inMap \ {t}
      /\ IF t \in inMap THEN timerDecRef(t) ELSE UNCHANGED <<refCount, life>>
      /\ GoTo(th, "release")
      /\ UNCHANGED <<wheel, prev, next, slots, known, mutex, timer, seen, removals>>

(* The caller adds the timer to a wheel again instead.                     *)
Rearm(th) ==
  /\ At(th, "removed")
  /\ timer[th] \in Rearmed
  /\ GoTo(th, "add")
  /\ UNCHANGED <<life, refCount, wheel, prev, next, slots, inMap, known, mutex, timer,
                 seen, removals>>

(* The caller gives back the reference findTimer counted for it.           *)
Release(th) ==
  /\ At(th, "release")
  /\ timerDecRef(timer[th])
  /\ timer' = [timer EXCEPT ![th] = NULL]
  /\ GoTo(th, "idle")
  /\ UNCHANGED <<wheel, prev, next, slots, inMap, known, mutex, seen, removals>>

Begin(th) == \E t \in Timer : addTimer(th, t) \/ findTimer(th, t)

Continue(th) == addToWheel(th) \/ removeFromWheel(th) \/ removeTimer(th) \/ Release(th)

Next == \E th \in Thread : Begin(th) \/ Continue(th) \/ Rearm(th)

Spec == Init /\ [][Next]_vars

(* A thread that has begun a call goes on with it, and one that waits for  *)
(* a mutex gets it when it is free again and again: a timer that is added  *)
(* again for ever keeps nobody from the other timers.                      *)
FairSpec == Spec /\ \A th \in Thread : /\ WF_vars(Continue(th))
                                       /\ SF_vars(AddLink(th) \/ RemoveLock(th))
-----------------------------------------------------------------------------
(* Types of the timers', the wheels' and the threads' variables.           *)
TypeOK == /\ life \in [Timer -> {"unborn", "live", "freed"}]
          /\ refCount \in [Timer -> 0 .. RefMod - 1]
          /\ wheel \in [Timer -> 0 .. NumOfWheels]
          /\ prev \in [Timer -> Timer \union {NULL}]
          /\ next \in [Timer -> Timer \union {NULL}]
          /\ slots \in [Wheel -> Timer \union {NULL}]
          /\ inMap \subseteq Timer
          /\ known \subseteq Timer
          /\ mutex \in [Wheel -> Thread \union {NULL}]
          /\ pc \in [Thread -> {"idle", "add", "choose", "link", "remove", "read", "lock",
                                "unlink", "removed", "release"}]
          /\ timer \in [Thread -> Timer \union {NULL}]
          /\ seen \in [Thread -> 0 .. NumOfWheels]
          /\ removals \in [Timer -> Nat]

(* A set has p and all that is linked behind its timers.                   *)
Closed(p, S) == /\ p # NULL => p \in S
                /\ \A t \in S : next[t] # NULL => next[t] \in S

(* The timers linked behind p, p included: they are in all such sets.      *)
Chain(p) == { t \in Timer : \A S \in SUBSET Timer : Closed(p, S) => t \in S }

(* The timers threads are about to link into a wheel.                      *)
BeingAdded == { timer[th] : th \in { x \in Thread : pc[x] \in {"choose", "link"} } }

(* The timers a wheel should link: those whose wheel it is.                *)
Linked(w) == { t \in Timer : life[t] = "live" /\ wheel[t] = w } \ BeingAdded

(* Threads that looked a timer up and have still to give it back.          *)
Holders(t) ==
  { th \in Thread : /\ timer[th] = t
                    /\ pc[th] \in {"add", "choose", "link"} => t \in known }

(* A wheel links the timers whose wheel it is and no others, in a list     *)
(* that can be walked both ways: a timer that another thread removes, or   *)
(* removed a moment ago, does no harm (timer.c:198-204, 221-238).          *)
ListsAreWhole ==
  \A w \in Wheel :
    /\ Chain(slots[w]) = Linked(w)
    /\ \A t \in Linked(w) : /\ next[t] # NULL => prev[next[t]] = t
                            /\ prev[t] = NULL <=> slots[w] = t

(* A timer's references are those of the map, of a wheel and of the        *)
(* threads that looked it up: when the last one goes nobody can reach it,  *)
(* and until then it is there (timer.c:86-94, 115, 136, 159, 174, 237).    *)
RefCountIsExact ==
  \A t \in Timer : life[t] # "unborn" =>
     /\ refCount[t] = (IF t \in inMap THEN 1 ELSE 0)
                      + (IF wheel[t] # NumOfWheels THEN 1 ELSE 0)
                      + Cardinality(Holders(t))
     /\ life[t] = "freed" <=> refCount[t] = 0

(* When several threads stop a timer at once, one of them is told that it  *)
(* removed it (timer.c:216-242).                                           *)
OneRemover == \A t \in Timer : removals[t] <= 1

(* The mutex removeFromWheel holds is that of the wheel the timer is in:   *)
(* timer->wheel, read without it, has not come to name another wheel       *)
(* (timer.c:214-221). The check under the mutex, whether the timer is in a *)
(* wheel at all, does not see to it.                                       *)
UnlinksUnderItsMutex ==
  \A th \in Thread :
     At(th, "unlink") /\ wheel[timer[th]] # NumOfWheels => wheel[timer[th]] = seen[th]

(* removeFromWheel takes the address of a wheel (timer.c:210-214).         *)
LocksAWheel == \A th \in Thread : At(th, "lock") => seen[th] \in Wheel

(* A timer that has left the map is freed in the end                       *)
(* (timer.c:90-94, 159, 237).                                              *)
RemovedIsFreed ==
  \A t \in Timer : life[t] = "live" /\ t \notin inMap ~> life[t] = "freed"
=============================================================================
