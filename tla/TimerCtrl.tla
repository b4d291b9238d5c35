------------------------------- MODULE TimerCtrl -------------------------------
(***************************************************************************)
(* One timer controller of ttimer/tdengine_old.c (tmr_ctrl_t): a hashed    *)
(* timing wheel of numOfPeriods slots. A timer that is due p periods from  *)
(* now waits in the slot the wheel reaches p periods from now, and its     *)
(* `cycle' counts the whole turns of the wheel it has to wait before.      *)
(*                                                                         *)
(* Callers arm timers with tmrReset, which holds tmr_ctrl_t.mutex for all  *)
(* it does to shared state and is one action. The timer thread holds the   *)
(* mutex through tmrProcessList but runs callbacks in the middle of it, so *)
(* that function is one action to begin, one for each timer that expires   *)
(* and one to end. The objects (tmr_obj_t) are the blocks of the pool; a   *)
(* doubly linked list of them is modelled as a sequence.                   *)
(***************************************************************************)
EXTENDS MemPool, SequencesExt

CONSTANTS Handle,         \* the variables whose addresses callers pass as pTmrId
          NULL,           \* a pointer to nothing; a handle with no request
          NumOfPeriods,   \* slots of the wheel
          Period,         \* the values of mseconds / resolution callers ask for
          ShortHalf,      \* a short is -ShortHalf .. ShortHalf-1 (32768)
          UIntMod,        \* an unsigned int is 0 .. UIntMod-1 (2^32)
          Horizon,        \* bound: the model stops after so many periods
          ClearsHandle    \* whether a callback sets its caller's handle to NULL

ASSUME TimerCtrlAssumption ==
  /\ NULL \notin Int
  /\ NumOfPeriods \in Nat \ {0}
  /\ Period \subseteq Nat
  /\ ShortHalf \in Nat \ {0}
  /\ UIntMod \in Nat \ {0}
  /\ Horizon \in Nat
  /\ ClearsHandle \in BOOLEAN

Slot == 0 .. NumOfPeriods - 1

(* The conversion of an int to tmr_obj_t.cycle, which is a short.          *)
ToShort(x) == ((x + ShortHalf) % (2 * ShortHalf)) - ShortHalf

(* Two periods between which periodsFromStart does not go back to 0, or    *)
(* does it in whole turns of the wheel, so that no slot is skipped.        *)
SameRound(d, e) == UIntMod % NumOfPeriods = 0 \/ d \div UIntMod = e \div UIntMod

(* When the widths of the C types suffice for every timer: no delay        *)
(* overflows cycle, and periodsFromStart either goes round in whole turns  *)
(* of the wheel or does not wrap before the last timer is due.             *)
WheelFits ==
  /\ \A p \in Period : p \div NumOfPeriods < ShortHalf
  /\ \/ UIntMod % NumOfPeriods = 0
     \/ /\ Horizon < UIntMod
        /\ \A p \in Period : Horizon + p < UIntMod

VARIABLES tmrList,          \* each slot's timers, in list order
          numOfTmrs,        \* the controller's count of armed timers
          periodsFromStart, \* the wheel's position, an unsigned int
          timerId,          \* tmr_obj_t.timerId: the object's own address, or NULL
          cycle,            \* tmr_obj_t.cycle
          index,            \* tmr_obj_t.index
          param1,           \* tmr_obj_t.param1: whose callback is to run
          handle,           \* what each caller's *pTmrId holds
          mutex             \* "free", or "timer" when the timer thread has it

(* History: what was asked for, on a clock that never wraps.               *)
VARIABLES elapsed,          \* periods processed since the start
          due,              \* the period each object was last armed for
          request,          \* the period each handle's callback is owed in
          fits              \* the objects whose last arming the C widths could hold

objVars == <<timerId, cycle, index, param1>>
vars == <<freeList, first, numOfFree, tmrList, numOfTmrs, periodsFromStart,
          timerId, cycle, index, param1, handle, mutex, elapsed, due, request, fits>>

Init == /\ memPoolInit
        /\ tmrList = [i \in Slot |-> <<>>]
        /\ numOfTmrs = 0
        /\ periodsFromStart = 0
        /\ timerId = [b \in Block |-> NULL]
        /\ cycle = [b \in Block |-> 0]
        /\ index = [b \in Block |-> 0]
        /\ param1 = [b \in Block |-> NULL]
        /\ handle = [h \in Handle |-> NULL]
        /\ mutex = "free"
        /\ elapsed = 0
        /\ due = [b \in Block |-> 0]
        /\ request = [h \in Handle |-> NULL]
        /\ fits = {}
-----------------------------------------------------------------------------
(* The list without the timer b, which is in it.                           *)
Position(s, b) == CHOOSE k \in 1 .. Len(s) : s[k] = b
Without(s, b) == RemoveAt(s, Position(s, b))

(* Mutant: tmrReset puts every timer at the head of its list.              *)
StopsAtHead(s, c, k) == k = 1

(* The place k in the list s where the search of tmrReset stops: behind    *)
(* every timer with fewer turns to wait, before the first with as many.    *)
StopsAt(s, c, k) == /\ \A j \in 1 .. k - 1 : cycle[s[j]] < c
                    /\ k <= Len(s) => cycle[s[k]] >= c

(* Mutant: a slot too far.                                                 *)
SlotTooFar(p) == ((p + periodsFromStart + 1) % UIntMod) % NumOfPeriods

(* The slot that the wheel reaches p periods from now, in unsigned int.    *)
SlotAfter(p) == ((p + periodsFromStart) % UIntMod) % NumOfPeriods

(* Whether a delay's turns are a short, and periodsFromStart reaches the   *)
(* end of the delay without a jump over a slot.                            *)
WidthsHold(p) == p \div NumOfPeriods < ShortHalf /\ SameRound(elapsed, elapsed + p)

(* The second half of tmrReset: the object b, in none of the lists, is     *)
(* filled in for a callback p periods from now and linked into its slot.   *)
LinkTimer(b, h, p, lists) ==
  LET c == ToShort(p \div NumOfPeriods)
      i == SlotAfter(p)
  IN  /\ cycle' = [cycle EXCEPT ![b] = c]
      /\ param1' = [param1 EXCEPT ![b] = h]
      /\ timerId' = [timerId EXCEPT ![b] = b]
      /\ index' = [index EXCEPT ![b] = i]
      /\ \E k \in 1 .. Len(lists[i]) + 1 :
            /\ StopsAt(lists[i], c, k)
            /\ tmrList' = [lists EXCEPT ![i] = InsertAt(@, k, b)]
      /\ due' = [due EXCEPT ![b] = elapsed + p]
      /\ request' = [request EXCEPT ![h] = elapsed + p]
      /\ fits' = IF WidthsHold(p) THEN fits \union {b} ELSE fits \ {b}

(* tmrReset's test that the handle's timer is still armed. It reads the    *)
(* block the handle points to, whatever that block is used for by now.     *)
IsArmed(h) == handle[h] # NULL /\ timerId[handle[h]] = handle[h]

(* Mutant: it stays in its list.                                           *)
ListsWith(b) == tmrList

(* The lists without the armed timer b.                                    *)
ListsWithout(b) == [tmrList EXCEPT ![index[b]] = Without(@, b)]

(* tmrReset of a timer that is armed: it is unlinked and linked again.     *)
ResetArmed(h, p) ==
  LET b == handle[h]
  IN  /\ mutex = "free"
      /\ IsArmed(h)
      /\ LinkTimer(b, h, p, ListsWithout(b))
      /\ UNCHANGED <<freeList, first, numOfFree, numOfTmrs, periodsFromStart,
                     handle, mutex, elapsed>>

(* Mutant: the caller is not told its new timer.                           *)
SameHandles(h, b) == handle

(* The caller is told its new timer.                                       *)
HandlesAfter(h, b) == [handle EXCEPT ![h] = b]

(* tmrReset of a handle without an armed timer: it gets a new object.      *)
ResetNew(h, p) ==
  /\ mutex = "free"
  /\ ~ IsArmed(h)
  /\ \E b \in Block : /\ memPoolMalloc(b)
                      /\ handle' = HandlesAfter(h, b)
                      /\ LinkTimer(b, h, p, tmrList)
  /\ numOfTmrs' = numOfTmrs + 1
  /\ UNCHANGED <<periodsFromStart, mutex, elapsed>>

(* Mutant: the early return forgets to unlock the controller.              *)
RefusedKeepsMutex(h) ==
  /\ mutex = "free"
  /\ ~ IsArmed(h)
  /\ memPoolOutOfMemory
  /\ handle' = [handle EXCEPT ![h] = NULL]
  /\ mutex' = "caller"
  /\ UNCHANGED <<tmrList, numOfTmrs, periodsFromStart, timerId, cycle, index,
                 param1, elapsed, due, request, fits>>

(* tmrReset when the pool is empty: the handle becomes NULL.               *)
ResetRefused(h) ==
  /\ mutex = "free"
  /\ ~ IsArmed(h)
  /\ memPoolOutOfMemory
  /\ handle' = [handle EXCEPT ![h] = NULL]
  /\ UNCHANGED <<tmrList, numOfTmrs, periodsFromStart, timerId, cycle, index,
                 param1, mutex, elapsed, due, request, fits>>

tmrReset(h, p) == ResetArmed(h, p) \/ ResetNew(h, p) \/ ResetRefused(h)
-----------------------------------------------------------------------------
(* The slot tmrProcessList works on.                                       *)
CurrentSlot == periodsFromStart % NumOfPeriods
CurrentList == tmrList[CurrentSlot]

(* Mutant: a turn too early.                                               *)
ExpiresATurnEarly(b) == cycle[b] <= 1

(* tmrProcessList takes a timer for one with no turns left.                *)
HasExpired(b) == cycle[b] <= 0

(* tmrProcessList locks the controller.                                    *)
ProcessBegin ==
  /\ mutex = "free"
  /\ elapsed < Horizon
  /\ mutex' = "timer"
  /\ UNCHANGED <<freeList, first, numOfFree, tmrList, numOfTmrs, periodsFromStart,
                 timerId, cycle, index, param1, handle, elapsed, due, request,
                 fits>>

(* tmrProcessList finds a timer with no turns left at the head of the      *)
(* slot: it unlinks it, runs its callback and frees the object, which      *)
(* clears it. The callback of the repository only prints; a caller's may   *)
(* clear the handle.                                                       *)
ProcessExpired ==
  LET b == Head(CurrentList)
      h == param1[b]
  IN  /\ mutex = "timer"
      /\ CurrentList # <<>>
      /\ HasExpired(b)
      /\ numOfTmrs' = numOfTmrs - 1
      /\ tmrList' = [tmrList EXCEPT ![CurrentSlot] = Tail(@)]
      /\ request' = [request EXCEPT ![h] = NULL]
      /\ handle' = IF ClearsHandle THEN [handle EXCEPT ![h] = NULL] ELSE handle
      /\ memPoolFree(AddressOf(b))
      /\ timerId' = [timerId EXCEPT ![b] = NULL]
      /\ cycle' = [cycle EXCEPT ![b] = 0]
      /\ index' = [index EXCEPT ![b] = 0]
      /\ param1' = [param1 EXCEPT ![b] = NULL]
      /\ due' = [due EXCEPT ![b] = 0]
      /\ fits' = fits \ {b}
      /\ UNCHANGED <<periodsFromStart, mutex, elapsed>>

(* Mutant: only the head of the slot waits a turn less.                    *)
IsHead(b) == b \in ToSet(CurrentList) /\ b = Head(CurrentList)

(* The timers that wait a turn less.                                       *)
InSlot(b) == b \in ToSet(CurrentList)

(* tmrProcessList finds the slot empty, or a timer with turns left at its  *)
(* head: every timer of the slot waits a turn less, the wheel moves on and *)
(* the controller is unlocked.                                             *)
ProcessEnd ==
  /\ mutex = "timer"
  /\ CurrentList # <<>> => ~ HasExpired(Head(CurrentList))
  /\ cycle' = [b \in Block |-> IF InSlot(b) THEN ToShort(cycle[b] - 1) ELSE cycle[b]]
  /\ periodsFromStart' = (periodsFromStart + 1) % UIntMod
  /\ mutex' = "free"
  /\ elapsed' = elapsed + 1
  /\ UNCHANGED <<freeList, first, numOfFree, tmrList, numOfTmrs, timerId, index,
                 param1, handle, due, request, fits>>

tmrProcessList == ProcessBegin \/ ProcessExpired \/ ProcessEnd

Next == \/ \E h \in Handle, p \in Period : tmrReset(h, p)
        \/ tmrProcessList

Spec == Init /\ [][Next]_vars

(* The timer thread is driven by a periodic signal and the mutex is free   *)
(* between any two calls of tmrReset, so that it keeps processing.         *)
FairSpec == Spec /\ WF_vars(tmrProcessList)
-----------------------------------------------------------------------------
Armed == { b \in Block : timerId[b] # NULL }

(* Types of tmr_ctrl_t's and tmr_obj_t's fields and of the history.        *)
TypeOK == /\ PoolTypeOK
          /\ tmrList \in [Slot -> Seq(Block)]
          /\ numOfTmrs \in 0 .. NumOfBlock
          /\ periodsFromStart \in 0 .. UIntMod - 1
          /\ timerId \in [Block -> Block \union {NULL}]
          /\ cycle \in [Block -> -ShortHalf .. ShortHalf - 1]
          /\ index \in [Block -> Slot]
          /\ param1 \in [Block -> Handle \union {NULL}]
          /\ handle \in [Handle -> Block \union {NULL}]
          /\ mutex \in {"free", "timer"}
          /\ elapsed \in 0 .. Horizon
          /\ due \in [Block -> Nat]
          /\ request \in [Handle -> Nat \union {NULL}]
          /\ fits \subseteq Block

(* An armed timer, and no other, is in a list, in the one its index names  *)
(* and there once; its timerId is its own address. tmrReset relies on it   *)
(* to unlink a timer it has only the address of (tdengine_old.c:237-247).  *)
ListsMatchObjects ==
  /\ \A b \in Armed : timerId[b] = b
  /\ \A i \in Slot : /\ IsInjective(tmrList[i])
                      /\ ToSet(tmrList[i]) = { b \in Armed : index[b] = i }

(* Every list is sorted by the turns its timers have left, however armings *)
(* mix with turns of the wheel. tmrProcessList looks at the head alone to  *)
(* decide that no timer of the slot is due (tdengine_old.c:85-94).         *)
SortedByCycle ==
  \A i \in Slot : \A j, k \in DOMAIN tmrList[i] :
     j < k => cycle[tmrList[i][j]] <= cycle[tmrList[i][k]]

(* The pool and the wheel agree on which objects are in use, and the       *)
(* controller's count with both: no object leaks when a timer is re-armed, *)
(* expires or is refused, and none is freed while it is in a list          *)
(* (tdengine_old.c:96-108, 249-264, 300-301).                              *)
PoolAccounting == /\ FreeBlocks = Block \ Armed
                  /\ numOfTmrs + numOfFree = NumOfBlock

(* What cycle and index mean for a timer whose delay the C widths hold,    *)
(* among timers whose delays they do not: it is not overdue, it waits in   *)
(* the slot the wheel will be on in the period it is due, and its cycle is *)
(* the number of times the wheel passes that slot before                   *)
(* (tdengine_old.c:85-91, 266-274).                                        *)
CycleMeasuresRemaining ==
  \A b \in Armed \intersect fits :
     /\ due[b] >= elapsed
     /\ index[b] = (due[b] % UIntMod) % NumOfPeriods
     /\ cycle[b] = (due[b] - elapsed) \div NumOfPeriods

(* With callbacks that clear their caller's handle, a handle and the armed *)
(* timer it points to belong together: the handle's callback is the one    *)
(* that will run, and when it was asked for; no armed timer is without its *)
(* handle (tdengine_old.c:235-237, 255-256, 267-269).                      *)
HandlesOwnTimers ==
  /\ \A h \in Handle :
        IF request[h] = NULL
          THEN handle[h] = NULL
          ELSE /\ handle[h] \in Armed
               /\ param1[handle[h]] = h
               /\ due[handle[h]] = request[h]
  /\ \A b \in Armed : param1[b] \in Handle /\ handle[param1[b]] = b

(* A timer that stops being armed does so in the very period it was armed  *)
(* for last, neither before nor after (tdengine_old.c:80-111).             *)
FiresOnTime ==
  [][ \A b \in Block : timerId[b] # NULL /\ timerId'[b] = NULL => due[b] = elapsed ]_vars

(* When the turns of every delay are a short, and periodsFromStart wraps   *)
(* at most once from the start of a delay to a turn after its end.         *)
OneWrapADelay ==
  \A p \in Period : p \div NumOfPeriods < ShortHalf /\ p + NumOfPeriods <= UIntMod

(* A timer whose delay the C widths hold stops being armed in the period   *)
(* it was armed for, whatever other timers share its list. Where slots do  *)
(* not divide the range of periodsFromStart, the wheel goes from a slot in *)
(* its middle to slot 0 when the counter wraps; a timer that is armed for  *)
(* a period after that is off by no more than one turn of the wheel, early *)
(* or late (tdengine_old.c:80-111, 266-287).                               *)
FiresByTheWheel ==
  [][ \A b \in Block : timerId[b] # NULL /\ timerId'[b] = NULL =>
        /\ b \in fits => due[b] = elapsed
        /\ OneWrapADelay => /\ due[b] - NumOfPeriods <= elapsed
                           /\ elapsed <= due[b] + NumOfPeriods ]_vars

(* What callers are promised: TimerService, in which there are no slots,   *)
(* cycles or objects. It needs handles that do not outlive their timer     *)
(* (ClearsHandle): see NoMissedDeadline.                                   *)
TS == INSTANCE TimerService WITH None <- NULL

Service == TS!Spec

(* A callback that was asked for in a period has run when the period is    *)
(* over. A handle that outlives its timer breaks it, through the test      *)
(* tdengine_old.c:237: the block it points to is another handle's timer by *)
(* now, and that timer is taken over.                                      *)
NoMissedDeadline ==
  \A h \in Handle : request[h] # NULL => request[h] >= elapsed

(* A callback asked for in a period the model reaches is run, or the       *)
(* request is replaced: the timer thread, once it holds the mutex, always  *)
(* gives it back and goes on to the next period (tdengine_old.c:77-112).   *)
RequestServed ==
  \A h \in Handle : \A d \in 0 .. Horizon - 1 :
     request[h] = d ~> request[h] # d
=============================================================================
