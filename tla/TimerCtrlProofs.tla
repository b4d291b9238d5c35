---------------------------- MODULE TimerCtrlProofs ----------------------------
(***************************************************************************)
(* The timer controller of ttimer/tdengine_old.c, for every number of      *)
(* slots, blocks, handles and delays, every integer width and every length *)
(* of run.                                                                 *)
(*                                                                         *)
(* Four invariants are built on each other. Structure is about lists,      *)
(* objects and pool and holds whatever the delays are. Timing says what    *)
(* cycle and index mean for the timers whose delays the C widths hold      *)
(* (fits), and Near how far off the others can be. Ownership says that a   *)
(* handle and the object it points to belong together; it needs widths     *)
(* that suffice for every delay (WheelFits) and callbacks that clear the   *)
(* handle (ClearsHandle).                                                  *)
(***************************************************************************)
EXTENDS TimerCtrl, MemPoolLemmas, DataLemmas

(* Small operators that every proof spells out.                           *)
USE DEF HandlesAfter, ListsWithout, HasExpired, InSlot

Structure == /\ TypeOK
             /\ FreeListDistinct
             /\ ListsMatchObjects
             /\ SortedByCycle
             /\ PoolAccounting

(* The sum of two small numbers is brought into a short's range, where it  *)
(* is already.                                                             *)
LEMMA ToShortValue ==
  ASSUME NEW x \in Int
  PROVE  /\ ToShort(x) \in -ShortHalf .. ShortHalf - 1
         /\ x \in -ShortHalf .. ShortHalf - 1 => ToShort(x) = x
<1>1. ShortHalf \in Nat \ {0}
  BY TimerCtrlAssumption
<1>2. (x + ShortHalf) % (2 * ShortHalf) \in 0 .. 2 * ShortHalf - 1
  BY <1>1, SMTT(30)
<1>3. x + ShortHalf \in 0 .. 2 * ShortHalf - 1
        => (x + ShortHalf) % (2 * ShortHalf) = x + ShortHalf
  BY <1>1, SMTT(30)
<1>4. QED
  BY <1>1, <1>2, <1>3 DEF ToShort

(* tmrReset's slot and tmrProcessList's are slots of the wheel.            *)
LEMMA SlotType ==
  ASSUME TypeOK
  PROVE  CurrentSlot \in Slot /\ \A p \in Period : SlotAfter(p) \in Slot
<1>1. /\ NumOfPeriods \in Nat \ {0} /\ UIntMod \in Nat \ {0}
      /\ periodsFromStart \in Nat /\ Period \subseteq Nat
  BY TimerCtrlAssumption DEF TypeOK
<1>2. \A x \in Nat : x % NumOfPeriods \in 0 .. NumOfPeriods - 1
  BY <1>1
<1>3. \A x \in Nat : x % UIntMod \in Nat
  BY <1>1
<1>4. \A p \in Period : p + periodsFromStart \in Nat
  BY <1>1
<1>5. QED
  BY <1>1, <1>2, <1>3, <1>4 DEF CurrentSlot, SlotAfter, Slot

(* Lists are in the order of the timers' cycles.                           *)
LEMMA SortedIsAscending ==
  SortedByCycle <=> \A i \in Slot : Ascending(cycle, tmrList[i])
BY DEF SortedByCycle, Ascending

(* An armed timer is a block that points to itself, in the list of its     *)
(* slot; the others are free blocks.                                       *)
LEMMA ArmedTimer ==
  ASSUME Structure, NEW b \in Block
  PROVE  /\ b \in Armed <=> timerId[b] = b
         /\ b \in Armed <=> b \notin FreeBlocks
         /\ \A i \in Slot : b \in ToSet(tmrList[i]) <=> b \in Armed /\ index[b] = i
<1>1. b # NULL
  BY TimerCtrlAssumption DEF Block
<1>2. QED
  BY <1>1 DEF Structure, ListsMatchObjects, PoolAccounting, Armed

(* Removing a timer that is in a list leaves the list without it.          *)
LEMMA WithoutTimer ==
  ASSUME NEW s \in Seq(Block), IsInjective(s), NEW b \in ToSet(s)
  PROVE  /\ Without(s, b) \in Seq(Block)
         /\ IsInjective(Without(s, b))
         /\ ToSet(Without(s, b)) = ToSet(s) \ {b}
         /\ \A key : Ascending(key, s) => Ascending(key, Without(s, b))
<1>1. \E k \in 1 .. Len(s) : s[k] = b
  BY ListElements
<1>2. Position(s, b) \in 1 .. Len(s) /\ s[Position(s, b)] = b
  BY <1>1 DEF Position
<1>3. QED
  BY <1>2, RemoveFromList, AscendingRemove DEF Without

(* What tmrReset's second half starts from: the lists hold the armed       *)
(* timers other than b, each where its index says, sorted.                 *)
AllWithout(b, lists) ==
  /\ lists \in [Slot -> Seq(Block)]
  /\ \A i \in Slot : /\ IsInjective(lists[i])
                     /\ ToSet(lists[i]) = { x \in Armed \ {b} : index[x] = i }
                     /\ Ascending(cycle, lists[i])

(* The second half of tmrReset puts the timer in its slot's list, where    *)
(* the order requires it, and leaves the rest as it was.                   *)
LEMMA LinkTimerStep ==
  ASSUME TypeOK, \A x \in Armed : timerId[x] = x,
         NEW b \in Block, NEW h \in Handle, NEW p \in Period, NEW lists,
         AllWithout(b, lists), LinkTimer(b, h, p, lists)
  PROVE  /\ tmrList' \in [Slot -> Seq(Block)]
         /\ timerId' \in [Block -> Block \union {NULL}]
         /\ cycle' \in [Block -> -ShortHalf .. ShortHalf - 1]
         /\ index' \in [Block -> Slot]
         /\ param1' \in [Block -> Handle \union {NULL}]
         /\ due' \in [Block -> Nat]
         /\ request' \in [Handle -> Nat \union {NULL}]
         /\ fits' \subseteq Block
         /\ Armed' = Armed \union {b}
         /\ ListsMatchObjects'
         /\ SortedByCycle'
<1> DEFINE c == ToShort(p \div NumOfPeriods)
           s == SlotAfter(p)
<1>1. /\ cycle' = [cycle EXCEPT ![b] = c]
      /\ param1' = [param1 EXCEPT ![b] = h]
      /\ timerId' = [timerId EXCEPT ![b] = b]
      /\ index' = [index EXCEPT ![b] = s]
      /\ due' = [due EXCEPT ![b] = elapsed + p]
      /\ request' = [request EXCEPT ![h] = elapsed + p]
      /\ fits' = IF WidthsHold(p) THEN fits \union {b} ELSE fits \ {b}
  BY DEF LinkTimer
<1>2. PICK k \in 1 .. Len(lists[s]) + 1 :
         /\ StopsAt(lists[s], c, k)
         /\ tmrList' = [lists EXCEPT ![s] = InsertAt(@, k, b)]
  BY DEF LinkTimer
<1>3. s \in Slot
  BY SlotType
<1>4. c \in -ShortHalf .. ShortHalf - 1
  <2>1. p \div NumOfPeriods \in Int
    BY TimerCtrlAssumption
  <2>2. QED
    BY <2>1, ToShortValue
<1> HIDE DEF c, s
<1>5. b # NULL
  BY TimerCtrlAssumption DEF Block
<1>6. /\ cycle' \in [Block -> -ShortHalf .. ShortHalf - 1]
      /\ index' \in [Block -> Slot]
      /\ timerId' \in [Block -> Block \union {NULL}]
      /\ param1' \in [Block -> Handle \union {NULL}]
  BY <1>1, <1>3, <1>4 DEF TypeOK
<1>7. /\ due' \in [Block -> Nat]
      /\ request' \in [Handle -> Nat \union {NULL}]
      /\ fits' \subseteq Block
  <2>1. elapsed + p \in Nat
    BY TimerCtrlAssumption DEF TypeOK
  <2>2. QED
    BY <1>1, <2>1 DEF TypeOK
<1>8. Armed' = Armed \union {b}
  BY <1>1, <1>5 DEF Armed, TypeOK
<1>9. \A x \in Block \ {b} : index'[x] = index[x] /\ cycle'[x] = cycle[x]
  BY <1>1 DEF TypeOK
<1>10. index'[b] = s /\ cycle'[b] = c
  BY <1>1 DEF TypeOK
<1> DEFINE new == InsertAt(lists[s], k, b)
<1>11. /\ lists[s] \in Seq(Block) /\ IsInjective(lists[s])
       /\ b \notin ToSet(lists[s])
       /\ ToSet(lists[s]) = { x \in Armed \ {b} : index[x] = s }
  BY <1>3 DEF AllWithout
<1>12. /\ new \in Seq(Block) /\ IsInjective(new)
       /\ ToSet(new) = ToSet(lists[s]) \union {b}
  BY <1>11, InsertIntoList
<1>13. /\ tmrList' \in [Slot -> Seq(Block)]
       /\ tmrList'[s] = new
       /\ \A i \in Slot \ {s} : tmrList'[i] = lists[i]
  <2>1. tmrList' = [lists EXCEPT ![s] = new]
    BY <1>2
  <2> HIDE DEF new
  <2>2. QED
    BY <2>1, <1>3, <1>12 DEF AllWithout
<1>14. Ascending(cycle', new)
  <2>1. \A x \in ToSet(lists[s]) : cycle'[x] = cycle[x]
    BY <1>9, <1>11 DEF Armed
  <2>2. Ascending(cycle, lists[s])
    BY <1>3 DEF AllWithout
  <2>3. Ascending(cycle', lists[s])
    BY <2>1, <2>2, <1>11, AscendingSameKeys
  <2>4. /\ Len(lists[s]) \in Nat
        /\ \A j \in 1 .. Len(lists[s]) : lists[s][j] \in ToSet(lists[s])
    BY <1>11, ListElements
  <2>5. \A j \in 1 .. k - 1 : cycle'[lists[s][j]] < cycle'[b]
    <3> TAKE j \in 1 .. k - 1
    <3>1. j \in 1 .. Len(lists[s])
      BY <2>4
    <3>2. cycle[lists[s][j]] < c
      BY <1>2 DEF StopsAt
    <3>3. QED
      BY <3>1, <3>2, <2>1, <2>4, <1>10
  <2>6. k <= Len(lists[s]) => cycle'[lists[s][k]] >= cycle'[b]
    <3> HAVE k <= Len(lists[s])
    <3>1. k \in 1 .. Len(lists[s])
      BY <2>4
    <3>2. cycle[lists[s][k]] >= c
      BY <1>2 DEF StopsAt
    <3>3. QED
      BY <3>1, <3>2, <2>1, <2>4, <1>10
  <2>7. cycle' \in [Block -> Int]
    BY <1>6, TimerCtrlAssumption
  <2>8. QED
    BY <2>3, <2>5, <2>6, <2>7, <1>11, AscendingInsert
<1> HIDE DEF new
<1>15. ASSUME NEW i \in Slot
       PROVE  Ascending(cycle', tmrList'[i])
  <2>1. CASE i = s
    BY <2>1, <1>13, <1>14
  <2>2. CASE i # s
    <3>1. /\ lists[i] \in Seq(Block) /\ Ascending(cycle, lists[i])
          /\ ToSet(lists[i]) = { x \in Armed \ {b} : index[x] = i }
      BY DEF AllWithout
    <3>2. \A x \in ToSet(lists[i]) : cycle'[x] = cycle[x]
      BY <3>1, <1>9 DEF Armed
    <3>3. Ascending(cycle', lists[i])
      BY <3>1, <3>2, AscendingSameKeys
    <3>4. QED
      BY <3>3, <2>2, <1>13
  <2>3. QED
    BY <2>1, <2>2
<1>16. SortedByCycle'
  BY <1>15 DEF SortedByCycle, Ascending
<1>17. ASSUME NEW i \in Slot
       PROVE  /\ IsInjective(tmrList'[i])
              /\ ToSet(tmrList'[i]) = { x \in Armed' : index'[x] = i }
  <2>1. CASE i = s
    <3>1. { x \in Armed' : index'[x] = s } = { x \in Armed \ {b} : index[x] = s } \union {b}
      BY <1>8, <1>9, <1>10 DEF Armed
    <3>2. QED
      BY <3>1, <2>1, <1>11, <1>12, <1>13
  <2>2. CASE i # s
    <3>1. { x \in Armed' : index'[x] = i } = { x \in Armed \ {b} : index[x] = i }
      BY <2>2, <1>8, <1>9, <1>10 DEF Armed
    <3>2. QED
      BY <3>1, <2>2, <1>13 DEF AllWithout
  <2>3. QED
    BY <2>1, <2>2
<1>18. \A x \in Armed' : timerId'[x] = x
  BY <1>1, <1>8 DEF TypeOK, Armed
<1>19. ListsMatchObjects'
  BY <1>17, <1>18 DEF ListsMatchObjects
<1>20. QED
  BY <1>6, <1>7, <1>8, <1>13, <1>16, <1>19
-----------------------------------------------------------------------------
(* Init establishes Structure.                                             *)
LEMMA StructureInit == Init => Structure
<1> SUFFICES ASSUME Init PROVE Structure
  OBVIOUS
<1>1. PoolInv /\ FreeBlocks = Block /\ numOfFree = NumOfBlock
  BY PoolInit DEF Init, memPoolInit
<1>2. /\ NumOfPeriods \in Nat \ {0} /\ UIntMod \in Nat \ {0}
      /\ ShortHalf \in Nat \ {0} /\ Horizon \in Nat
  BY TimerCtrlAssumption
<1>3. <<>> \in Seq(Block) /\ ToSet(<<>>) = {} /\ IsInjective(<<>>)
  BY EmptySeq, ListElements DEF IsInjective, ToSet
<1>4. \A i \in Slot : tmrList[i] = <<>>
  BY DEF Init
<1>5. TypeOK
  <2>1. 0 \in Slot /\ 0 \in 0 .. UIntMod - 1 /\ 0 \in -ShortHalf .. ShortHalf - 1
    BY <1>2 DEF Slot
  <2>2. 0 \in 0 .. NumOfBlock /\ 0 \in 0 .. Horizon
    BY <1>2, MemPoolAssumption
  <2>3. PoolTypeOK
    BY <1>1 DEF PoolInv
  <2>4. tmrList \in [Slot -> Seq(Block)]
    BY <1>3 DEF Init
  <2>5. QED
    BY <2>1, <2>2, <2>3, <2>4 DEF Init, TypeOK
<1>6. Armed = {}
  BY DEF Init, Armed
<1>7. ListsMatchObjects
  BY <1>3, <1>4, <1>6 DEF ListsMatchObjects
<1>8. SortedByCycle
  BY <1>4 DEF SortedByCycle
<1>9. PoolAccounting
  BY <1>1, <1>6, MemPoolAssumption DEF PoolAccounting, Init
<1>10. QED
  BY <1>1, <1>5, <1>7, <1>8, <1>9 DEF Structure, PoolInv

(* tmrReset of an armed timer: it is unlinked and linked again.            *)
LEMMA ResetArmedStep ==
  ASSUME Structure, NEW h \in Handle, NEW p \in Period, ResetArmed(h, p)
  PROVE  Structure'
<1> DEFINE b == handle[h]
           lists == [tmrList EXCEPT ![index[b]] = Without(@, b)]
<1>1. /\ LinkTimer(b, h, p, lists)
      /\ UNCHANGED <<freeList, first, numOfFree, numOfTmrs, periodsFromStart,
                     handle, mutex, elapsed>>
      /\ b # NULL /\ timerId[b] = b
  BY DEF ResetArmed, IsArmed
<1>2. TypeOK /\ ListsMatchObjects /\ SortedByCycle /\ PoolAccounting
  BY DEF Structure
<1>3. b \in Block /\ index[b] \in Slot
  BY <1>1, <1>2 DEF TypeOK
<1> HIDE DEF b
<1>4. b \in Armed /\ b \in ToSet(tmrList[index[b]])
  BY <1>1, <1>3, ArmedTimer
<1>5. /\ tmrList[index[b]] \in Seq(Block) /\ IsInjective(tmrList[index[b]])
      /\ ToSet(tmrList[index[b]]) = { x \in Armed : index[x] = index[b] }
      /\ Ascending(cycle, tmrList[index[b]])
  BY <1>2, <1>3, SortedIsAscending DEF TypeOK, ListsMatchObjects
<1> DEFINE w == Without(tmrList[index[b]], b)
<1>6. /\ w \in Seq(Block) /\ IsInjective(w) /\ Ascending(cycle, w)
      /\ ToSet(w) = ToSet(tmrList[index[b]]) \ {b}
  BY <1>4, <1>5, WithoutTimer
<1>7. lists = [tmrList EXCEPT ![index[b]] = w]
  OBVIOUS
<1> HIDE DEF w, lists
<1>8. AllWithout(b, lists)
  <2>1. lists \in [Slot -> Seq(Block)]
    BY <1>2, <1>6, <1>7 DEF TypeOK
  <2>2. ASSUME NEW i \in Slot
        PROVE  /\ IsInjective(lists[i])
               /\ ToSet(lists[i]) = { x \in Armed \ {b} : index[x] = i }
               /\ Ascending(cycle, lists[i])
    <3>1. CASE i = index[b]
      BY <3>1, <1>2, <1>3, <1>5, <1>6, <1>7 DEF TypeOK
    <3>2. CASE i # index[b]
      <4>1. lists[i] = tmrList[i]
        BY <3>2, <1>2, <1>7 DEF TypeOK
      <4>2. QED
        BY <4>1, <3>2, <1>2, SortedIsAscending DEF ListsMatchObjects
    <3>3. QED
      BY <3>1, <3>2
  <2>3. QED
    BY <2>1, <2>2 DEF AllWithout
<1>9. \A x \in Armed : timerId[x] = x
  BY <1>2 DEF ListsMatchObjects
<1>10. /\ tmrList' \in [Slot -> Seq(Block)]
       /\ timerId' \in [Block -> Block \union {NULL}]
       /\ cycle' \in [Block -> -ShortHalf .. ShortHalf - 1]
       /\ index' \in [Block -> Slot]
       /\ param1' \in [Block -> Handle \union {NULL}]
       /\ due' \in [Block -> Nat]
       /\ request' \in [Handle -> Nat \union {NULL}]
       /\ fits' \subseteq Block
       /\ Armed' = Armed \union {b}
       /\ ListsMatchObjects' /\ SortedByCycle'
  BY <1>1, <1>2, <1>3, <1>8, <1>9, LinkTimerStep
<1>11. PoolInv' /\ FreeBlocks' = FreeBlocks
  BY <1>1, PoolUnchanged DEF Structure, TypeOK, PoolInv, poolVars
<1>12. PoolAccounting'
  BY <1>1, <1>2, <1>4, <1>10, <1>11 DEF PoolAccounting
<1>13. TypeOK'
  BY <1>1, <1>2, <1>10, <1>11 DEF TypeOK, PoolInv
<1>14. QED
  BY <1>10, <1>11, <1>12, <1>13 DEF Structure, PoolInv

(* tmrReset of a handle without an armed timer: a free block is armed.     *)
LEMMA ResetNewStep ==
  ASSUME Structure, NEW h \in Handle, NEW p \in Period, ResetNew(h, p)
  PROVE  Structure'
<1>1. PICK b \in Block : /\ memPoolMalloc(b)
                         /\ handle' = [handle EXCEPT ![h] = b]
                         /\ LinkTimer(b, h, p, tmrList)
  BY DEF ResetNew
<1>2. numOfTmrs' = numOfTmrs + 1 /\ UNCHANGED <<periodsFromStart, mutex, elapsed>>
  BY DEF ResetNew
<1>3. TypeOK /\ ListsMatchObjects /\ SortedByCycle /\ PoolAccounting /\ PoolInv
  BY DEF Structure, TypeOK, PoolInv
<1>4. /\ PoolInv' /\ b \in FreeBlocks /\ FreeBlocks' = FreeBlocks \ {b}
      /\ numOfFree' = numOfFree - 1
  BY <1>1, <1>3, PoolMalloc
<1>5. b \notin Armed
  BY <1>4, ArmedTimer
<1>6. AllWithout(b, tmrList)
  BY <1>3, <1>5, SortedIsAscending DEF AllWithout, TypeOK, ListsMatchObjects
<1>7. \A x \in Armed : timerId[x] = x
  BY <1>3 DEF ListsMatchObjects
<1>8. /\ tmrList' \in [Slot -> Seq(Block)]
      /\ timerId' \in [Block -> Block \union {NULL}]
      /\ cycle' \in [Block -> -ShortHalf .. ShortHalf - 1]
      /\ index' \in [Block -> Slot]
      /\ param1' \in [Block -> Handle \union {NULL}]
      /\ due' \in [Block -> Nat]
      /\ request' \in [Handle -> Nat \union {NULL}]
      /\ fits' \subseteq Block
      /\ Armed' = Armed \union {b}
      /\ ListsMatchObjects' /\ SortedByCycle'
  BY <1>1, <1>3, <1>6, <1>7, LinkTimerStep
<1>9. /\ numOfTmrs \in 0 .. NumOfBlock /\ numOfFree \in 0 .. NumOfBlock
      /\ numOfFree' \in 0 .. NumOfBlock /\ numOfTmrs + numOfFree = NumOfBlock
      /\ FreeBlocks = Block \ Armed
  BY <1>3, <1>4 DEF TypeOK, PoolInv, PoolTypeOK, PoolAccounting
<1>10. PoolAccounting' /\ numOfTmrs' \in 0 .. NumOfBlock
  <2>1. FreeBlocks' = Block \ Armed'
    BY <1>4, <1>8, <1>9
  <2>2. numOfTmrs' + numOfFree' = NumOfBlock /\ numOfTmrs' \in 0 .. NumOfBlock
    BY <1>2, <1>4, <1>9, MemPoolAssumption
  <2>3. QED
    BY <2>1, <2>2 DEF PoolAccounting
<1>11. handle' \in [Handle -> Block \union {NULL}]
  BY <1>1, <1>3 DEF TypeOK
<1>12. TypeOK'
  BY <1>2, <1>3, <1>4, <1>8, <1>10, <1>11 DEF TypeOK, PoolInv
<1>13. QED
  BY <1>4, <1>8, <1>10, <1>12 DEF Structure, PoolInv

(* A step that leaves lists, objects and pool alone.                       *)
LEMMA StructureUnchanged ==
  ASSUME Structure, TypeOK',
         UNCHANGED <<freeList, first, numOfFree, tmrList, numOfTmrs, timerId,
                     cycle, index>>
  PROVE  Structure'
<1>1. PoolInv' /\ FreeBlocks' = FreeBlocks
  BY PoolUnchanged DEF Structure, TypeOK, PoolInv, poolVars
<1>2. Armed' = Armed
  BY DEF Armed
<1>3. QED
  BY <1>1, <1>2
  DEF Structure, PoolInv, ListsMatchObjects, SortedByCycle, PoolAccounting

(* tmrReset that finds the pool empty.                                     *)
LEMMA ResetRefusedStep ==
  ASSUME Structure, NEW h \in Handle, ResetRefused(h)
  PROVE  Structure'
<1>1. TypeOK'
  BY DEF Structure, TypeOK, PoolTypeOK, ResetRefused, memPoolOutOfMemory, poolVars
<1>2. QED
  BY <1>1, StructureUnchanged DEF ResetRefused, memPoolOutOfMemory, poolVars

(* tmrProcessList takes the controller's mutex.                            *)
LEMMA ProcessBeginStep ==
  ASSUME Structure, ProcessBegin
  PROVE  Structure'
<1>1. TypeOK'
  BY DEF Structure, TypeOK, PoolTypeOK, ProcessBegin
<1>2. QED
  BY <1>1, StructureUnchanged DEF ProcessBegin

(* The timer at the head of the slot that is being processed.              *)
LEMMA HeadOfSlot ==
  ASSUME Structure, CurrentList # <<>>
  PROVE  /\ Head(CurrentList) \in Armed
         /\ index[Head(CurrentList)] = CurrentSlot
         /\ \A x \in ToSet(CurrentList) : cycle[Head(CurrentList)] <= cycle[x]
         /\ \A x \in ToSet(CurrentList) : x \in Block
<1>1. CurrentSlot \in Slot
  BY SlotType DEF Structure
<1>2. CurrentList \in Seq(Block) /\ IsInjective(CurrentList)
      /\ ToSet(CurrentList) = { x \in Armed : index[x] = CurrentSlot }
  BY <1>1 DEF Structure, TypeOK, ListsMatchObjects, CurrentList
<1>3. Head(CurrentList) \in ToSet(CurrentList) /\ Head(CurrentList) = CurrentList[1]
      /\ 1 \in DOMAIN CurrentList
  BY <1>2, TakeHead
<1>4. ASSUME NEW x \in ToSet(CurrentList)
      PROVE  cycle[Head(CurrentList)] <= cycle[x]
  <2>1. PICK k \in DOMAIN CurrentList : x = CurrentList[k]
    BY DEF ToSet
  <2>2. CASE k = 1
    <3>1. cycle[x] \in Int
      BY <1>2, TimerCtrlAssumption DEF Structure, TypeOK, Armed
    <3>2. QED
      BY <3>1, <2>1, <2>2, <1>3
  <2>3. CASE k # 1
    <3>1. 1 < k
      BY <2>3, <1>2, ListElements
    <3>2. QED
      BY <3>1, <2>1, <1>1, <1>3 DEF Structure, SortedByCycle, CurrentList
  <2>4. QED
    BY <2>2, <2>3
<1>5. QED
  BY <1>2, <1>3, <1>4 DEF Armed

(* tmrProcessList expires a timer: it leaves its list, and the object goes *)
(* back to the pool.                                                       *)
LEMMA ProcessExpiredStep ==
  ASSUME Structure, ProcessExpired
  PROVE  /\ Structure'
         /\ Armed' = Armed \ {Head(CurrentList)}
<1> DEFINE b == Head(CurrentList)
           s == CurrentSlot
<1>1. /\ CurrentList # <<>>
      /\ numOfTmrs' = numOfTmrs - 1
      /\ tmrList' = [tmrList EXCEPT ![s] = Tail(CurrentList)]
      /\ memPoolFree(AddressOf(b))
      /\ timerId' = [timerId EXCEPT ![b] = NULL]
      /\ cycle' = [cycle EXCEPT ![b] = 0]
      /\ index' = [index EXCEPT ![b] = 0]
      /\ param1' = [param1 EXCEPT ![b] = NULL]
      /\ due' = [due EXCEPT ![b] = 0]
      /\ fits' = fits \ {b}
      /\ UNCHANGED <<periodsFromStart, mutex, elapsed>>
  <2>1. [tmrList EXCEPT ![CurrentSlot] = Tail(@)]
          = [tmrList EXCEPT ![CurrentSlot] = Tail(CurrentList)]
    BY DEF CurrentList
  <2>2. QED
    BY <2>1 DEF ProcessExpired
<1>2. /\ request' = [request EXCEPT ![param1[b]] = NULL]
      /\ handle' \in { handle, [handle EXCEPT ![param1[b]] = NULL] }
  BY DEF ProcessExpired
<1>3. TypeOK /\ ListsMatchObjects /\ SortedByCycle /\ PoolAccounting /\ PoolInv
  BY DEF Structure, TypeOK, PoolInv
<1>4. b \in Armed /\ index[b] = s /\ b \in Block
  BY <1>1, HeadOfSlot DEF Armed
<1>5. s \in Slot
  BY <1>3, SlotType
<1>6. /\ CurrentList \in Seq(Block) /\ IsInjective(CurrentList)
      /\ ToSet(CurrentList) = { x \in Armed : index[x] = s }
      /\ Ascending(cycle, CurrentList)
  BY <1>3, <1>5, SortedIsAscending DEF TypeOK, ListsMatchObjects, CurrentList
<1> DEFINE t == Tail(CurrentList)
<1>7. /\ t \in Seq(Block) /\ IsInjective(t) /\ ToSet(t) = ToSet(CurrentList) \ {b}
      /\ Ascending(cycle, t)
  BY <1>1, <1>6, TakeHead, AscendingTail
<1>8. b \in Block \ FreeBlocks
  BY <1>4, ArmedTimer
<1>9. PoolInv' /\ FreeBlocks' = FreeBlocks \union {b} /\ numOfFree' = numOfFree + 1
  BY <1>1, <1>3, <1>8, PoolFree
<1>10. tmrList' = [tmrList EXCEPT ![s] = t]
  BY <1>1
<1> HIDE DEF b, s, t
<1>11. /\ tmrList' \in [Slot -> Seq(Block)]
       /\ tmrList'[s] = t
       /\ \A i \in Slot \ {s} : tmrList'[i] = tmrList[i]
  BY <1>3, <1>5, <1>7, <1>10 DEF TypeOK
<1>12. Armed' = Armed \ {b}
  BY <1>1, <1>3, <1>4 DEF Armed, TypeOK
<1>13. \A x \in Block \ {b} : cycle'[x] = cycle[x] /\ index'[x] = index[x]
                            /\ timerId'[x] = timerId[x]
  BY <1>1, <1>3 DEF TypeOK
<1>14. ASSUME NEW i \in Slot
       PROVE  /\ IsInjective(tmrList'[i])
              /\ ToSet(tmrList'[i]) = { x \in Armed' : index'[x] = i }
              /\ Ascending(cycle', tmrList'[i])
  <2>1. /\ IsInjective(tmrList'[i]) /\ tmrList'[i] \in Seq(Block)
        /\ ToSet(tmrList'[i]) = { x \in Armed \ {b} : index[x] = i }
        /\ Ascending(cycle, tmrList'[i])
    <3>1. CASE i = s
      BY <3>1, <1>6, <1>7, <1>11
    <3>2. CASE i # s
      <4>1. { x \in Armed \ {b} : index[x] = i } = { x \in Armed : index[x] = i }
        BY <3>2, <1>4
      <4>2. tmrList'[i] = tmrList[i] /\ tmrList[i] \in Seq(Block)
        BY <3>2, <1>3, <1>11 DEF TypeOK
      <4>3. QED
        BY <4>1, <4>2, <1>3, SortedIsAscending DEF ListsMatchObjects
    <3>3. QED
      BY <3>1, <3>2
  <2>2. { x \in Armed \ {b} : index[x] = i } = { x \in Armed' : index'[x] = i }
    BY <1>12, <1>13 DEF Armed
  <2>3. \A x \in ToSet(tmrList'[i]) : cycle'[x] = cycle[x]
    BY <2>1, <1>13 DEF Armed
  <2>4. Ascending(cycle', tmrList'[i])
    BY <2>1, <2>3, AscendingSameKeys
  <2>5. QED
    BY <2>1, <2>2, <2>4
<1>15. ListsMatchObjects'
  <2>1. \A x \in Armed' : timerId'[x] = x
    BY <1>3, <1>12, <1>13 DEF ListsMatchObjects, Armed
  <2>2. QED
    BY <2>1, <1>14 DEF ListsMatchObjects
<1>16. SortedByCycle'
  BY <1>14 DEF SortedByCycle, Ascending
<1>17. PoolAccounting' /\ numOfTmrs' \in 0 .. NumOfBlock
  <2>1. FreeBlocks' = Block \ Armed'
    BY <1>3, <1>4, <1>9, <1>12 DEF PoolAccounting
  <2>2. /\ numOfFree \in 0 .. NumOfBlock /\ numOfFree' \in 0 .. NumOfBlock
        /\ numOfTmrs \in 0 .. NumOfBlock /\ numOfTmrs + numOfFree = NumOfBlock
    BY <1>3, <1>9 DEF TypeOK, PoolInv, PoolTypeOK, PoolAccounting
  <2>3. numOfTmrs' + numOfFree' = NumOfBlock /\ numOfTmrs' \in 0 .. NumOfBlock
    BY <2>2, <1>1, <1>9, MemPoolAssumption
  <2>4. QED
    BY <2>1, <2>3 DEF PoolAccounting
<1>18. TypeOK'
  <2>1. 0 \in Slot /\ 0 \in -ShortHalf .. ShortHalf - 1
    BY TimerCtrlAssumption DEF Slot
  <2>2. /\ cycle' \in [Block -> -ShortHalf .. ShortHalf - 1]
        /\ index' \in [Block -> Slot]
        /\ timerId' \in [Block -> Block \union {NULL}]
        /\ param1' \in [Block -> Handle \union {NULL}]
        /\ due' \in [Block -> Nat]
        /\ fits' \subseteq Block
    BY <2>1, <1>1, <1>3 DEF TypeOK
  <2>3. /\ request' \in [Handle -> Nat \union {NULL}]
        /\ handle' \in [Handle -> Block \union {NULL}]
    BY <1>2, <1>3 DEF TypeOK
  <2>4. QED
    BY <2>2, <2>3, <1>1, <1>3, <1>9, <1>11, <1>17 DEF TypeOK, PoolInv
<1>19. QED
  BY <1>9, <1>12, <1>15, <1>16, <1>17, <1>18 DEF Structure, PoolInv, b

(* What tmrProcessList does to the cycles when it ends: the timers of its  *)
(* slot, all of which have turns left, lose one.                           *)
LEMMA ProcessEndCycles ==
  ASSUME Structure, ProcessEnd
  PROVE  /\ cycle' \in [Block -> -ShortHalf .. ShortHalf - 1]
         /\ \A x \in ToSet(CurrentList) : cycle[x] > 0 /\ cycle'[x] = cycle[x] - 1
         /\ \A x \in Block \ ToSet(CurrentList) : cycle'[x] = cycle[x]
<1>1. CurrentList \in Seq(Block)
  BY SlotType DEF Structure, TypeOK, CurrentList
<1>2. cycle' = [x \in Block |-> IF x \in ToSet(CurrentList)
                                THEN ToShort(cycle[x] - 1) ELSE cycle[x]]
  BY <1>1, ListElements DEF ProcessEnd
<1>3. cycle \in [Block -> -ShortHalf .. ShortHalf - 1] /\ ShortHalf \in Nat \ {0}
  BY TimerCtrlAssumption DEF Structure, TypeOK
<1>4. ASSUME NEW x \in ToSet(CurrentList)
      PROVE  x \in Block /\ cycle[x] > 0 /\ ToShort(cycle[x] - 1) = cycle[x] - 1
  <2>1. CurrentList # <<>> /\ cycle[Head(CurrentList)] > 0
    <3>1. CurrentList # <<>>
      BY <1>1, ListElements
    <3>2. Head(CurrentList) \in Block /\ ~ HasExpired(Head(CurrentList))
      BY <1>1, <3>1, ListElements DEF ProcessEnd
    <3>3. QED
      BY <1>3, <3>1, <3>2
  <2>2. /\ Head(CurrentList) \in Block /\ x \in Block
        /\ cycle[Head(CurrentList)] <= cycle[x]
    BY <2>1, HeadOfSlot DEF Armed
  <2>3. cycle[x] > 0
    BY <2>1, <2>2, <1>3
  <2>4. cycle[x] - 1 \in -ShortHalf .. ShortHalf - 1
    BY <2>2, <2>3, <1>3
  <2>5. QED
    BY <2>2, <2>3, <2>4, ToShortValue
<1>5. \A x \in Block : cycle[x] - 1 \in Int
  BY <1>3
<1>6. cycle' \in [Block -> -ShortHalf .. ShortHalf - 1]
  BY <1>2, <1>3, <1>5, ToShortValue
<1>7. QED
  BY <1>2, <1>4, <1>6

(* tmrProcessList ends.                                                    *)
LEMMA ProcessEndStep ==
  ASSUME Structure, ProcessEnd, elapsed < Horizon
  PROVE  Structure'
<1>1. /\ periodsFromStart' = (periodsFromStart + 1) % UIntMod
      /\ mutex' = "free" /\ elapsed' = elapsed + 1
      /\ UNCHANGED <<freeList, first, numOfFree, tmrList, numOfTmrs, timerId,
                     index, param1, handle, due, request, fits>>
  BY DEF ProcessEnd
<1>2. /\ cycle' \in [Block -> -ShortHalf .. ShortHalf - 1]
      /\ \A x \in ToSet(CurrentList) : cycle'[x] = cycle[x] - 1
      /\ \A x \in Block \ ToSet(CurrentList) : cycle'[x] = cycle[x]
  BY ProcessEndCycles
<1>3. TypeOK /\ ListsMatchObjects /\ SortedByCycle
  BY DEF Structure
<1>4. PoolInv' /\ FreeBlocks' = FreeBlocks /\ Armed' = Armed
  BY <1>1, PoolUnchanged DEF Structure, TypeOK, PoolInv, poolVars, Armed
<1>5. periodsFromStart' \in 0 .. UIntMod - 1 /\ elapsed' \in 0 .. Horizon
  BY <1>1, <1>3, TimerCtrlAssumption DEF TypeOK
<1>6. TypeOK'
  BY <1>1, <1>2, <1>3, <1>4, <1>5 DEF TypeOK, PoolInv
<1>7. ListsMatchObjects' /\ PoolAccounting'
  BY <1>1, <1>4 DEF Structure, ListsMatchObjects, PoolAccounting
<1>8. ASSUME NEW i \in Slot, NEW j \in DOMAIN tmrList[i], NEW k \in DOMAIN tmrList[i],
             j < k
      PROVE  cycle'[tmrList[i][j]] <= cycle'[tmrList[i][k]]
  <2> DEFINE x == tmrList[i][j]
             y == tmrList[i][k]
  <2>1. x \in ToSet(tmrList[i]) /\ y \in ToSet(tmrList[i])
    BY DEF ToSet
  <2>2. ToSet(tmrList[i]) = { z \in Armed : index[z] = i }
    BY <1>3 DEF ListsMatchObjects
  <2>3. ToSet(CurrentList) = { z \in Armed : index[z] = CurrentSlot }
    BY <1>3, SlotType DEF ListsMatchObjects, CurrentList
  <2>4. x \in Block /\ y \in Block /\ (x \in ToSet(CurrentList) <=> y \in ToSet(CurrentList))
    BY <2>1, <2>2, <2>3 DEF Armed
  <2>5. cycle[x] <= cycle[y] /\ cycle[x] \in Int /\ cycle[y] \in Int
    BY <2>4, <1>3, <1>8, TimerCtrlAssumption DEF SortedByCycle, TypeOK
  <2> HIDE DEF x, y
  <2>6. cycle'[x] <= cycle'[y]
    BY <2>4, <2>5, <1>2
  <2>7. QED
    BY <2>6 DEF x, y
<1>9. SortedByCycle'
  BY <1>1, <1>8 DEF SortedByCycle
<1>10. QED
  BY <1>4, <1>6, <1>7, <1>9 DEF Structure, PoolInv
-----------------------------------------------------------------------------
(* The timer thread holds the mutex only for a period the model reaches.   *)
InHorizon == mutex = "timer" => elapsed < Horizon

StructureInv == Structure /\ InHorizon

(* Every step preserves StructureInv.                                      *)
LEMMA StructureStep == StructureInv /\ [Next]_vars => StructureInv'
<1> SUFFICES ASSUME StructureInv, [Next]_vars PROVE StructureInv'
  OBVIOUS
<1>1. ASSUME NEW h \in Handle, NEW p \in Period, tmrReset(h, p)
      PROVE  StructureInv'
  <2>1. UNCHANGED <<mutex, elapsed>>
    BY <1>1 DEF tmrReset, ResetArmed, ResetNew, ResetRefused
  <2>2. Structure'
    BY <1>1, ResetArmedStep, ResetNewStep, ResetRefusedStep DEF tmrReset, StructureInv
  <2>3. QED
    BY <2>1, <2>2 DEF StructureInv, InHorizon
<1>2. CASE ProcessBegin
  BY <1>2, ProcessBeginStep DEF StructureInv, InHorizon, ProcessBegin
<1>3. CASE ProcessExpired
  BY <1>3, ProcessExpiredStep DEF StructureInv, InHorizon, ProcessExpired
<1>4. CASE ProcessEnd
  BY <1>4, ProcessEndStep DEF StructureInv, InHorizon, ProcessEnd
<1>5. CASE UNCHANGED vars
  <2>1. TypeOK'
    BY <1>5 DEF StructureInv, Structure, TypeOK, PoolTypeOK, vars
  <2>2. QED
    BY <1>5, <2>1, StructureUnchanged DEF StructureInv, InHorizon, vars
<1>6. QED
  BY <1>1, <1>2, <1>3, <1>4, <1>5 DEF Next, tmrProcessList

(* Lists, objects and pool stay consistent, whatever is asked for.         *)
THEOREM StructureInvariant == Spec => []StructureInv
<1>1. Init => StructureInv
  BY StructureInit DEF StructureInv, InHorizon, Init
<1>2. QED
  BY <1>1, StructureStep, PTL DEF Spec

(* Every field keeps its type; in particular numOfTmrs and numOfFree never *)
(* leave 0 .. numOfBlock (tdengine_old.c:96, 250, 301, 372, 404).          *)
THEOREM TypeCorrect == Spec => []TypeOK
<1>1. StructureInv => TypeOK
  BY DEF StructureInv, Structure
<1>2. QED
  BY <1>1, StructureInvariant, PTL

(* A timer is in the list its index names, once, exactly while it is armed *)
(* (tdengine_old.c:100-103, 237-249, 269-298).                             *)
THEOREM ListsAreRight == Spec => []ListsMatchObjects
<1>1. StructureInv => ListsMatchObjects
  BY DEF StructureInv, Structure
<1>2. QED
  BY <1>1, StructureInvariant, PTL

(* Every list stays sorted, so that the head alone tells tmrProcessList    *)
(* whether a timer is due (tdengine_old.c:85-94, 278-287).                 *)
THEOREM ListsAreSorted == Spec => []SortedByCycle
<1>1. StructureInv => SortedByCycle
  BY DEF StructureInv, Structure
<1>2. QED
  BY <1>1, StructureInvariant, PTL

(* No object is lost or in two places: the pool has the blocks that are    *)
(* not armed (tdengine_old.c:96-108, 249-264, 300-301).                    *)
THEOREM PoolIsAccounted == Spec => []PoolAccounting
<1>1. StructureInv => PoolAccounting
  BY DEF StructureInv, Structure
<1>2. QED
  BY <1>1, StructureInvariant, PTL
-----------------------------------------------------------------------------
(* What the timing of the fitting timers rests on: where the wheel is,     *)
(* that no slot is skipped before they are due, and what their cycle and   *)
(* index mean; where the widths suffice for every delay, all timers fit.   *)
WheelInPlace == periodsFromStart = elapsed % UIntMod
NoSlotSkipped == \A b \in Armed \intersect fits : SameRound(elapsed, due[b])
AllFit == WheelFits => Armed \subseteq fits

Timing == WheelInPlace /\ NoSlotSkipped /\ CycleMeasuresRemaining /\ AllFit

(* The types that the arithmetic of the wheel needs.                       *)
LEMMA TimeTypes ==
  ASSUME TypeOK
  PROVE  /\ NumOfPeriods \in Nat \ {0} /\ UIntMod \in Nat \ {0}
         /\ ShortHalf \in Nat \ {0} /\ Horizon \in Nat
         /\ elapsed \in 0 .. Horizon /\ elapsed \in Nat
         /\ \A b \in Block : due[b] \in Nat /\ cycle[b] \in Int
         /\ \A p \in Period : p \in Nat
BY TimerCtrlAssumption DEF TypeOK

(* The slots are those of the elapsed periods, on a counter that wraps.    *)
LEMMA WheelPosition ==
  ASSUME TypeOK, WheelInPlace
  PROVE  /\ CurrentSlot = (elapsed % UIntMod) % NumOfPeriods
         /\ \A p \in Period :
               SlotAfter(p) = ((elapsed + p) % UIntMod) % NumOfPeriods
<1>1. periodsFromStart = elapsed % UIntMod
  BY DEF WheelInPlace
<1>2. \A p \in Period : (p + (elapsed % UIntMod)) % UIntMod = (elapsed + p) % UIntMod
  BY TimeTypes, CountsOn
<1>3. QED
  BY <1>1, <1>2 DEF CurrentSlot, SlotAfter

(* SameRound is about two periods of the wheel's counter.                  *)
LEMMA RoundOfPeriods ==
  ASSUME TypeOK, NEW e \in Nat
  PROVE  SameRound(elapsed, e) <=> InOneRound(NumOfPeriods, UIntMod, elapsed, e)
BY TimeTypes DEF SameRound, InOneRound

(* Every fitting timer of the slot that is processed has whole turns to    *)
(* wait, and the others have not.                                          *)
LEMMA CurrentTimers ==
  ASSUME Structure, Timing, NEW b \in Armed \intersect fits
  PROVE  /\ b \in ToSet(CurrentList) <=> (due[b] - elapsed) % NumOfPeriods = 0
         /\ due[b] - elapsed \in Nat
         /\ cycle[b] = (due[b] - elapsed) \div NumOfPeriods
<1>1. TypeOK /\ b \in Block
  BY DEF Structure, Armed
<1>2. /\ due[b] >= elapsed
      /\ index[b] = (due[b] % UIntMod) % NumOfPeriods
      /\ cycle[b] = (due[b] - elapsed) \div NumOfPeriods
  BY DEF Timing, CycleMeasuresRemaining
<1>3. PICK r \in Nat : r = due[b] - elapsed /\ due[b] = elapsed + r
  BY <1>1, <1>2, TimeTypes
<1>4. CurrentSlot = (elapsed % UIntMod) % NumOfPeriods
  BY <1>1, WheelPosition DEF Timing
<1>5. ((elapsed + r) % UIntMod) % NumOfPeriods = (elapsed % UIntMod) % NumOfPeriods
         <=> r % NumOfPeriods = 0
  <2>1. SameRound(elapsed, elapsed + r)
    BY <1>3 DEF Timing, NoSlotSkipped
  <2>2. elapsed + r \in Nat
    BY <1>1, <1>3, TimeTypes
  <2>3. InOneRound(NumOfPeriods, UIntMod, elapsed, elapsed + r)
    BY <1>1, <2>1, <2>2, RoundOfPeriods
  <2>4. QED
    BY <2>3, SlotsOfARound
<1>6. b \in ToSet(CurrentList) <=> index[b] = CurrentSlot
  BY <1>1, ArmedTimer, SlotType DEF CurrentList
<1>7. b \in ToSet(CurrentList) <=> r % NumOfPeriods = 0
  BY <1>2, <1>3, <1>4, <1>5, <1>6
<1>8. QED
  BY <1>2, <1>3, <1>7

(* Where the widths suffice for every delay, they hold any that is asked.  *)
LEMMA EveryDelayFits ==
  ASSUME WheelFits, TypeOK, NEW p \in Period
  PROVE  WidthsHold(p)
<1>1. p \div NumOfPeriods < ShortHalf
  BY DEF WheelFits
<1>2. CASE UIntMod % NumOfPeriods = 0
  BY <1>1, <1>2 DEF WidthsHold, SameRound
<1>3. CASE Horizon < UIntMod /\ Horizon + p < UIntMod
  <2>1. ASSUME NEW x \in Nat, x < UIntMod
        PROVE  x \div UIntMod = 0
    BY <2>1, TimeTypes, SMTT(30)
  <2>2. /\ elapsed \in Nat /\ elapsed < UIntMod
        /\ elapsed + p \in Nat /\ elapsed + p < UIntMod
    BY <1>3, TimeTypes
  <2>3. elapsed \div UIntMod = (elapsed + p) \div UIntMod
    BY <2>1, <2>2
  <2>4. QED
    BY <1>1, <2>3 DEF WidthsHold, SameRound
<1>4. QED
  BY <1>2, <1>3 DEF WheelFits

(* A timer that is armed is given the slot and the turns of its period; it *)
(* fits when the widths hold them.                                         *)
LEMMA TimingLink ==
  ASSUME Structure, Timing, NEW b \in Block, NEW h \in Handle,
         NEW p \in Period, NEW lists, LinkTimer(b, h, p, lists),
         Armed' = Armed \union {b}, UNCHANGED <<periodsFromStart, elapsed>>
  PROVE  Timing'
<1> DEFINE c == ToShort(p \div NumOfPeriods)
           s == SlotAfter(p)
<1>1. /\ cycle' = [cycle EXCEPT ![b] = c]
      /\ index' = [index EXCEPT ![b] = s]
      /\ due' = [due EXCEPT ![b] = elapsed + p]
      /\ fits' = IF WidthsHold(p) THEN fits \union {b} ELSE fits \ {b}
  BY DEF LinkTimer
<1>2. TypeOK
  BY DEF Structure
<1>3. s = ((elapsed + p) % UIntMod) % NumOfPeriods
  BY <1>2, WheelPosition DEF Timing
<1>4. WidthsHold(p) => c = p \div NumOfPeriods
  <2> SUFFICES ASSUME WidthsHold(p) PROVE c = p \div NumOfPeriods
    OBVIOUS
  <2>1. p \div NumOfPeriods \in Nat
    BY <1>2, TimeTypes, TurnsAndRemainder
  <2>2. p \div NumOfPeriods < ShortHalf
    BY DEF WidthsHold
  <2>3. p \div NumOfPeriods \in Int
        /\ p \div NumOfPeriods \in -ShortHalf .. ShortHalf - 1
    <3> DEFINE d == p \div NumOfPeriods
    <3>1. d \in Nat /\ d < ShortHalf /\ ShortHalf \in Nat
      BY <1>2, <2>1, <2>2, TimeTypes
    <3> HIDE DEF d
    <3>2. d \in Int /\ d \in -ShortHalf .. ShortHalf - 1
      BY <3>1
    <3>3. QED
      BY <3>2 DEF d
  <2>4. QED
    BY <2>3, ToShortValue
<1> HIDE DEF c, s
<1>5. ASSUME NEW x \in Armed' \intersect fits'
      PROVE  /\ due'[x] >= elapsed
             /\ index'[x] = (due'[x] % UIntMod) % NumOfPeriods
             /\ cycle'[x] = (due'[x] - elapsed) \div NumOfPeriods
             /\ SameRound(elapsed, due'[x])
  <2>1. CASE x = b
    <3>1. due'[x] = elapsed + p /\ index'[x] = s /\ cycle'[x] = c
      BY <2>1, <1>1, <1>2 DEF TypeOK
    <3>2. elapsed + p >= elapsed /\ (elapsed + p) - elapsed = p
      BY <1>2, TimeTypes
    <3>3. WidthsHold(p)
      BY <2>1, <1>1
    <3>4. SameRound(elapsed, elapsed + p)
      BY <3>3 DEF WidthsHold
    <3>5. QED
      BY <3>1, <3>2, <3>3, <3>4, <1>3, <1>4
  <2>2. CASE x # b
    <3>1. x \in Armed \intersect fits /\ x \in Block
      BY <2>2, <1>1 DEF Armed
    <3>2. due'[x] = due[x] /\ index'[x] = index[x] /\ cycle'[x] = cycle[x]
      BY <2>2, <3>1, <1>1, <1>2 DEF TypeOK
    <3>3. QED
      BY <3>1, <3>2 DEF Timing, NoSlotSkipped, CycleMeasuresRemaining
  <2>3. QED
    BY <2>1, <2>2
<1>6. ASSUME WheelFits
      PROVE  Armed' \subseteq fits'
  <2>1. fits' = fits \union {b}
    BY <1>1, <1>2, <1>6, EveryDelayFits
  <2>2. QED
    BY <2>1, <1>6 DEF Timing, AllFit
<1>7. WheelInPlace' /\ AllFit'
  BY <1>6 DEF Timing, WheelInPlace, AllFit, WheelFits
<1>8. CycleMeasuresRemaining' /\ NoSlotSkipped'
  BY <1>5 DEF CycleMeasuresRemaining, NoSlotSkipped, SameRound
<1>9. QED
  BY <1>7, <1>8 DEF Timing

(* A fitting timer that expires does so in the period it is due.           *)
LEMMA ExpiresWhenDue ==
  ASSUME Structure, Timing, ProcessExpired, Head(CurrentList) \in fits
  PROVE  due[Head(CurrentList)] = elapsed
<1> DEFINE b == Head(CurrentList)
<1>1. CurrentList # <<>> /\ cycle[b] <= 0
  BY DEF ProcessExpired
<1>2. b \in Armed \intersect fits /\ index[b] = CurrentSlot
  BY <1>1, HeadOfSlot
<1> HIDE DEF b
<1>3. TypeOK /\ b \in Block
  BY <1>2 DEF Structure, Armed
<1>4. b \in ToSet(CurrentList)
  BY <1>2, <1>3, ArmedTimer, SlotType DEF CurrentList
<1>5. PICK r \in Nat : r = due[b] - elapsed
  BY <1>2, CurrentTimers
<1>6. r % NumOfPeriods = 0 /\ cycle[b] = r \div NumOfPeriods
  BY <1>2, <1>4, <1>5, CurrentTimers
<1>7. r \div NumOfPeriods \in Nat /\ r = NumOfPeriods * (r \div NumOfPeriods) + (r % NumOfPeriods)
  BY <1>3, TimeTypes, TurnsAndRemainder
<1>8. r \div NumOfPeriods = 0
  BY <1>1, <1>6, <1>7
<1>9. r = 0
  BY <1>3, <1>6, <1>7, <1>8, TimeTypes
<1>10. due[b] = elapsed
  BY <1>3, <1>5, <1>9, TimeTypes
<1>11. QED
  BY <1>10 DEF b

(* When the wheel moves on, no fitting timer that is left is overdue and   *)
(* the turns left are right again.                                         *)
LEMMA TimingAdvance ==
  ASSUME Structure, Timing, ProcessEnd
  PROVE  Timing' /\ \A b \in Armed \intersect fits : due[b] # elapsed
<1>1. /\ periodsFromStart' = (periodsFromStart + 1) % UIntMod
      /\ elapsed' = elapsed + 1 /\ due' = due /\ index' = index /\ timerId' = timerId
      /\ fits' = fits
  BY DEF ProcessEnd
<1>2. /\ \A x \in ToSet(CurrentList) : cycle[x] > 0 /\ cycle'[x] = cycle[x] - 1
      /\ \A x \in Block \ ToSet(CurrentList) : cycle'[x] = cycle[x]
  BY ProcessEndCycles
<1>3. TypeOK
  BY DEF Structure
<1>4. periodsFromStart' = elapsed' % UIntMod
  <2>1. (1 + (elapsed % UIntMod)) % UIntMod = (elapsed + 1) % UIntMod
    BY <1>3, TimeTypes, CountsOn
  <2>2. periodsFromStart = elapsed % UIntMod /\ periodsFromStart \in Nat
    BY <1>3, TimerCtrlAssumption DEF TypeOK, Timing, WheelInPlace
  <2>3. 1 + periodsFromStart = periodsFromStart + 1
    BY <2>2
  <2>4. QED
    BY <1>1, <2>1, <2>2, <2>3
<1>5. ASSUME NEW b \in Armed \intersect fits
      PROVE  /\ due[b] # elapsed /\ due[b] >= elapsed + 1
             /\ SameRound(elapsed + 1, due[b])
             /\ cycle'[b] = (due[b] - (elapsed + 1)) \div NumOfPeriods
  <2>1. b \in Block
    BY DEF Armed
  <2>2. PICK r \in Nat : r = due[b] - elapsed
    BY CurrentTimers
  <2>3. /\ b \in ToSet(CurrentList) <=> r % NumOfPeriods = 0
        /\ cycle[b] = r \div NumOfPeriods
    BY <2>2, CurrentTimers
  <2>4. r # 0
    <3>1. ASSUME r = 0 PROVE FALSE
      <4>1. 0 % NumOfPeriods = 0 /\ 0 \div NumOfPeriods = 0
        BY <1>3, TimeTypes, SMTT(30)
      <4>2. b \in ToSet(CurrentList) /\ cycle[b] = 0
        BY <3>1, <4>1, <2>3
      <4>3. QED
        BY <4>2, <1>2
    <3>2. QED
      BY <3>1
  <2>5. (r - 1) \div NumOfPeriods = IF r % NumOfPeriods = 0 THEN (r \div NumOfPeriods) - 1
                                                           ELSE r \div NumOfPeriods
    BY <2>4, <1>3, TimeTypes, OnePeriodLater
  <2>6. cycle'[b] = (r - 1) \div NumOfPeriods
    BY <2>1, <2>3, <2>5, <1>2
  <2>7. due[b] # elapsed /\ due[b] >= elapsed + 1 /\ r - 1 = due[b] - (elapsed + 1)
    BY <2>1, <2>2, <2>4, <1>3, TimeTypes
  <2>8. SameRound(elapsed + 1, due[b])
    <3>1. due[b] \in Nat /\ elapsed \in Nat /\ elapsed < due[b]
      BY <2>1, <2>7, <1>3, TimeTypes
    <3>2. SameRound(elapsed, due[b])
      BY DEF Timing, NoSlotSkipped
    <3>3. InOneRound(NumOfPeriods, UIntMod, elapsed, due[b])
      BY <3>1, <3>2, <1>3, RoundOfPeriods
    <3>4. InOneRound(NumOfPeriods, UIntMod, elapsed + 1, due[b])
      BY <3>1, <3>3, RoundGoesOn
    <3>5. QED
      BY <3>4 DEF SameRound, InOneRound
  <2>9. QED
    BY <2>6, <2>7, <2>8
<1>6. Armed' = Armed
  BY <1>1 DEF Armed
<1>7. ASSUME NEW b \in Armed' \intersect fits'
      PROVE  /\ due'[b] >= elapsed'
             /\ index'[b] = (due'[b] % UIntMod) % NumOfPeriods
             /\ cycle'[b] = (due'[b] - elapsed') \div NumOfPeriods
             /\ SameRound(elapsed', due'[b])
  BY <1>1, <1>5, <1>6 DEF Timing, CycleMeasuresRemaining
<1>8. CycleMeasuresRemaining' /\ NoSlotSkipped'
  BY <1>7 DEF CycleMeasuresRemaining, NoSlotSkipped, SameRound
<1>9. WheelInPlace' /\ AllFit'
  BY <1>1, <1>4, <1>6 DEF Timing, WheelInPlace, AllFit, WheelFits
<1>10. QED
  BY <1>5, <1>8, <1>9 DEF Timing

(* A step of the controller that leaves the timing alone.                  *)
LEMMA TimingUnchanged ==
  ASSUME Timing,
         UNCHANGED <<periodsFromStart, elapsed, timerId, due, index, cycle, fits>>
  PROVE  Timing'
BY DEF Timing, WheelInPlace, NoSlotSkipped, AllFit, CycleMeasuresRemaining, Armed,
       SameRound, WheelFits

TimedInv == StructureInv /\ Timing

(* Every step preserves TimedInv; no fitting timer is disarmed but in the  *)
(* period it is due.                                                       *)
LEMMA TimingStep ==
  ASSUME TimedInv, [Next]_vars
  PROVE  /\ TimedInv'
         /\ \A b \in fits : timerId[b] # NULL /\ timerId'[b] = NULL => due[b] = elapsed
<1>1. StructureInv' /\ Structure /\ TypeOK /\ Timing
  BY StructureStep DEF TimedInv, StructureInv, Structure
<1>2. ASSUME Timing', Armed \subseteq Armed'
      PROVE  /\ TimedInv'
             /\ \A b \in fits : timerId[b] # NULL /\ timerId'[b] = NULL => due[b] = elapsed
  BY <1>1, <1>2 DEF TimedInv, Armed, TypeOK
<1>3. ASSUME NEW h \in Handle, NEW p \in Period, ResetArmed(h, p)
      PROVE  Timing' /\ Armed \subseteq Armed'
  <2> DEFINE lists == [tmrList EXCEPT ![index[handle[h]]] = Without(@, handle[h])]
  <2>1. /\ LinkTimer(handle[h], h, p, lists) /\ handle[h] # NULL
        /\ UNCHANGED <<periodsFromStart, elapsed>>
    BY <1>3 DEF ResetArmed, IsArmed
  <2>2. handle[h] \in Block
    BY <2>1, <1>1 DEF TypeOK
  <2> HIDE DEF lists
  <2>3. Armed' = Armed \union {handle[h]}
    <3>1. timerId' = [timerId EXCEPT ![handle[h]] = handle[h]]
      BY <2>1 DEF LinkTimer
    <3>2. QED
      BY <3>1, <2>1, <2>2, <1>1 DEF Armed, TypeOK
  <2>4. QED
    BY <2>1, <2>2, <2>3, <1>1, TimingLink
<1>4. ASSUME NEW h \in Handle, NEW p \in Period, ResetNew(h, p)
      PROVE  Timing' /\ Armed \subseteq Armed'
  <2>1. PICK b \in Block : LinkTimer(b, h, p, tmrList)
    BY <1>4 DEF ResetNew
  <2>2. UNCHANGED <<periodsFromStart, elapsed>>
    BY <1>4 DEF ResetNew
  <2>3. Armed' = Armed \union {b}
    <3>1. timerId' = [timerId EXCEPT ![b] = b] /\ b # NULL
      BY <2>1, TimerCtrlAssumption DEF LinkTimer, Block
    <3>2. QED
      BY <3>1, <1>1 DEF Armed, TypeOK
  <2>4. QED
    BY <2>1, <2>2, <2>3, <1>1, TimingLink
<1>5. ASSUME NEW h \in Handle, ResetRefused(h)
      PROVE  Timing' /\ Armed \subseteq Armed'
  BY <1>1, <1>5, TimingUnchanged DEF ResetRefused, Armed
<1>6. CASE ProcessBegin
  BY <1>1, <1>2, <1>6, TimingUnchanged DEF ProcessBegin, Armed
<1>7. CASE ProcessEnd
  BY <1>1, <1>2, <1>7, TimingAdvance DEF ProcessEnd, Armed
<1>8. CASE ProcessExpired
  <2> DEFINE b == Head(CurrentList)
  <2>1. b \in fits => due[b] = elapsed
    BY <1>1, <1>8, ExpiresWhenDue
  <2>2. /\ UNCHANGED <<periodsFromStart, elapsed>> /\ Armed' = Armed \ {b}
        /\ cycle' = [cycle EXCEPT ![b] = 0]
        /\ index' = [index EXCEPT ![b] = 0]
        /\ due' = [due EXCEPT ![b] = 0]
        /\ timerId' = [timerId EXCEPT ![b] = NULL]
        /\ fits' = fits \ {b}
    BY <1>1, <1>8, ProcessExpiredStep DEF ProcessExpired
  <2> HIDE DEF b
  <2>3. \A x \in Armed' : due'[x] = due[x] /\ index'[x] = index[x] /\ cycle'[x] = cycle[x]
                         /\ x \in Armed
    BY <2>2, <1>1 DEF TypeOK, Armed
  <2>4. Timing'
    BY <2>2, <2>3, <1>1 DEF Timing, WheelInPlace, NoSlotSkipped, AllFit, SameRound,
                            WheelFits, CycleMeasuresRemaining
  <2>5. \A x \in Block : timerId[x] # NULL /\ timerId'[x] = NULL => x = b
    BY <2>2, <1>1 DEF TypeOK
  <2>6. QED
    BY <2>1, <2>4, <2>5, <1>1 DEF TimedInv, TypeOK
<1>9. CASE UNCHANGED vars
  BY <1>1, <1>2, <1>9, TimingUnchanged DEF vars, Armed
<1>10. QED
  BY <1>2, <1>3, <1>4, <1>5, <1>6, <1>7, <1>8, <1>9 DEF Next, tmrReset, tmrProcessList

(* Cycle and index measure the time that is left, for every timer whose    *)
(* delay the widths hold (tdengine_old.c:78, 85-91, 266-274).              *)
THEOREM TimedInvariant == Spec => []TimedInv
<1>1. Init => TimedInv
  <2> SUFFICES ASSUME Init PROVE TimedInv
    OBVIOUS
  <2>1. StructureInv
    BY StructureInit DEF StructureInv, InHorizon, Init
  <2>2. 0 % UIntMod = 0
    BY TimerCtrlAssumption, SMTT(30)
  <2>3. Timing
    BY <2>2 DEF Init, Timing, WheelInPlace, NoSlotSkipped, AllFit,
                CycleMeasuresRemaining, Armed
  <2>4. QED
    BY <2>1, <2>3 DEF TimedInv
<1>2. TimedInv /\ [Next]_vars => TimedInv'
  BY TimingStep
<1>3. QED
  BY <1>1, <1>2, PTL DEF Spec

(* What cycle and index mean holds in every state, for the timers that fit *)
(* and whatever other timers are armed among them.                         *)
THEOREM CycleIsRight == Spec => []CycleMeasuresRemaining
<1>1. TimedInv => CycleMeasuresRemaining
  BY DEF TimedInv, Timing
<1>2. QED
  BY <1>1, TimedInvariant, PTL

(* The timers whose delay the widths do not hold are near their period.    *)
Near == OneWrapADelay =>
          \A b \in Armed \ fits :
             NearDue(NumOfPeriods, UIntMod, elapsed, due[b], cycle[b], index[b])

(* The object b is armed: it fits, or the counter wraps in its delay.      *)
LEMMA NearLink ==
  ASSUME TimedInv, Near, OneWrapADelay, NEW b \in Block, NEW h \in Handle,
         NEW p \in Period, NEW lists, LinkTimer(b, h, p, lists),
         Armed' = Armed \union {b}, UNCHANGED elapsed,
         NEW x \in Armed' \ fits'
  PROVE  NearDue(NumOfPeriods, UIntMod, elapsed, due'[x], cycle'[x], index'[x])
<1> DEFINE c == ToShort(p \div NumOfPeriods)
           s == SlotAfter(p)
<1>1. /\ cycle' = [cycle EXCEPT ![b] = c]
      /\ index' = [index EXCEPT ![b] = s]
      /\ due' = [due EXCEPT ![b] = elapsed + p]
      /\ fits' = IF WidthsHold(p) THEN fits \union {b} ELSE fits \ {b}
  BY DEF LinkTimer
<1>2. TypeOK /\ Structure /\ Timing
  BY DEF TimedInv, StructureInv, Structure
<1>3. s = ((elapsed + p) % UIntMod) % NumOfPeriods
  BY <1>2, WheelPosition DEF Timing
<1>4. PICK d : d = p \div NumOfPeriods
  OBVIOUS
<1>5. d \in Nat /\ d < ShortHalf /\ p \in Nat /\ p + NumOfPeriods <= UIntMod
  BY <1>2, <1>4, TimeTypes, TurnsAndRemainder DEF OneWrapADelay
<1>6. c = d
  BY <1>2, <1>4, <1>5, TimeTypes, ToShortValue
<1> HIDE DEF c, s
<1>7. CASE x = b
  <2>1. due'[x] = elapsed + p /\ index'[x] = s /\ cycle'[x] = c
    BY <1>1, <1>2, <1>7 DEF TypeOK
  <2>2. ~ WidthsHold(p)
    BY <1>1, <1>7
  <2>3. ~ SameRound(elapsed, elapsed + p)
    BY <1>4, <1>5, <2>2 DEF WidthsHold
  <2>4. elapsed + p \in Nat /\ elapsed \in Nat
    BY <1>2, <1>5, TimeTypes
  <2>5. ~ InOneRound(NumOfPeriods, UIntMod, elapsed, elapsed + p)
    BY <1>2, <2>3, <2>4, RoundOfPeriods
  <2>6. NearDue(NumOfPeriods, UIntMod, elapsed, elapsed + p, d, s)
    BY <1>2, <1>3, <1>4, <1>5, <2>4, <2>5, TimeTypes, NearWhenArmed
  <2>7. QED
    BY <1>6, <2>1, <2>6
<1>8. CASE x # b
  <2>1. x \in Armed \ fits /\ x \in Block
    BY <1>1, <1>8 DEF Armed
  <2>2. due'[x] = due[x] /\ index'[x] = index[x] /\ cycle'[x] = cycle[x]
    BY <1>1, <1>2, <1>8, <2>1 DEF TypeOK
  <2>3. QED
    BY <2>1, <2>2 DEF Near
<1>9. QED
  BY <1>7, <1>8

(* The wheel moves on; when it reaches the end of the counter's range, all *)
(* timers that wait for a period after it are off by a turn or by none.    *)
LEMMA NearAdvance ==
  ASSUME TimedInv, Near, OneWrapADelay, ProcessEnd, NEW b \in Armed \ fits
  PROVE  NearDue(NumOfPeriods, UIntMod, elapsed + 1, due[b], cycle'[b], index[b])
<1>1. TypeOK /\ Structure /\ Timing /\ b \in Block
  BY DEF TimedInv, StructureInv, Structure, Armed
<1>2. CurrentSlot = (elapsed % UIntMod) % NumOfPeriods
  BY <1>1, WheelPosition DEF Timing
<1>3. b \in ToSet(CurrentList) <=> index[b] = CurrentSlot
  BY <1>1, ArmedTimer, SlotType DEF CurrentList
<1>4. IF index[b] = (elapsed % UIntMod) % NumOfPeriods
        THEN cycle[b] > 0 /\ cycle'[b] = cycle[b] - 1
        ELSE cycle'[b] = cycle[b]
  BY <1>1, <1>2, <1>3, ProcessEndCycles
<1>5. NearDue(NumOfPeriods, UIntMod, elapsed, due[b], cycle[b], index[b])
  BY DEF Near
<1>6. QED
  BY <1>1, <1>4, <1>5, TimeTypes, NearMovesOn

(* A timer that expires is near the period it is due.                      *)
LEMMA ExpiresNearDue ==
  ASSUME TimedInv, Near, OneWrapADelay, ProcessExpired, Head(CurrentList) \notin fits
  PROVE  LET b == Head(CurrentList)
         IN  due[b] - NumOfPeriods <= elapsed /\ elapsed <= due[b] + NumOfPeriods
<1> DEFINE b == Head(CurrentList)
<1>1. CurrentList # <<>> /\ cycle[b] <= 0
  BY DEF ProcessExpired
<1>2. TypeOK /\ Structure /\ Timing
  BY DEF TimedInv, StructureInv, Structure
<1>3. b \in Armed \ fits /\ index[b] = CurrentSlot
  BY <1>1, <1>2, HeadOfSlot
<1> HIDE DEF b
<1>4. CurrentSlot = (elapsed % UIntMod) % NumOfPeriods
  BY <1>2, WheelPosition DEF Timing
<1>5. NearDue(NumOfPeriods, UIntMod, elapsed, due[b], cycle[b], index[b])
  BY <1>3 DEF Near
<1>6. cycle[b] = 0
  BY <1>1, <1>5 DEF NearDue
<1>7. due[b] - NumOfPeriods <= elapsed /\ elapsed <= due[b] + NumOfPeriods
  <2>1. due[b] \in Nat /\ elapsed \in Nat /\ NumOfPeriods \in Nat \ {0} /\ UIntMod \in Nat \ {0}
    BY <1>2, <1>3, TimeTypes DEF Armed
  <2>2. NearDue(NumOfPeriods, UIntMod, elapsed, due[b], 0, (elapsed % UIntMod) % NumOfPeriods)
    BY <1>3, <1>4, <1>5, <1>6
  <2>3. QED
    BY <2>1, <2>2, NearWhenFired
<1>8. QED
  BY <1>7 DEF b

(* Every step keeps the timers near their period.                          *)
LEMMA NearStep ==
  ASSUME TimedInv, Near, [Next]_vars
  PROVE  Near'
<1>1. SUFFICES ASSUME OneWrapADelay, NEW x \in Armed' \ fits'
               PROVE  NearDue(NumOfPeriods, UIntMod, elapsed', due'[x], cycle'[x], index'[x])
  BY DEF Near, OneWrapADelay
<1>2. TypeOK /\ Structure
  BY DEF TimedInv, StructureInv, Structure
<1>3. ASSUME UNCHANGED <<elapsed, timerId, due, index, cycle, fits>>
      PROVE  NearDue(NumOfPeriods, UIntMod, elapsed', due'[x], cycle'[x], index'[x])
  BY <1>1, <1>3 DEF Near, Armed
<1>4. ASSUME NEW h \in Handle, NEW p \in Period, ResetArmed(h, p)
      PROVE  NearDue(NumOfPeriods, UIntMod, elapsed', due'[x], cycle'[x], index'[x])
  <2> DEFINE lists == [tmrList EXCEPT ![index[handle[h]]] = Without(@, handle[h])]
  <2>1. /\ LinkTimer(handle[h], h, p, lists) /\ handle[h] # NULL
        /\ UNCHANGED elapsed
    BY <1>4 DEF ResetArmed, IsArmed
  <2>2. handle[h] \in Block
    BY <2>1, <1>2 DEF TypeOK
  <2> HIDE DEF lists
  <2>3. Armed' = Armed \union {handle[h]}
    <3>1. timerId' = [timerId EXCEPT ![handle[h]] = handle[h]]
      BY <2>1 DEF LinkTimer
    <3>2. QED
      BY <3>1, <2>1, <2>2, <1>2 DEF Armed, TypeOK
  <2>4. QED
    BY <1>1, <2>1, <2>2, <2>3, NearLink
<1>5. ASSUME NEW h \in Handle, NEW p \in Period, ResetNew(h, p)
      PROVE  NearDue(NumOfPeriods, UIntMod, elapsed', due'[x], cycle'[x], index'[x])
  <2>1. PICK b \in Block : LinkTimer(b, h, p, tmrList)
    BY <1>5 DEF ResetNew
  <2>2. UNCHANGED elapsed
    BY <1>5 DEF ResetNew
  <2>3. Armed' = Armed \union {b}
    <3>1. timerId' = [timerId EXCEPT ![b] = b] /\ b # NULL
      BY <2>1, TimerCtrlAssumption DEF LinkTimer, Block
    <3>2. QED
      BY <3>1, <1>2 DEF Armed, TypeOK
  <2>4. QED
    BY <1>1, <2>1, <2>2, <2>3, NearLink
<1>6. ASSUME NEW h \in Handle, ResetRefused(h)
      PROVE  NearDue(NumOfPeriods, UIntMod, elapsed', due'[x], cycle'[x], index'[x])
  BY <1>3, <1>6 DEF ResetRefused
<1>7. CASE ProcessBegin
  BY <1>3, <1>7 DEF ProcessBegin
<1>8. CASE ProcessEnd
  <2>1. elapsed' = elapsed + 1 /\ UNCHANGED <<due, index, timerId, fits>>
    BY <1>8 DEF ProcessEnd
  <2>2. x \in Armed \ fits
    BY <1>1, <2>1 DEF Armed
  <2>3. QED
    BY <1>1, <1>8, <2>1, <2>2, NearAdvance
<1>9. CASE ProcessExpired
  <2> DEFINE b == Head(CurrentList)
  <2>1. /\ UNCHANGED elapsed /\ Armed' = Armed \ {b}
        /\ cycle' = [cycle EXCEPT ![b] = 0]
        /\ index' = [index EXCEPT ![b] = 0]
        /\ due' = [due EXCEPT ![b] = 0]
        /\ fits' = fits \ {b}
    BY <1>2, <1>9, ProcessExpiredStep DEF ProcessExpired
  <2> HIDE DEF b
  <2>2. x \in Armed \ fits /\ x # b /\ x \in Block
    BY <1>1, <2>1 DEF Armed
  <2>3. due'[x] = due[x] /\ index'[x] = index[x] /\ cycle'[x] = cycle[x]
    BY <1>2, <2>1, <2>2 DEF TypeOK
  <2>4. QED
    BY <1>1, <2>1, <2>2, <2>3 DEF Near
<1>10. CASE UNCHANGED vars
  BY <1>3, <1>10 DEF vars
<1>11. QED
  BY <1>4, <1>5, <1>6, <1>7, <1>8, <1>9, <1>10 DEF Next, tmrReset, tmrProcessList

(* A timer stops being armed near its period, and in it when it fits.      *)
LEMMA StopsNearDue ==
  ASSUME TimedInv, Near, [Next]_vars, NEW b \in Block, timerId[b] # NULL, timerId'[b] = NULL
  PROVE  /\ b \in fits => due[b] = elapsed
         /\ OneWrapADelay => due[b] - NumOfPeriods <= elapsed /\ elapsed <= due[b] + NumOfPeriods
<1>1. b \in fits => due[b] = elapsed
  BY TimingStep
<1>2. TypeOK /\ Structure
  BY DEF TimedInv, StructureInv, Structure
<1>3. ProcessExpired /\ b = Head(CurrentList)
  <2>1. CASE ProcessExpired
    <3>1. timerId' = [timerId EXCEPT ![Head(CurrentList)] = NULL]
      BY <2>1 DEF ProcessExpired
    <3>2. QED
      BY <1>2, <2>1, <3>1 DEF TypeOK
  <2>2. CASE ~ ProcessExpired
    <3>1. \/ timerId' = timerId
          \/ \E c \in Block : timerId' = [timerId EXCEPT ![c] = c]
      BY <1>2, <2>2 DEF Next, tmrReset, tmrProcessList, ResetArmed, ResetNew, ResetRefused,
         ProcessBegin, ProcessEnd, LinkTimer, IsArmed, TypeOK, vars
    <3>2. NULL \notin Block
      BY TimerCtrlAssumption DEF Block
    <3>3. QED
      BY <1>2, <3>1, <3>2 DEF TypeOK
  <2>3. QED
    BY <2>1, <2>2
<1>4. ASSUME b \in fits
      PROVE  due[b] - NumOfPeriods <= elapsed /\ elapsed <= due[b] + NumOfPeriods
  BY <1>1, <1>2, <1>4, TimeTypes
<1>5. ASSUME OneWrapADelay, b \notin fits
      PROVE  due[b] - NumOfPeriods <= elapsed /\ elapsed <= due[b] + NumOfPeriods
  BY <1>3, <1>5, ExpiresNearDue
<1>6. QED
  BY <1>1, <1>4, <1>5

(* A timer whose delay the widths hold is neither early nor late; another  *)
(* one, where the counter wraps once on its way, is so by a turn at most   *)
(* (tdengine_old.c:80-111, 266-287).                                       *)
THEOREM FiresInItsPeriod == Spec => FiresByTheWheel
<1>1. Init => Near
  BY DEF Init, Near, Armed
<1>2. TimedInv /\ Near /\ [Next]_vars => Near'
  BY NearStep
<1>3. TimedInv /\ Near /\ [Next]_vars
        => [\A b \in Block : timerId[b] # NULL /\ timerId'[b] = NULL =>
              /\ b \in fits => due[b] = elapsed
              /\ OneWrapADelay => /\ due[b] - NumOfPeriods <= elapsed
                                 /\ elapsed <= due[b] + NumOfPeriods]_vars
  BY StopsNearDue
<1>4. QED
  BY <1>1, <1>2, <1>3, TimedInvariant, PTL DEF Spec, FiresByTheWheel

(* Where the widths suffice for every delay, no timer at all is early or   *)
(* late: timer_short_cycle shows that the shorts have to suffice.          *)
THEOREM AllFireInTheirPeriod == ASSUME WheelFits PROVE Spec => FiresOnTime
<1>1. TimedInv /\ [Next]_vars
        => [\A b \in Block : timerId[b] # NULL /\ timerId'[b] = NULL => due[b] = elapsed]_vars
  <2> SUFFICES ASSUME TimedInv, [Next]_vars, NEW b \in Block,
                      timerId[b] # NULL, timerId'[b] = NULL
               PROVE  due[b] = elapsed
    OBVIOUS
  <2>1. b \in fits
    BY DEF TimedInv, Timing, AllFit, Armed
  <2>2. QED
    BY <2>1, TimingStep
<1>2. Spec => []TimedInv
  BY TimedInvariant
<1>3. QED
  BY <1>1, <1>2, PTL DEF Spec, FiresOnTime
-----------------------------------------------------------------------------
OwnedInv == TimedInv /\ HandlesOwnTimers

(* A handle without an armed timer points to nothing.                      *)
LEMMA HandleIsArmedOrNull ==
  ASSUME Structure, HandlesOwnTimers, NEW h \in Handle
  PROVE  /\ ~ IsArmed(h) <=> handle[h] = NULL
         /\ ~ IsArmed(h) <=> request[h] = NULL
<1>1. handle[h] \in Armed => handle[h] \in Block /\ timerId[handle[h]] = handle[h]
  BY DEF Structure, ListsMatchObjects, Armed
<1>2. NULL \notin Block
  BY TimerCtrlAssumption DEF Block
<1>3. QED
  BY <1>1, <1>2 DEF HandlesOwnTimers, IsArmed

(* Arming the object b for the handle h, which points to it or is made to. *)
LEMMA OwnershipLink ==
  ASSUME TypeOK, HandlesOwnTimers, NEW b \in Block, NEW h \in Handle, NEW p \in Period,
         NEW lists, LinkTimer(b, h, p, lists), Armed' = Armed \union {b},
         handle' = [handle EXCEPT ![h] = b],
         \A g \in Handle : g # h => handle[g] # b,
         handle[h] # NULL => handle[h] = b
  PROVE  HandlesOwnTimers'
<1>1. /\ param1' = [param1 EXCEPT ![b] = h]
      /\ due' = [due EXCEPT ![b] = elapsed + p]
      /\ request' = [request EXCEPT ![h] = elapsed + p]
  BY DEF LinkTimer
<1>2. elapsed + p # NULL
  BY TimerCtrlAssumption DEF TypeOK
<1>3. /\ handle'[h] = b /\ request'[h] = elapsed + p
      /\ param1'[b] = h /\ due'[b] = elapsed + p
  BY <1>1 DEF TypeOK
<1>4. /\ \A g \in Handle : g # h => handle'[g] = handle[g] /\ request'[g] = request[g]
      /\ \A x \in Block : x # b => param1'[x] = param1[x] /\ due'[x] = due[x]
  BY <1>1 DEF TypeOK
<1>5. ASSUME NEW g \in Handle
      PROVE  IF request'[g] = NULL
               THEN handle'[g] = NULL
               ELSE /\ handle'[g] \in Armed'
                    /\ param1'[handle'[g]] = g
                    /\ due'[handle'[g]] = request'[g]
  <2>1. CASE g = h
    BY <2>1, <1>2, <1>3
  <2>2. CASE g # h
    <3>1. handle'[g] = handle[g] /\ request'[g] = request[g] /\ handle[g] # b
      BY <2>2, <1>4
    <3>2. handle[g] \in Armed => handle[g] \in Block
      BY DEF Armed
    <3>3. QED
      BY <3>1, <3>2, <1>4 DEF HandlesOwnTimers
  <2>3. QED
    BY <2>1, <2>2
<1>6. ASSUME NEW x \in Armed'
      PROVE  param1'[x] \in Handle /\ handle'[param1'[x]] = x
  <2>1. CASE x = b
    BY <2>1, <1>3
  <2>2. CASE x # b
    <3>1. x \in Armed /\ x \in Block
      BY <2>2 DEF Armed
    <3>2. param1[x] \in Handle /\ handle[param1[x]] = x
      BY <3>1 DEF HandlesOwnTimers
    <3>3. x # NULL
      BY <3>1, TimerCtrlAssumption DEF Block
    <3>4. param1[x] # h
      BY <3>2, <3>3, <2>2
    <3>5. QED
      BY <3>1, <3>2, <3>4, <1>4
  <2>3. QED
    BY <2>1, <2>2
<1>7. QED
  BY <1>5, <1>6 DEF HandlesOwnTimers

(* Every step of callers and timer thread preserves OwnedInv and is a step *)
(* of the abstract service, or none.                                       *)
LEMMA OwnershipStep ==
  ASSUME WheelFits, ClearsHandle, OwnedInv, [Next]_vars
  PROVE  OwnedInv' /\ [TS!Next]_(TS!serviceVars)
<1>1. /\ TimedInv' /\ StructureInv /\ Structure /\ TypeOK /\ Timing /\ HandlesOwnTimers
  BY TimingStep DEF OwnedInv, TimedInv, StructureInv, Structure
<1>2. SUFFICES HandlesOwnTimers' /\ [TS!Next]_(TS!serviceVars)
  BY <1>1 DEF OwnedInv
<1>3. ASSUME NEW h \in Handle, NEW p \in Period, ResetArmed(h, p)
      PROVE  HandlesOwnTimers' /\ TS!Next
  <2> DEFINE b == handle[h]
             lists == [tmrList EXCEPT ![index[b]] = Without(@, b)]
  <2>1. /\ LinkTimer(b, h, p, lists) /\ b # NULL
        /\ UNCHANGED <<handle, elapsed>>
    BY <1>3 DEF ResetArmed, IsArmed
  <2>2. b \in Block
    BY <2>1, <1>1 DEF TypeOK
  <2> HIDE DEF lists
  <2>3. Armed' = Armed \union {b}
    <3>1. timerId' = [timerId EXCEPT ![b] = b]
      BY <2>1 DEF LinkTimer
    <3>2. QED
      BY <3>1, <2>1, <2>2, <1>1 DEF Armed, TypeOK
  <2>4. \A g \in Handle : g # h => handle[g] # b
    BY <2>1, <1>1 DEF HandlesOwnTimers
  <2>5. handle' = [handle EXCEPT ![h] = b]
    BY <2>1, <1>1 DEF TypeOK
  <2>6. HandlesOwnTimers'
    BY <2>1, <2>2, <2>3, <2>4, <2>5, <1>1, OwnershipLink
  <2>7. TS!Reset(h, p)
    BY <2>1 DEF LinkTimer, TS!Reset
  <2>8. QED
    BY <2>6, <2>7 DEF TS!Next
<1>4. ASSUME NEW h \in Handle, NEW p \in Period, ResetNew(h, p)
      PROVE  HandlesOwnTimers' /\ TS!Next
  <2>1. PICK b \in Block : /\ memPoolMalloc(b)
                           /\ handle' = [handle EXCEPT ![h] = b]
                           /\ LinkTimer(b, h, p, tmrList)
    BY <1>4 DEF ResetNew
  <2>2. UNCHANGED elapsed /\ handle[h] = NULL
    BY <1>1, <1>4, HandleIsArmedOrNull DEF ResetNew
  <2>3. b \notin Armed
    <3>1. b \in FreeBlocks
      BY <2>1, <1>1, PoolMalloc DEF PoolInv, Structure, TypeOK
    <3>2. QED
      BY <3>1, <1>1, ArmedTimer
  <2>4. \A g \in Handle : handle[g] # b
    <3>1. b # NULL
      BY TimerCtrlAssumption DEF Block
    <3>2. QED
      BY <3>1, <2>3, <1>1 DEF HandlesOwnTimers
  <2>5. Armed' = Armed \union {b}
    <3>1. timerId' = [timerId EXCEPT ![b] = b] /\ b # NULL
      BY <2>1, TimerCtrlAssumption DEF LinkTimer, Block
    <3>2. QED
      BY <3>1, <1>1 DEF Armed, TypeOK
  <2>6. HandlesOwnTimers'
    BY <2>1, <2>2, <2>4, <2>5, <1>1, OwnershipLink
  <2>7. TS!Reset(h, p)
    BY <2>1, <2>2 DEF LinkTimer, TS!Reset
  <2>8. QED
    BY <2>6, <2>7 DEF TS!Next
<1>5. ASSUME UNCHANGED <<timerId, param1, handle, elapsed, due, request>>
      PROVE  HandlesOwnTimers' /\ UNCHANGED TS!serviceVars
  BY <1>1, <1>5 DEF HandlesOwnTimers, Armed, TS!serviceVars
<1>6. ASSUME NEW h \in Handle, ResetRefused(h)
      PROVE  HandlesOwnTimers' /\ UNCHANGED TS!serviceVars
  <2>1. handle' = handle
    BY <1>1, <1>6, HandleIsArmedOrNull DEF ResetRefused, TypeOK
  <2>2. QED
    BY <2>1, <1>5, <1>6 DEF ResetRefused
<1>7. CASE ProcessBegin
  BY <1>5, <1>7 DEF ProcessBegin
<1>8. CASE UNCHANGED vars
  BY <1>5, <1>8 DEF vars
<1>9. CASE ProcessExpired
  <2> DEFINE b == Head(CurrentList)
             h == param1[b]
  <2>1. /\ request' = [request EXCEPT ![h] = NULL]
        /\ handle' = [handle EXCEPT ![h] = NULL]
        /\ param1' = [param1 EXCEPT ![b] = NULL]
        /\ due' = [due EXCEPT ![b] = 0]
        /\ UNCHANGED elapsed /\ CurrentList # <<>>
    BY <1>9 DEF ProcessExpired
  <2>2. /\ b \in Armed /\ due[b] = elapsed /\ Armed' = Armed \ {b}
    <3>1. b \in Armed /\ Armed' = Armed \ {b}
      BY <2>1, <1>1, <1>9, HeadOfSlot, ProcessExpiredStep
    <3>2. b \in fits
      BY <3>1, <1>1 DEF Timing, AllFit
    <3>3. QED
      BY <3>1, <3>2, <1>1, <1>9, ExpiresWhenDue
  <2>3. h \in Handle /\ handle[h] = b
    BY <2>2, <1>1 DEF HandlesOwnTimers
  <2> HIDE DEF b, h
  <2>4. b \in Block /\ b # NULL
    BY <2>2, TimerCtrlAssumption DEF Armed, Block
  <2>5. request[h] = elapsed
    BY <2>2, <2>3, <2>4, <1>1 DEF HandlesOwnTimers
  <2>6. \A g \in Handle : g # h => handle'[g] = handle[g] /\ request'[g] = request[g]
    BY <2>1, <1>1 DEF TypeOK
  <2>7. handle'[h] = NULL /\ request'[h] = NULL
    BY <2>1, <2>3, <1>1 DEF TypeOK
  <2>8. \A x \in Block : x # b => param1'[x] = param1[x] /\ due'[x] = due[x]
    BY <2>1, <1>1 DEF TypeOK
  <2>9. param1[b] = h
    BY DEF h
  <2>10. ASSUME NEW g \in Handle
         PROVE  IF request'[g] = NULL
                  THEN handle'[g] = NULL
                  ELSE /\ handle'[g] \in Armed'
                       /\ param1'[handle'[g]] = g
                       /\ due'[handle'[g]] = request'[g]
    <3>1. CASE g = h
      BY <3>1, <2>7
    <3>2. CASE g # h
      <4>1. IF request[g] = NULL
              THEN handle[g] = NULL
              ELSE handle[g] \in Armed /\ param1[handle[g]] = g /\ due[handle[g]] = request[g]
        BY <1>1 DEF HandlesOwnTimers
      <4>2. request[g] # NULL => handle[g] # b /\ handle[g] \in Block
        BY <4>1, <3>2, <2>9 DEF Armed
      <4>3. QED
        BY <4>1, <4>2, <3>2, <2>2, <2>6, <2>8
    <3>3. QED
      BY <3>1, <3>2
  <2>11. ASSUME NEW x \in Armed'
         PROVE  param1'[x] \in Handle /\ handle'[param1'[x]] = x
    <3>1. x \in Armed /\ x # b /\ x \in Block
      BY <2>2 DEF Armed
    <3>2. param1[x] \in Handle /\ handle[param1[x]] = x
      BY <3>1, <1>1 DEF HandlesOwnTimers
    <3>3. param1[x] # h
      BY <3>1, <3>2, <2>3
    <3>4. QED
      BY <3>1, <3>2, <3>3, <2>6, <2>8
  <2>12. HandlesOwnTimers'
    BY <2>10, <2>11 DEF HandlesOwnTimers
  <2>13. TS!Expire(h)
    BY <2>1, <2>5 DEF TS!Expire
  <2>14. QED
    BY <2>3, <2>12, <2>13 DEF TS!Next
<1>10. CASE ProcessEnd
  <2>1. elapsed' = elapsed + 1 /\ UNCHANGED <<timerId, param1, handle, due, request>>
    BY <1>10 DEF ProcessEnd
  <2>2. HandlesOwnTimers'
    BY <2>1, <1>1 DEF HandlesOwnTimers, Armed
  <2>3. \A b \in Armed : due[b] # elapsed
    BY <1>1, <1>10, TimingAdvance DEF Timing, AllFit
  <2>4. elapsed # NULL
    BY <1>1, TimerCtrlAssumption DEF TypeOK
  <2>5. \A h \in Handle : request[h] # elapsed
    BY <2>3, <2>4, <1>1 DEF HandlesOwnTimers
  <2>6. TS!Advance
    BY <2>1, <2>5 DEF TS!Advance
  <2>7. QED
    BY <2>2, <2>6 DEF TS!Next
<1>11. QED
  BY <1>3, <1>4, <1>6, <1>7, <1>8, <1>9, <1>10 DEF Next, tmrReset, tmrProcessList

(* Init establishes OwnedInv.                                              *)
LEMMA OwnershipInit == Init => HandlesOwnTimers
BY DEF Init, HandlesOwnTimers, Armed

(* With callbacks that clear their handle, a handle and its armed timer    *)
(* belong together for ever (tdengine_old.c:235-237, 255-256, 267-269).    *)
THEOREM HandlesStayOwners ==
  ASSUME WheelFits, ClearsHandle PROVE Spec => []OwnedInv
<1>1. Spec => []TimedInv
  BY TimedInvariant
<1>2. OwnedInv /\ [Next]_vars => OwnedInv'
  BY OwnershipStep
<1>3. TimedInv /\ Init => OwnedInv
  BY OwnershipInit DEF OwnedInv
<1>4. QED
  BY <1>1, <1>2, <1>3, PTL DEF Spec

(* Handles and armed timers belong together: no callback that clears its   *)
(* handle leaves an object behind for tmrReset to mistake for another's    *)
(* (tdengine_old.c:235-237, 255-256, 267-269).                             *)
THEOREM HandlesOwn ==
  ASSUME WheelFits, ClearsHandle PROVE Spec => []HandlesOwnTimers
<1>1. OwnedInv => HandlesOwnTimers
  BY DEF OwnedInv
<1>2. Spec => []OwnedInv
  BY HandlesStayOwners
<1>3. QED
  BY <1>1, <1>2, PTL

(* Slots, cycles, pool and mutex keep the promise made to callers: every   *)
(* callback runs in the period it was asked for, and no period ends before *)
(* its callbacks have run (tdengine_old.c:71-114, 222-309).                *)
THEOREM ImplementsService == ASSUME WheelFits, ClearsHandle PROVE Spec => Service
<1>1. Init => TS!Init
  BY DEF Init, TS!Init
<1>2. OwnedInv /\ [Next]_vars => [TS!Next]_(TS!serviceVars)
  BY OwnershipStep
<1>3. Spec => []OwnedInv
  BY HandlesStayOwners
<1>4. QED
  BY <1>1, <1>2, <1>3, PTL DEF Spec, Service, TS!Spec

(* No callback that was asked for is overdue.                              *)
THEOREM NoDeadlineIsMissed ==
  ASSUME WheelFits, ClearsHandle PROVE Spec => []NoMissedDeadline
<1>1. OwnedInv => NoMissedDeadline
  BY DEF OwnedInv, HandlesOwnTimers, NoMissedDeadline, TimedInv, Timing, AllFit,
         CycleMeasuresRemaining
<1>2. Spec => []OwnedInv
  BY HandlesStayOwners
<1>3. QED
  BY <1>1, <1>2, PTL
=============================================================================
