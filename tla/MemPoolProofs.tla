----------------------------- MODULE MemPoolProofs -----------------------------
(***************************************************************************)
(* The memory pool of ttimer/tdengine_old.c, for any number of blocks, of  *)
(* threads and of bad addresses: what MemPoolThreads' runs check on three  *)
(* blocks is proved of every instance.                                     *)
(*                                                                         *)
(* IInv is inductive as it stands: the conjuncts of the invariants that    *)
(* are checked need each other (a block is taken from the ring, so it is   *)
(* in no thread's hands, so it can be given to one), and the ring's slots  *)
(* have to be different.                                                   *)
(***************************************************************************)
EXTENDS MemPoolThreads, MemPoolLemmas, SequenceTheorems

IInv == /\ TypeOK
        /\ FreeListDistinct
        /\ NoSharedBlock
        /\ NoLostBlock
        /\ OwnDataOnly

(* No address of BadAddress is accepted by memPoolFree.                    *)
LEMMA BadAddressRefused ==
  ASSUME NEW a \in BadAddress
  PROVE  ~ AcceptedAddress(a)
<1>1. a \in Int
  BY ThreadsAssumption
<1>2. a % BlockSize = 0 => a = (a \div BlockSize) * BlockSize
  BY <1>1, MemPoolAssumption, SMTT(30)
<1>3. QED
  BY <1>2, ThreadsAssumption DEF AcceptedAddress, AddressOf

(* Init establishes the invariant.                                         *)
LEMMA InitInvariant == Init => IInv
<1> SUFFICES ASSUME Init PROVE IInv
  OBVIOUS
<1>1. PoolInv /\ FreeBlocks = Block
  BY PoolInit DEF Init
<1>2. \A t \in Thread : clearing[t] = NoBlock /\ owned[t] = {}
  BY DEF Init
<1>3. \A t \in Thread : HeldBy(t) = {}
  BY <1>2 DEF HeldBy
<1>4. TypeOK
  BY <1>1 DEF Init, TypeOK, PoolInv
<1>5. NoSharedBlock
  BY <1>2, <1>3 DEF NoSharedBlock
<1>6. NoLostBlock
  BY <1>1 DEF NoLostBlock
<1>7. OwnDataOnly
  BY <1>2 DEF OwnDataOnly
<1>8. QED
  BY <1>1, <1>4, <1>5, <1>6, <1>7 DEF IInv, PoolInv

(* memPoolMalloc's critical section.                                       *)
LEMMA MallocTakeStep ==
  ASSUME IInv, NEW t \in Thread, MallocTake(t)
  PROVE  /\ IInv'
         /\ \E b \in Block : /\ memPoolMalloc(b)
                             /\ Held' = Held \union {b}
<1>1. PICK b \in Block : /\ memPoolMalloc(b)
                         /\ clearing' = [clearing EXCEPT ![t] = b]
  BY DEF MallocTake
<1>2. owned' = owned /\ memory' = memory /\ clearing[t] = NoBlock
  BY DEF MallocTake
<1>3. PoolInv
  BY DEF IInv, TypeOK, PoolInv
<1>4. /\ PoolInv' /\ b \in FreeBlocks /\ FreeBlocks' = FreeBlocks \ {b}
  BY <1>1, <1>3, PoolMalloc
<1>5. b # NoBlock
  BY ThreadsAssumption
<1>6. TypeOK
  BY DEF IInv
<1>7. TypeOK'
  BY <1>1, <1>2, <1>4, <1>6 DEF TypeOK, PoolInv
<1>8. \A u \in Thread : HeldBy(u)' = IF u = t THEN HeldBy(u) \union {b} ELSE HeldBy(u)
  BY <1>1, <1>2, <1>5, <1>6 DEF HeldBy, TypeOK
<1>9. NoSharedBlock
  BY DEF IInv
<1>10. \A u \in Thread : b \notin HeldBy(u)
  BY <1>4, <1>9 DEF NoSharedBlock
<1>11. NoSharedBlock'
  <2>1. ASSUME NEW u \in Thread, NEW v \in Thread, u # v
        PROVE  HeldBy(u)' \intersect HeldBy(v)' = {}
    BY <1>8, <1>9, <1>10, <2>1 DEF NoSharedBlock
  <2>2. ASSUME NEW u \in Thread
        PROVE  HeldBy(u)' \intersect FreeBlocks' = {}
    BY <1>4, <1>8, <1>9 DEF NoSharedBlock
  <2>3. ASSUME NEW u \in Thread
        PROVE  clearing'[u] \notin owned'[u]
    BY <1>1, <1>2, <1>6, <1>9, <1>10 DEF NoSharedBlock, HeldBy, TypeOK
  <2>4. QED
    BY <2>1, <2>2, <2>3 DEF NoSharedBlock
<1>12. Held' = Held \union {b}
  BY <1>8 DEF Held
<1>13. NoLostBlock'
  BY <1>4, <1>12 DEF IInv, NoLostBlock
<1>14. OwnDataOnly'
  BY <1>2 DEF IInv, OwnDataOnly
<1>15. QED
  BY <1>1, <1>4, <1>7, <1>11, <1>12, <1>13, <1>14 DEF IInv, PoolInv

(* memPoolMalloc's memset and return.                                      *)
LEMMA MallocClearStep ==
  ASSUME IInv, NEW t \in Thread, MallocClear(t)
  PROVE  IInv' /\ Held' = Held /\ UNCHANGED poolVars
<1> DEFINE b == clearing[t]
<1>1. /\ b # NoBlock
      /\ memory' = [memory EXCEPT ![b] = "zero"]
      /\ owned' = [owned EXCEPT ![t] = @ \union {b}]
      /\ clearing' = [clearing EXCEPT ![t] = NoBlock]
      /\ UNCHANGED poolVars
  BY DEF MallocClear
<1>2. TypeOK /\ b \in Block
  BY <1>1 DEF IInv, TypeOK
<1>3. PoolInv' /\ FreeBlocks' = FreeBlocks
  BY <1>1, PoolUnchanged DEF IInv, TypeOK, PoolInv
<1> HIDE DEF b
<1>4. TypeOK'
  BY <1>1, <1>2, <1>3 DEF TypeOK, PoolInv
<1>5. \A u \in Thread : HeldBy(u)' = HeldBy(u)
  BY <1>1, <1>2 DEF HeldBy, TypeOK, b
<1>6. b \in HeldBy(t)
  BY <1>1 DEF HeldBy, b
<1>7. NoSharedBlock'
  <2>1. \A u \in Thread : clearing'[u] \notin owned'[u]
    <3> TAKE u \in Thread
    <3>1. CASE u = t
      <4>1. clearing'[u] = NoBlock /\ owned'[u] \subseteq Block
        BY <3>1, <1>1, <1>2, <1>4 DEF TypeOK
      <4>2. QED
        BY <4>1, ThreadsAssumption
    <3>2. CASE u # t
      BY <3>2, <1>1, <1>2 DEF TypeOK, IInv, NoSharedBlock
    <3>3. QED
      BY <3>1, <3>2
  <2>2. QED
    BY <2>1, <1>3, <1>5 DEF IInv, NoSharedBlock
<1>8. Held' = Held
  BY <1>5 DEF Held
<1>9. NoLostBlock'
  BY <1>3, <1>8 DEF IInv, NoLostBlock
<1>10. OwnDataOnly'
  <2> SUFFICES ASSUME NEW u \in Thread, NEW c \in owned'[u]
               PROVE  memory'[c] \in {"zero", u}
    BY DEF OwnDataOnly
  <2>1. CASE c = b
    BY <2>1, <1>1, <1>2 DEF TypeOK
  <2>2. CASE c # b
    <3>1. c \in owned[u]
      BY <2>2, <1>1, <1>2 DEF TypeOK
    <3>2. memory'[c] = memory[c]
      BY <2>2, <1>1, <1>2 DEF TypeOK
    <3>3. QED
      BY <3>1, <3>2 DEF IInv, OwnDataOnly
  <2>3. QED
    BY <2>1, <2>2
<1>11. QED
  BY <1>1, <1>3, <1>4, <1>7, <1>8, <1>9, <1>10 DEF IInv, PoolInv

(* A thread writes to a block of its own.                                  *)
LEMMA WriteStep ==
  ASSUME IInv, NEW t \in Thread, Write(t)
  PROVE  IInv' /\ Held' = Held /\ UNCHANGED poolVars
<1>1. PICK b \in owned[t] : memory' = [memory EXCEPT ![b] = t]
  BY DEF Write
<1>2. UNCHANGED poolVars /\ clearing' = clearing /\ owned' = owned
  BY DEF Write, poolVars
<1>3. PoolInv' /\ FreeBlocks' = FreeBlocks
  BY <1>2, PoolUnchanged DEF IInv, TypeOK, PoolInv
<1>4. TypeOK'
  BY <1>1, <1>2, <1>3 DEF IInv, TypeOK, PoolInv
<1>5. Held' = Held /\ \A u \in Thread : HeldBy(u)' = HeldBy(u)
  BY <1>2 DEF HeldBy, Held
<1>6. NoSharedBlock' /\ NoLostBlock'
  BY <1>2, <1>3, <1>5 DEF IInv, NoSharedBlock, NoLostBlock
<1>7. OwnDataOnly'
  <2> SUFFICES ASSUME NEW u \in Thread, NEW c \in owned[u]
               PROVE  memory'[c] \in {"zero", u}
    BY <1>2 DEF OwnDataOnly
  <2>1. c = b => u = t
    BY <1>1 DEF IInv, NoSharedBlock, HeldBy
  <2>2. b \in Block /\ c \in Block
    BY <1>1 DEF IInv, TypeOK
  <2>3. QED
    BY <2>1, <2>2, <1>1 DEF IInv, TypeOK, OwnDataOnly
<1>8. QED
  BY <1>2, <1>3, <1>4, <1>5, <1>6, <1>7 DEF IInv, PoolInv

(* memPoolFree of a block of the thread's own.                             *)
LEMMA FreeStep ==
  ASSUME IInv, NEW t \in Thread, Free(t)
  PROVE  /\ IInv'
         /\ \E b \in Held : /\ b \in Block \ FreeBlocks
                            /\ memPoolFree(AddressOf(b))
                            /\ Held' = Held \ {b}
<1>1. PICK b \in owned[t] : /\ memPoolFree(AddressOf(b))
                            /\ owned' = [owned EXCEPT ![t] = @ \ {b}]
                            /\ memory' = [memory EXCEPT ![b] = "zero"]
  BY DEF Free
<1>2. clearing' = clearing /\ clearing[t] = NoBlock
  BY DEF Free
<1>3. TypeOK /\ NoSharedBlock
  BY DEF IInv
<1>4. b \in Block \ FreeBlocks
  BY <1>1, <1>3 DEF TypeOK, NoSharedBlock, HeldBy
<1>5. PoolInv
  BY DEF IInv, TypeOK, PoolInv
<1>6. PoolInv' /\ FreeBlocks' = FreeBlocks \union {b}
  BY <1>1, <1>4, <1>5, PoolFree
<1>7. TypeOK'
  BY <1>1, <1>2, <1>3, <1>4, <1>6 DEF TypeOK, PoolInv
<1>8. \A u \in Thread : HeldBy(u)' = IF u = t THEN HeldBy(u) \ {b} ELSE HeldBy(u)
  BY <1>1, <1>2, <1>3, <1>4, ThreadsAssumption DEF HeldBy, TypeOK
<1>9. \A u \in Thread : b \in HeldBy(u) => u = t
  BY <1>1, <1>3 DEF NoSharedBlock, HeldBy
<1>10. NoSharedBlock'
  <2>1. \A u, v \in Thread : u # v => HeldBy(u)' \intersect HeldBy(v)' = {}
    BY <1>3, <1>8 DEF NoSharedBlock
  <2>2. \A u \in Thread : HeldBy(u)' \intersect FreeBlocks' = {}
    BY <1>3, <1>6, <1>8, <1>9 DEF NoSharedBlock
  <2>3. \A u \in Thread : clearing'[u] \notin owned'[u]
    BY <1>1, <1>2, <1>3 DEF NoSharedBlock, TypeOK
  <2>4. QED
    BY <2>1, <2>2, <2>3 DEF NoSharedBlock
<1>11. b \in Held
  BY <1>1 DEF Held, HeldBy
<1>12. Held' = Held \ {b}
  BY <1>8, <1>9 DEF Held
<1>13. NoLostBlock'
  BY <1>6, <1>12 DEF IInv, NoLostBlock
<1>14. OwnDataOnly'
  <2> SUFFICES ASSUME NEW u \in Thread, NEW c \in owned'[u]
               PROVE  memory'[c] \in {"zero", u}
    BY DEF OwnDataOnly
  <2>1. c \in owned[u]
    BY <1>1, <1>3 DEF TypeOK
  <2>2. memory'[c] \in {memory[c], "zero"}
    BY <1>1, <1>3, <1>4, <2>1 DEF TypeOK
  <2>3. QED
    BY <2>1, <2>2 DEF IInv, OwnDataOnly
<1>15. QED
  BY <1>1, <1>4, <1>6, <1>7, <1>10, <1>11, <1>12, <1>13, <1>14 DEF IInv, PoolInv

(* memPoolFree of a bad address.                                           *)
LEMMA FreeInvalidStep ==
  ASSUME NEW t \in Thread, FreeInvalid(t)
  PROVE  UNCHANGED vars
BY BadAddressRefused, PoolFreeRefused DEF FreeInvalid, vars, poolVars

(* A stuttering step.                                                      *)
LEMMA StutterStep ==
  ASSUME IInv, UNCHANGED vars
  PROVE  IInv' /\ Held' = Held /\ UNCHANGED poolVars
<1>1. UNCHANGED poolVars
  BY DEF vars, poolVars
<1>2. PoolInv' /\ FreeBlocks' = FreeBlocks
  BY <1>1, PoolUnchanged DEF IInv, TypeOK, PoolInv
<1>3. QED
  BY <1>1, <1>2
  DEF IInv, TypeOK, PoolInv, vars, NoSharedBlock, NoLostBlock, OwnDataOnly, HeldBy, Held

(* Every step preserves the invariant.                                     *)
LEMMA StepInvariant == IInv /\ [Next]_vars => IInv'
<1> SUFFICES ASSUME IInv, [Next]_vars PROVE IInv'
  OBVIOUS
<1>1. ASSUME NEW t \in Thread, MallocTake(t) PROVE IInv'
  BY <1>1, MallocTakeStep
<1>2. ASSUME NEW t \in Thread, MallocClear(t) PROVE IInv'
  BY <1>2, MallocClearStep
<1>3. ASSUME NEW t \in Thread, Write(t) PROVE IInv'
  BY <1>3, WriteStep
<1>4. ASSUME NEW t \in Thread, Free(t) PROVE IInv'
  BY <1>4, FreeStep
<1>5. ASSUME NEW t \in Thread, FreeInvalid(t) PROVE IInv'
  BY <1>5, FreeInvalidStep, StutterStep
<1>6. CASE UNCHANGED vars
  BY <1>6, StutterStep
<1>7. QED
  BY <1>1, <1>2, <1>3, <1>4, <1>5, <1>6 DEF Next

(* The inductive invariant of the pool and its threads.                    *)
THEOREM PoolInvariant == Spec => []IInv
BY InitInvariant, StepInvariant, PTL DEF Spec

(* The fields of the pool keep their types, in particular the ring's count *)
(* of free blocks its range (tdengine_old.c:371-372, 403-404).             *)
THEOREM TypeCorrect == Spec => []TypeOK
<1>1. IInv => TypeOK
  BY DEF IInv
<1>2. QED
  BY <1>1, PoolInvariant, PTL

(* No block is ever in the hands of two threads, or of one and in the ring *)
(* (tdengine_old.c:362-375, 387-409).                                      *)
THEOREM NoBlockIsShared == Spec => []NoSharedBlock
<1>1. IInv => NoSharedBlock
  BY DEF IInv
<1>2. QED
  BY <1>1, PoolInvariant, PTL

(* No block ever gets lost: it is held or it can be allocated.             *)
THEOREM NoBlockIsLost == Spec => []NoLostBlock
<1>1. IInv => NoLostBlock
  BY DEF IInv
<1>2. QED
  BY <1>1, PoolInvariant, PTL

(* The memset that memPoolMalloc does outside of its mutex never reaches   *)
(* another thread's data, nor shows a thread what others left              *)
(* (tdengine_old.c:375-376, 405).                                          *)
THEOREM OwnersSeeOwnData == Spec => []OwnDataOnly
<1>1. IInv => OwnDataOnly
  BY DEF IInv
<1>2. QED
  BY <1>1, PoolInvariant, PTL
-----------------------------------------------------------------------------
(* RingOrder is a sequence of as many blocks as are free.                  *)
RingOrderOK == /\ RingOrder \in Seq(Block)
               /\ Len(RingOrder) = numOfFree
               /\ \A k \in 1 .. numOfFree : RingOrder[k] = freeList[RingSlot(k - 1)]
               /\ numOfFree \in 0 .. NumOfBlock

(* The ring, read from its first slot on, is a sequence of blocks.         *)
LEMMA RingOrderType == PoolInv => RingOrderOK
<1> SUFFICES ASSUME PoolInv PROVE RingOrderOK
  OBVIOUS
<1>1. /\ freeList \in [Block -> Block] /\ first \in Block
      /\ numOfFree \in 0 .. NumOfBlock
  BY DEF PoolInv, PoolTypeOK
<1>2. \A k \in 1 .. numOfFree : RingSlot(k - 1) \in Block
  BY <1>1, RingSlotValue, MemPoolAssumption
<1>3. RingOrder \in [1 .. numOfFree -> Block]
  BY <1>1, <1>2 DEF RingOrder
<1>4. RingOrder \in Seq(Block) /\ Len(RingOrder) = numOfFree
  BY <1>1, <1>3, SeqDef
<1>5. QED
  BY <1>1, <1>4 DEF RingOrder, RingOrderOK

(* The ring starts as a queue of all the blocks.                           *)
LEMMA QueueInit == Init => Queue!Init
<1> SUFFICES ASSUME Init PROVE Queue!Init
  OBVIOUS
<1>1. PoolInv /\ FreeBlocks = Block
  BY PoolInit DEF Init
<1>2. Held = {}
  BY DEF Init, Held, HeldBy
<1>3. /\ RingOrder \in Seq(Block) /\ Len(RingOrder) = numOfFree
      /\ \A k \in 1 .. numOfFree : RingOrder[k] = freeList[RingSlot(k - 1)]
      /\ numOfFree \in Nat
  BY <1>1, RingOrderType DEF RingOrderOK
<1>4. ASSUME NEW b \in Block
      PROVE  \E i \in 1 .. Len(RingOrder) : RingOrder[i] = b
  <2>1. PICK k \in 0 .. numOfFree - 1 : b = freeList[RingSlot(k)]
    BY <1>1 DEF FreeBlocks
  <2>2. k + 1 \in 1 .. numOfFree /\ (k + 1) - 1 = k
    BY <1>3
  <2>3. RingOrder[k + 1] = b
    BY <2>1, <2>2, <1>3
  <2>4. QED
    BY <2>2, <2>3, <1>3
<1>5. ASSUME NEW i \in 1 .. numOfFree, NEW j \in 1 .. numOfFree,
             RingOrder[i] = RingOrder[j]
      PROVE  i = j
  <2>1. i - 1 \in 0 .. numOfFree - 1 /\ j - 1 \in 0 .. numOfFree - 1
    BY <1>3
  <2>2. i - 1 = j - 1
    BY <2>1, <1>1, <1>3, <1>5 DEF PoolInv, FreeListDistinct
  <2>3. QED
    BY <2>2
<1>6. QED
  BY <1>2, <1>3, <1>4, <1>5 DEF Queue!Init

(* memPoolMalloc takes the block at the head of the queue.                 *)
LEMMA TakeRefines ==
  ASSUME PoolInv, NEW b, memPoolMalloc(b), Held' = Held \union {b}
  PROVE  Queue!Take
<1>1. PoolInv' /\ numOfFree' = numOfFree - 1
      /\ \A k \in 0 .. numOfFree' - 1 : freeList'[RingSlot(k)'] = freeList[RingSlot(k + 1)]
  BY PoolMalloc
<1>2. /\ RingOrder \in Seq(Block) /\ Len(RingOrder) = numOfFree
      /\ \A k \in 1 .. numOfFree : RingOrder[k] = freeList[RingSlot(k - 1)]
      /\ numOfFree \in 0 .. NumOfBlock
  BY RingOrderType DEF RingOrderOK
<1>3. /\ RingOrder' \in Seq(Block) /\ Len(RingOrder') = numOfFree'
      /\ \A k \in 1 .. numOfFree' : RingOrder'[k] = freeList'[RingSlot(k - 1)']
  <2>1. RingOrderOK'
    BY <1>1, RingOrderType, PTL
  <2>2. QED
    BY <2>1 DEF RingOrderOK
<1>4. numOfFree \in 1 .. NumOfBlock /\ b = freeList[first]
  BY <1>2, MemPoolAssumption DEF memPoolMalloc
<1>5. RingOrder # <<>>
  BY <1>2, <1>4
<1>6. RingSlot(0) = first
  BY RingSlotValue, MemPoolAssumption DEF PoolInv, PoolTypeOK, Block
<1>7. Head(RingOrder) = b
  BY <1>2, <1>4, <1>6
<1>8. RingOrder' = Tail(RingOrder)
  <2>1. /\ Tail(RingOrder) \in Seq(Block) /\ Len(Tail(RingOrder)) = numOfFree - 1
        /\ \A i \in 1 .. numOfFree - 1 : Tail(RingOrder)[i] = RingOrder[i + 1]
    BY <1>2, <1>5, HeadTailProperties
  <2>2. ASSUME NEW i \in 1 .. numOfFree - 1
        PROVE  RingOrder'[i] = Tail(RingOrder)[i]
    <3>1. i - 1 \in 0 .. numOfFree' - 1 /\ i \in 1 .. numOfFree' /\ (i - 1) + 1 = i
      BY <1>1, <1>4
    <3>2. RingOrder'[i] = freeList[RingSlot(i)]
      BY <3>1, <1>1, <1>3
    <3>3. i + 1 \in 1 .. numOfFree /\ (i + 1) - 1 = i
      BY <1>4
    <3>4. RingOrder[i + 1] = freeList[RingSlot(i)]
      BY <3>3, <1>2
    <3>5. QED
      BY <2>1, <3>2, <3>4
  <2>3. QED
    BY <2>1, <2>2, <1>1, <1>3, SeqEqual
<1>9. QED
  BY <1>5, <1>7, <1>8 DEF Queue!Take

(* memPoolFree puts the block at the end of the queue.                     *)
LEMMA GiveRefines ==
  ASSUME PoolInv, NEW b \in Block \ FreeBlocks, b \in Held,
         memPoolFree(AddressOf(b)), Held' = Held \ {b}
  PROVE  Queue!Give(b)
<1>1. /\ PoolInv' /\ numOfFree' = numOfFree + 1
      /\ first' = first
      /\ freeList'[RingSlot(numOfFree)] = b
      /\ \A k \in 0 .. numOfFree - 1 : freeList'[RingSlot(k)] = freeList[RingSlot(k)]
  BY PoolFree
<1>2. /\ RingOrder \in Seq(Block) /\ Len(RingOrder) = numOfFree
      /\ \A k \in 1 .. numOfFree : RingOrder[k] = freeList[RingSlot(k - 1)]
      /\ numOfFree \in 0 .. NumOfBlock
  BY RingOrderType DEF RingOrderOK
<1>3. /\ RingOrder' \in Seq(Block) /\ Len(RingOrder') = numOfFree'
      /\ \A k \in 1 .. numOfFree' : RingOrder'[k] = freeList'[RingSlot(k - 1)']
  <2>1. RingOrderOK'
    BY <1>1, RingOrderType, PTL
  <2>2. QED
    BY <2>1 DEF RingOrderOK
<1>4. \A k \in Int : RingSlot(k)' = RingSlot(k)
  BY <1>1 DEF RingSlot
<1>5. /\ Append(RingOrder, b) \in Seq(Block)
      /\ Len(Append(RingOrder, b)) = numOfFree + 1
      /\ \A i \in 1 .. numOfFree : Append(RingOrder, b)[i] = RingOrder[i]
      /\ Append(RingOrder, b)[numOfFree + 1] = b
  BY <1>2, AppendProperties
<1>6. ASSUME NEW i \in 1 .. numOfFree + 1
      PROVE  RingOrder'[i] = Append(RingOrder, b)[i]
  <2>1. i - 1 \in Int /\ i \in 1 .. numOfFree'
    BY <1>1, <1>2
  <2>2. RingOrder'[i] = freeList'[RingSlot(i - 1)]
    BY <2>1, <1>3, <1>4
  <2>3. CASE i = numOfFree + 1
    <3>1. i - 1 = numOfFree
      BY <2>3, <1>2
    <3>2. QED
      BY <3>1, <2>2, <2>3, <1>1, <1>5
  <2>4. CASE i # numOfFree + 1
    <3>1. i \in 1 .. numOfFree /\ i - 1 \in 0 .. numOfFree - 1
      BY <2>4, <1>2
    <3>2. QED
      BY <3>1, <2>2, <1>1, <1>2, <1>5
  <2>5. QED
    BY <2>3, <2>4
<1>7. RingOrder' = Append(RingOrder, b)
  BY <1>1, <1>2, <1>3, <1>5, <1>6, SeqEqual
<1>8. QED
  BY <1>7 DEF Queue!Give

(* The pool and its threads implement a first-in first-out queue of free   *)
(* blocks, FreeQueue (tdengine_old.c:370-372, 403-404).                    *)
THEOREM PoolIsQueue == Spec => QueueSpec
<1>1. ASSUME IInv, [Next]_vars
      PROVE  [Queue!Next]_(Queue!queueVars)
  <2>1. PoolInv
    BY <1>1 DEF IInv, TypeOK, PoolInv
  <2>2. ASSUME UNCHANGED poolVars, Held' = Held
        PROVE  UNCHANGED Queue!queueVars
    BY <2>2 DEF Queue!queueVars, RingOrder, RingSlot, poolVars
  <2>3. ASSUME NEW t \in Thread, MallocTake(t)
        PROVE  Queue!Next
    BY <1>1, <2>1, <2>3, MallocTakeStep, TakeRefines DEF Queue!Next
  <2>4. ASSUME NEW t \in Thread, MallocClear(t)
        PROVE  UNCHANGED Queue!queueVars
    BY <1>1, <2>2, <2>4, MallocClearStep
  <2>5. ASSUME NEW t \in Thread, Write(t)
        PROVE  UNCHANGED Queue!queueVars
    BY <1>1, <2>2, <2>5, WriteStep
  <2>6. ASSUME NEW t \in Thread, Free(t)
        PROVE  Queue!Next
    BY <1>1, <2>1, <2>6, FreeStep, GiveRefines DEF Queue!Next
  <2>7. ASSUME NEW t \in Thread, FreeInvalid(t)
        PROVE  UNCHANGED Queue!queueVars
    BY <1>1, <2>2, <2>7, FreeInvalidStep, StutterStep
  <2>8. ASSUME UNCHANGED vars
        PROVE  UNCHANGED Queue!queueVars
    BY <1>1, <2>2, <2>8, StutterStep
  <2>9. QED
    BY <1>1, <2>3, <2>4, <2>5, <2>6, <2>7, <2>8 DEF Next
<1>2. QED
  BY <1>1, QueueInit, PoolInvariant, PTL DEF Spec, QueueSpec, Queue!Spec
=============================================================================
