---------------------------- MODULE MemPoolLemmas ----------------------------
(***************************************************************************)
(* What the operations of the memory pool of ttimer/tdengine_old.c do to   *)
(* its ring, for any number of blocks of any size. Each lemma is about one *)
(* critical section; MemPoolProofs and TimerCtrlProofs cite them.          *)
(***************************************************************************)
EXTENDS MemPool, FiniteSetTheorems, TLAPS

(* The ring's slots are spelled out in every proof.                       *)
USE DEF NextFirst, LastFree

(* The pool's fields have their types and no block is in the ring twice.   *)
PoolInv == PoolTypeOK /\ FreeListDistinct

(* Within two turns, the remainder is one conditional subtraction.         *)
LEMMA RemainderOfTwoTurns ==
  ASSUME NEW a \in 0 .. 2 * NumOfBlock - 1
  PROVE  a % NumOfBlock = IF a < NumOfBlock THEN a ELSE a - NumOfBlock
BY MemPoolAssumption, SMTT(30)

(* The slot that the ring reaches is one place further, or back at the     *)
(* start: the modulo of memPoolMalloc and memPoolFree leaves no other.     *)
LEMMA RingSlotValue ==
  ASSUME first \in Block, NEW k \in 0 .. NumOfBlock
  PROVE  /\ RingSlot(k) = IF first + k < NumOfBlock THEN first + k
                                                    ELSE first + k - NumOfBlock
         /\ RingSlot(k) \in Block
BY MemPoolAssumption, SMTT(30) DEF RingSlot, Block

(* The slots of one turn of the ring are all different.                    *)
LEMMA RingSlotInjective ==
  ASSUME first \in Block, NEW j \in 0 .. NumOfBlock - 1, NEW k \in 0 .. NumOfBlock - 1,
         RingSlot(j) = RingSlot(k)
  PROVE  j = k
BY RingSlotValue, MemPoolAssumption DEF Block

(* An address computed from a block is accepted by memPoolFree and names   *)
(* that block again.                                                       *)
LEMMA AddressRoundTrip ==
  ASSUME NEW b \in Block
  PROVE  AcceptedAddress(AddressOf(b)) /\ AddressOf(b) \div BlockSize = b
<1>1. (b * BlockSize) % BlockSize = 0 /\ (b * BlockSize) \div BlockSize = b
  BY MemPoolAssumption, SMTT(30) DEF Block
<1>2. QED
  BY <1>1 DEF AcceptedAddress, AddressOf

(* memPoolInit leaves every block free.                                    *)
LEMMA PoolInit ==
  ASSUME memPoolInit
  PROVE  PoolInv /\ FreeBlocks = Block
<1>1. PoolTypeOK
  BY MemPoolAssumption DEF memPoolInit, PoolTypeOK, Block
<1>2. \A k \in Block : RingSlot(k) = k
  BY <1>1, RingSlotValue, MemPoolAssumption DEF memPoolInit, PoolTypeOK, Block
<1>3. \A k \in Block : freeList[RingSlot(k)] = k
  BY <1>2 DEF memPoolInit
<1>4. 0 .. numOfFree - 1 = Block
  BY DEF memPoolInit, Block
<1>5. QED
  BY <1>1, <1>3, <1>4 DEF PoolInv, FreeListDistinct, FreeBlocks

(* The free blocks are blocks; as many are free as numOfFree says, in that *)
(* the ring is full exactly when no block is missing from it.              *)
LEMMA FullRing ==
  ASSUME PoolInv
  PROVE  /\ FreeBlocks \subseteq Block
         /\ numOfFree = NumOfBlock => FreeBlocks = Block
<1>1. /\ freeList \in [Block -> Block] /\ first \in Block
      /\ numOfFree \in 0 .. NumOfBlock
  BY DEF PoolInv, PoolTypeOK
<1>2. \A k \in 0 .. numOfFree - 1 : RingSlot(k) \in Block
  BY <1>1, RingSlotValue, MemPoolAssumption
<1>3. FreeBlocks \subseteq Block
  BY <1>1, <1>2 DEF FreeBlocks
<1>4. ASSUME numOfFree = NumOfBlock
      PROVE  FreeBlocks = Block
  <2> DEFINE f == [k \in Block |-> freeList[RingSlot(k)]]
  <2>1. Block = 0 .. numOfFree - 1
    BY <1>4 DEF Block
  <2>2. f \in Injection(Block, Block)
    BY <1>1, <1>2, <2>1 DEF Injection, IsInjective, PoolInv, FreeListDistinct
  <2>3. IsFiniteSet(Block)
    BY FS_Interval, MemPoolAssumption DEF Block
  <2>4. f \in Surjection(Block, Block)
    BY <2>2, <2>3, FS_Injection
  <2>5. \A b \in Block : \E k \in Block : f[k] = b
    BY <2>4 DEF Surjection
  <2>6. Block \subseteq FreeBlocks
    BY <2>5, <2>1 DEF FreeBlocks
  <2>7. QED
    BY <2>6, <1>3
<1>5. QED
  BY <1>3, <1>4

(* memPoolMalloc takes one block out of the ring and disturbs no other.    *)
LEMMA PoolMalloc ==
  ASSUME PoolInv, NEW b, memPoolMalloc(b)
  PROVE  /\ PoolInv'
         /\ b \in FreeBlocks
         /\ FreeBlocks' = FreeBlocks \ {b}
         /\ numOfFree' = numOfFree - 1
         /\ \A k \in 0 .. numOfFree' - 1 :
               freeList'[RingSlot(k)'] = freeList[RingSlot(k + 1)]
<1>1. /\ freeList \in [Block -> Block] /\ first \in Block
      /\ numOfFree \in 1 .. NumOfBlock
  BY DEF PoolInv, PoolTypeOK, memPoolMalloc
<1>2. /\ freeList' = freeList /\ first' = RingSlot(1)
      /\ numOfFree' = numOfFree - 1 /\ b = freeList[first]
  BY DEF memPoolMalloc
<1>3. first' \in Block
  BY <1>1, <1>2, RingSlotValue, MemPoolAssumption
<1>4. \A k \in 0 .. NumOfBlock - 1 : RingSlot(k)' = RingSlot(k + 1)
  <2> TAKE k \in 0 .. NumOfBlock - 1
  <2>1. RingSlot(k)' = (RingSlot(1) + k) % NumOfBlock
    BY <1>2 DEF RingSlot
  <2>2. (RingSlot(1) + k) % NumOfBlock = RingSlot(k + 1)
    <3> DEFINE a == RingSlot(1) + k
    <3>1. RingSlot(1) = IF first + 1 < NumOfBlock THEN first + 1 ELSE 0
      BY <1>1, RingSlotValue, MemPoolAssumption DEF Block
    <3>2. a = IF first + 1 < NumOfBlock THEN first + 1 + k ELSE k
      BY <3>1, <1>1 DEF Block
    <3>3. a \in 0 .. 2 * NumOfBlock - 1
      BY <3>2, <1>1, MemPoolAssumption DEF Block
    <3> HIDE DEF a
    <3>4. a % NumOfBlock = IF a < NumOfBlock THEN a ELSE a - NumOfBlock
      BY <3>3, RemainderOfTwoTurns
    <3>5. k + 1 \in 0 .. NumOfBlock
      BY MemPoolAssumption
    <3>6. RingSlot(k + 1) = IF first + (k + 1) < NumOfBlock THEN first + (k + 1)
                                              ELSE first + (k + 1) - NumOfBlock
      BY <1>1, <3>5, RingSlotValue
    <3>7. a % NumOfBlock = RingSlot(k + 1)
      BY <3>2, <3>4, <3>6, <1>1, MemPoolAssumption DEF Block
    <3>8. QED
      BY <3>7 DEF a
  <2>3. QED
    BY <2>1, <2>2
<1>5. \A k \in 0 .. numOfFree' - 1 : freeList'[RingSlot(k)'] = freeList[RingSlot(k + 1)]
  BY <1>1, <1>2, <1>4, MemPoolAssumption
<1>6. RingSlot(0) = first
  BY <1>1, RingSlotValue, MemPoolAssumption DEF Block
<1>7. FreeListDistinct
  BY DEF PoolInv
<1>8. FreeListDistinct'
  BY <1>1, <1>2, <1>5, <1>7 DEF FreeListDistinct
<1>9. b \in FreeBlocks
  BY <1>1, <1>2, <1>6 DEF FreeBlocks
<1>10. \A k \in 0 .. numOfFree' - 1 : freeList[RingSlot(k + 1)] # b
  BY <1>1, <1>2, <1>6, <1>7 DEF FreeListDistinct
<1>11. FreeBlocks' = { freeList[RingSlot(k + 1)] : k \in 0 .. numOfFree' - 1 }
  BY <1>5 DEF FreeBlocks
<1>12. ASSUME NEW c \in FreeBlocks'
       PROVE  c \in FreeBlocks \ {b}
  <2>1. PICK k \in 0 .. numOfFree' - 1 : c = freeList[RingSlot(k + 1)]
    BY <1>11
  <2>2. k + 1 \in 0 .. numOfFree - 1
    BY <1>1, <1>2
  <2>3. QED
    BY <2>1, <2>2, <1>10 DEF FreeBlocks
<1>13. ASSUME NEW c \in FreeBlocks, c # b
       PROVE  c \in FreeBlocks'
  <2>1. PICK k \in 0 .. numOfFree - 1 : c = freeList[RingSlot(k)]
    BY DEF FreeBlocks
  <2>2. k # 0
    BY <2>1, <1>2, <1>6, <1>13
  <2>3. k - 1 \in 0 .. numOfFree' - 1 /\ (k - 1) + 1 = k
    BY <2>2, <1>1, <1>2
  <2>4. QED
    BY <2>1, <2>3, <1>11
<1>14. PoolTypeOK'
  BY <1>1, <1>2, <1>3, MemPoolAssumption DEF PoolTypeOK
<1>15. QED
  BY <1>2, <1>5, <1>8, <1>9, <1>12, <1>13, <1>14 DEF PoolInv

(* memPoolFree of a block that is not in the ring appends it, disturbs no  *)
(* other, and never finds the ring full.                                   *)
LEMMA PoolFree ==
  ASSUME PoolInv, NEW b \in Block \ FreeBlocks, memPoolFree(AddressOf(b))
  PROVE  /\ PoolInv'
         /\ FreeBlocks' = FreeBlocks \union {b}
         /\ numOfFree' = numOfFree + 1
         /\ first' = first
         /\ freeList'[RingSlot(numOfFree)] = b
         /\ \A k \in 0 .. numOfFree - 1 : freeList'[RingSlot(k)] = freeList[RingSlot(k)]
<1>1. /\ freeList \in [Block -> Block] /\ first \in Block
      /\ numOfFree \in 0 .. NumOfBlock
  BY DEF PoolInv, PoolTypeOK
<1>2. numOfFree \in 0 .. NumOfBlock - 1
  BY <1>1, FullRing, MemPoolAssumption
<1>3. /\ freeList' = [freeList EXCEPT ![RingSlot(numOfFree)] = b]
      /\ numOfFree' = numOfFree + 1 /\ first' = first
  BY AddressRoundTrip DEF memPoolFree
<1>4. \A k \in 0 .. NumOfBlock - 1 : RingSlot(k)' = RingSlot(k)
  BY <1>3 DEF RingSlot
<1>5. \A k \in 0 .. NumOfBlock - 1 : RingSlot(k) \in Block
  BY <1>1, RingSlotValue, MemPoolAssumption
<1>6. freeList'[RingSlot(numOfFree)] = b
  BY <1>1, <1>2, <1>3, <1>5
<1>7. \A k \in 0 .. numOfFree - 1 : freeList'[RingSlot(k)] = freeList[RingSlot(k)]
  <2> TAKE k \in 0 .. numOfFree - 1
  <2>1. RingSlot(k) # RingSlot(numOfFree)
    BY <1>1, <1>2, RingSlotInjective, MemPoolAssumption
  <2>2. QED
    BY <2>1, <1>1, <1>2, <1>3, <1>5
<1>8. PoolTypeOK'
  BY <1>1, <1>2, <1>3, <1>5, MemPoolAssumption DEF PoolTypeOK
<1>9. \A k \in 0 .. numOfFree - 1 : freeList[RingSlot(k)] # b
  BY DEF FreeBlocks
<1>10. \A k \in 0 .. numOfFree : freeList'[RingSlot(k)']
                                   = IF k = numOfFree THEN b ELSE freeList[RingSlot(k)]
  BY <1>2, <1>4, <1>6, <1>7, MemPoolAssumption
<1>11. FreeListDistinct
  BY DEF PoolInv
<1>12. FreeListDistinct'
  BY <1>2, <1>3, <1>9, <1>10, <1>11 DEF FreeListDistinct
<1>13. FreeBlocks' = { freeList'[RingSlot(k)'] : k \in 0 .. numOfFree }
  BY <1>2, <1>3 DEF FreeBlocks
<1>14. FreeBlocks' = FreeBlocks \union {b}
  <2>1. \A c \in FreeBlocks' : c \in FreeBlocks \/ c = b
    BY <1>2, <1>10, <1>13 DEF FreeBlocks
  <2>2. \A c \in FreeBlocks : c \in FreeBlocks'
    <3> TAKE c \in FreeBlocks
    <3>1. PICK k \in 0 .. numOfFree - 1 : c = freeList[RingSlot(k)]
      BY DEF FreeBlocks
    <3>2. k \in 0 .. numOfFree /\ c = freeList'[RingSlot(k)']
      BY <3>1, <1>2, <1>10
    <3>3. QED
      BY <3>2, <1>13
  <2>3. b \in FreeBlocks'
    BY <1>2, <1>10, <1>13
  <2>4. QED
    BY <2>1, <2>2, <2>3
<1>15. QED
  BY <1>3, <1>6, <1>7, <1>8, <1>12, <1>14 DEF PoolInv

(* An address that is no block's changes nothing.                          *)
LEMMA PoolFreeRefused ==
  ASSUME NEW a, ~ AcceptedAddress(a), memPoolFree(a)
  PROVE  UNCHANGED poolVars
BY DEF memPoolFree

(* What a stuttering step of the pool leaves as it was.                    *)
LEMMA PoolUnchanged ==
  ASSUME UNCHANGED poolVars
  PROVE  /\ PoolInv => PoolInv'
         /\ FreeBlocks' = FreeBlocks
         /\ numOfFree' = numOfFree
BY DEF poolVars, PoolInv, PoolTypeOK, FreeListDistinct, FreeBlocks, RingSlot
=============================================================================
