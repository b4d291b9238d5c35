------------------------------- MODULE MemPool -------------------------------
(***************************************************************************)
(* The memory pool of ttimer/tdengine_old.c (pool_t, lines 14-22 and       *)
(* 313-419): numOfBlock blocks of blockSize bytes, and the indices of the  *)
(* free ones in a ring, freeList, of which `first' is the oldest entry and *)
(* numOfFree the number of entries.                                        *)
(*                                                                         *)
(* Every operator here is the critical section of one function, under      *)
(* pool_t.mutex; MemPoolThreads adds the threads that call them and        *)
(* TimerCtrl the timer controller that does.                               *)
(***************************************************************************)
EXTENDS Integers

CONSTANTS NumOfBlock,     \* blocks of the pool
          BlockSize       \* bytes of a block

(* memPoolInit refuses anything smaller.                                   *)
ASSUME MemPoolAssumption == /\ NumOfBlock \in Nat \ {0, 1}
                            /\ BlockSize \in Nat \ {0, 1}

Block == 0 .. NumOfBlock - 1

(* The address of a block, as an offset from pool_t.pool.                  *)
AddressOf(b) == b * BlockSize

VARIABLES freeList,       \* ring of the indices of the free blocks
          first,          \* the slot of the ring that is handed out next
          numOfFree       \* how many slots, from first on, are in use

poolVars == <<freeList, first, numOfFree>>

(* The slot k places after the first one, going round the ring.            *)
RingSlot(k) == (first + k) % NumOfBlock

(* The free blocks.                                                        *)
FreeBlocks == { freeList[RingSlot(k)] : k \in 0 .. numOfFree - 1 }

(* Mutants: the first slot stays; a block is put one place too early.      *)
SameFirst == first
SlotTooEarly == RingSlot(numOfFree - 1)

(* The slot that is handed out next after the first one, and the one a     *)
(* block comes back to.                                                    *)
NextFirst == RingSlot(1)
LastFree == RingSlot(numOfFree)

memPoolInit == /\ freeList = [i \in Block |-> i]
               /\ first = 0
               /\ numOfFree = NumOfBlock

(* memPoolMalloc finds a free block, b, and hands it out.                  *)
memPoolMalloc(b) == /\ numOfFree > 0
                    /\ b = freeList[first]
                    /\ first' = NextFirst
                    /\ numOfFree' = numOfFree - 1
                    /\ UNCHANGED freeList

(* memPoolMalloc runs out of memory and returns NULL.                      *)
memPoolOutOfMemory == /\ numOfFree <= 0
                      /\ UNCHANGED poolVars

(* Mutant: index > numOfBlock in place of index >= numOfBlock.             *)
AcceptsOnePast(a) == a % BlockSize = 0 /\ a \div BlockSize \in 0 .. NumOfBlock

(* memPoolFree of an address it accepts: a multiple of blockSize that      *)
(* falls on a block. Whether that block was handed out is not checked.     *)
AcceptedAddress(a) == a % BlockSize = 0 /\ a \div BlockSize \in Block

memPoolFree(a) ==
  \/ /\ AcceptedAddress(a)
     /\ freeList' = [freeList EXCEPT ![LastFree] = a \div BlockSize]
     /\ numOfFree' = numOfFree + 1
     /\ UNCHANGED first
  \/ /\ ~ AcceptedAddress(a)
     /\ UNCHANGED poolVars

PoolTypeOK == /\ freeList \in [Block -> Block]
              /\ first \in Block
              /\ numOfFree \in 0 .. NumOfBlock

(* The slots in use hold different blocks.                                 *)
FreeListDistinct ==
  \A j, k \in 0 .. numOfFree - 1 :
     freeList[RingSlot(j)] = freeList[RingSlot(k)] => j = k

=============================================================================
