---------------------------- MODULE MemPoolThreads ----------------------------
(***************************************************************************)
(* Threads that allocate from and free to one memory pool of               *)
(* ttimer/tdengine_old.c. memPoolMalloc takes its block under pool_t.mutex *)
(* and clears it after unlocking (lines 375-376), so that an allocation is *)
(* two steps; memPoolFree does everything, the clearing included, under    *)
(* the mutex and is one.                                                   *)
(***************************************************************************)
EXTENDS MemPool, Sequences

CONSTANTS Thread,         \* the threads that use the pool
          NoBlock,        \* a thread is not clearing any block
          BadAddress      \* addresses that are no block's, passed to memPoolFree

ASSUME ThreadsAssumption ==
  /\ NoBlock \notin Block
  /\ BadAddress \subseteq Int
  /\ \A b \in Block : AddressOf(b) \notin BadAddress

VARIABLES clearing,       \* the block a thread took and has still to clear
          owned,          \* the blocks memPoolMalloc returned to a thread
          memory          \* what a block's bytes are: "junk" as malloc left
                          \* them, "zero", or what a thread wrote

vars == <<freeList, first, numOfFree, clearing, owned, memory>>

Init == /\ memPoolInit
        /\ clearing = [t \in Thread |-> NoBlock]
        /\ owned = [t \in Thread |-> {}]
        /\ memory = [b \in Block |-> "junk"]

(* memPoolMalloc, lines 362-375: the critical section.                     *)
MallocTake(t) ==
  /\ clearing[t] = NoBlock
  /\ \E b \in Block :
       /\ memPoolMalloc(b)
       /\ clearing' = [clearing EXCEPT ![t] = b]
  /\ UNCHANGED <<owned, memory>>

(* Mutant: the block is returned as it was, without the memset.            *)
MallocReturns(t) ==
  /\ clearing[t] # NoBlock
  /\ owned' = [owned EXCEPT ![t] = @ \union {clearing[t]}]
  /\ clearing' = [clearing EXCEPT ![t] = NoBlock]
  /\ UNCHANGED <<freeList, first, numOfFree, memory>>

(* memPoolMalloc, lines 376-377: memset of the block, and return.          *)
MallocClear(t) ==
  /\ clearing[t] # NoBlock
  /\ memory' = [memory EXCEPT ![clearing[t]] = "zero"]
  /\ owned' = [owned EXCEPT ![t] = @ \union {clearing[t]}]
  /\ clearing' = [clearing EXCEPT ![t] = NoBlock]
  /\ UNCHANGED poolVars

(* The caller writes to a block it owns.                                   *)
Write(t) ==
  /\ clearing[t] = NoBlock
  /\ \E b \in owned[t] : memory' = [memory EXCEPT ![b] = t]
  /\ UNCHANGED <<freeList, first, numOfFree, clearing, owned>>

(* memPoolFree of a block the caller owns: under the mutex the block goes  *)
(* to the end of the ring and is cleared.                                  *)
Free(t) ==
  /\ clearing[t] = NoBlock
  /\ \E b \in owned[t] :
       /\ memPoolFree(AddressOf(b))
       /\ owned' = [owned EXCEPT ![t] = @ \ {b}]
       /\ memory' = [memory EXCEPT ![b] = "zero"]
  /\ UNCHANGED clearing

(* memPoolFree of an address that is no block's.                           *)
FreeInvalid(t) ==
  /\ clearing[t] = NoBlock
  /\ \E a \in BadAddress : memPoolFree(a)
  /\ UNCHANGED <<clearing, owned, memory>>

Next == \E t \in Thread :
           MallocTake(t) \/ MallocClear(t) \/ Write(t) \/ Free(t) \/ FreeInvalid(t)

Spec == Init /\ [][Next]_vars
-----------------------------------------------------------------------------
(* The blocks a thread has, returned to it or about to be.                 *)
HeldBy(t) == owned[t] \union ({clearing[t]} \ {NoBlock})

Held == UNION { HeldBy(t) : t \in Thread }

(* Types of pool_t's fields and of the threads' local variables.           *)
TypeOK == /\ PoolTypeOK
          /\ clearing \in [Thread -> Block \union {NoBlock}]
          /\ owned \in [Thread -> SUBSET Block]
          /\ memory \in [Block -> {"junk", "zero"} \union Thread]

(* memPoolMalloc never hands one block to two threads, nor a block that is *)
(* still in the ring, however the two-step allocations and the frees of    *)
(* the threads interleave (tdengine_old.c:362-376).                        *)
NoSharedBlock ==
  /\ \A t, u \in Thread : t # u => HeldBy(t) \intersect HeldBy(u) = {}
  /\ \A t \in Thread : /\ HeldBy(t) \intersect FreeBlocks = {}
                       /\ clearing[t] \notin owned[t]

(* No block is lost: one that is in no thread's hands can be allocated.    *)
NoLostBlock == Block \subseteq Held \union FreeBlocks

(* A thread finds in a block it owns zeros or what it wrote there itself,  *)
(* never what an earlier or another owner left: the memset that            *)
(* memPoolMalloc does after unlocking comes neither too late for the       *)
(* caller nor on top of another owner's data (tdengine_old.c:375-376, 405).*)
OwnDataOnly ==
  \A t \in Thread : \A b \in owned[t] : memory[b] \in {"zero", t}

(* The free blocks in the order in which the ring will hand them out.      *)
RingOrder == [k \in 1 .. numOfFree |-> freeList[RingSlot(k - 1)]]

(* The ring is a first-in first-out queue of the free blocks: the block    *)
(* that memPoolMalloc returns is the one that was freed longest ago        *)
(* (tdengine_old.c:370-372, 403-404).                                      *)
Queue == INSTANCE FreeQueue WITH queue <- RingOrder, held <- Held

QueueSpec == Queue!Spec
=============================================================================
