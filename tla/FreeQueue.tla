------------------------------ MODULE FreeQueue ------------------------------
(***************************************************************************)
(* What the memory pool of ttimer/tdengine_old.c promises to its callers,  *)
(* without the ring buffer it uses to keep the promise: free blocks wait   *)
(* in a first-in first-out queue, an allocation hands out the block that   *)
(* has been free for longest, and a block that is handed out leaves the    *)
(* queue until it is given back.                                           *)
(***************************************************************************)
EXTENDS Sequences, Naturals

CONSTANT Block            \* the blocks of the pool

VARIABLES queue,          \* the free blocks, the longest free first
          held            \* the blocks the callers hold

queueVars == <<queue, held>>

(* Every block is free, in an order of the implementation's choice.        *)
Init == /\ queue \in Seq(Block)
        /\ \A b \in Block : \E i \in 1 .. Len(queue) : queue[i] = b
        /\ \A i, j \in 1 .. Len(queue) : queue[i] = queue[j] => i = j
        /\ held = {}

(* An allocation: refused, with nothing changed, when the queue is empty.  *)
Take == /\ queue # <<>>
        /\ held' = held \union {Head(queue)}
        /\ queue' = Tail(queue)

(* A block comes back and waits behind every block that is already free.   *)
Give(b) == /\ b \in held
           /\ held' = held \ {b}
           /\ queue' = Append(queue, b)

Next == Take \/ \E b \in Block : Give(b)

Spec == Init /\ [][Next]_queueVars
==============================================================================
