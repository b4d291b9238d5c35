----------------------------- MODULE BlockStream -----------------------------
(***************************************************************************)
(* What the programs of named_pipe/ make of a FIFO, with no descriptors,   *)
(* counts in bytes or names: a stream of blocks from one writer to readers *)
(* that come and go. Each block is taken by one reader or is in the        *)
(* stream. What is in it is lost only when the writer has closed and no    *)
(* reader is left, and a reader that is told of the end can be certain     *)
(* that nothing is missing.                                                *)
(***************************************************************************)
EXTENDS Integers

CONSTANTS Client,         \* the readers
          MaxBlocks,      \* the blocks the writer has
          Capacity        \* the blocks the stream can hold

VARIABLES written,        \* the blocks that have been written
          queued,         \* those of them that are in the stream
          taken,          \* <<c, b>>: the reader c has taken its block number b
          lost,           \* the blocks that nobody has taken and nobody can
          readers,        \* who has the stream open for reading
          writers,        \* the writer, until it closes or gives up
          told            \* the readers that know they have seen the end

streamVars == <<written, queued, taken, lost, readers, writers, told>>

Init == /\ written = 0 /\ queued = 0 /\ lost = 0
        /\ taken = {} /\ readers = {} /\ told = {}
        /\ writers # {}

Open(c) == /\ readers' = readers \union {c}
           /\ UNCHANGED <<written, queued, taken, lost, writers, told>>

Write == /\ writers # {} /\ readers # {}
         /\ written < MaxBlocks /\ queued < Capacity
         /\ written' = written + 1
         /\ queued' = queued + 1
         /\ UNCHANGED <<taken, lost, readers, writers, told>>

(* A reader takes its next block, which nobody else gets.                  *)
Take(c) == /\ c \in readers /\ c \notin told
           /\ queued > 0
           /\ queued' = queued - 1
           /\ \E b \in 1 .. MaxBlocks :
                /\ \A a \in 1 .. MaxBlocks : <<c, a>> \in taken <=> a < b
                /\ taken' = taken \union {<<c, b>>}
           /\ UNCHANGED <<written, lost, readers, writers, told>>

(* A reader is told of the end: all blocks there are have been taken.      *)
Tell(c) == /\ c \in readers
           /\ writers = {} /\ written = MaxBlocks /\ queued = 0 /\ lost = 0
           /\ told' = told \union {c}
           /\ UNCHANGED <<written, queued, taken, lost, readers, writers>>

(* With the last process goes what is in the stream.                       *)
LoseWhatIsLeft == IF readers' = {} /\ writers' = {}
                    THEN queued' = 0 /\ lost' = lost + queued
                    ELSE UNCHANGED <<queued, lost>>

Leave(c) == /\ c \in readers /\ readers' = readers \ {c}
            /\ UNCHANGED <<written, taken, writers, told>>
            /\ LoseWhatIsLeft

(* The writer closes: it has not begun, it has written everything, or it   *)
(* has nobody to write to.                                                 *)
Close == /\ writers # {} /\ writers' = {}
         /\ written \in {0, MaxBlocks} \/ readers = {}
         /\ UNCHANGED <<written, taken, readers, told>>
         /\ LoseWhatIsLeft

Next == \/ Write \/ Close
        \/ \E c \in Client : Open(c) \/ Take(c) \/ Tell(c) \/ Leave(c)

Spec == Init /\ [][Next]_streamVars
=============================================================================
