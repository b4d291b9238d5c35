------------------------------ MODULE NamedPipe -------------------------------
(***************************************************************************)
(* named_pipe/Server.cpp and Client.cpp: a server that writes blocks to a  *)
(* FIFO, with a pause before each, and clients that read from it without   *)
(* waiting. The sizes are counted in bytes: a block has BufSize of them.   *)
(*                                                                         *)
(* What open, read and write do to a FIFO is the kernel's: a writer waits  *)
(* in open until a reader has come, and counts as a writer while it waits; *)
(* what is in the pipe goes when nobody has it open.                       *)
(***************************************************************************)
EXTENDS Integers, FiniteSets, Processes

CONSTANTS Client,           \* the runs of Client.cpp
          BufSize,          \* BUF_SIZE
          MaxBlocks,        \* MAX_SIZE of the server, in blocks
          Capacity          \* the blocks the kernel keeps for a pipe

VARIABLES fifo,             \* FIFO_NAME exists
          met,              \* a reader has come since the server began to open
          buffered,         \* blocks in the pipe
          sent,             \* bytes_send of the server, in blocks
          bytes_read        \* bytes_read of each client

pipeVars == <<fifo, met, buffered, sent, bytes_read>>

Server == <<"pipe", "server">>

(* A block is longer than the byte a count can be short of.                *)
ASSUME PipeAssumption == /\ BufSize \in Nat \ {0, 1}
                         /\ MaxBlocks \in Nat /\ Capacity \in Nat
                         /\ Server \notin Client

PipeStart == [ p \in {Server} \union Client |-> IF p = Server THEN "access" ELSE "open" ]
PipeInit == /\ fifo \in BOOLEAN
            /\ met = FALSE
            /\ buffered = 0 /\ sent = 0
            /\ bytes_read = [c \in Client |-> 0]

Readers == { c \in Client : at[c] \in {"read", "close"} }
HasWriter == at[Server] \in {"opening", "loop"}
-----------------------------------------------------------------------------
(* The server makes the FIFO unless it is there.                           *)
MakeFifo == /\ \/ Step(Server, "access", "open") /\ fifo' = TRUE
               \/ ~fifo /\ Fails(Server, "access") /\ UNCHANGED fifo
            /\ UNCHANGED <<met, buffered, sent, bytes_read>>

(* The server's open, which fails or waits for a reader.                   *)
OpenForWriting == /\ \/ Step(Server, "open", "opening") /\ met' = (Readers # {})
                     \/ Fails(Server, "open") /\ UNCHANGED met
                     \/ met /\ Step(Server, "opening", "loop") /\ UNCHANGED met
                  /\ UNCHANGED <<fifo, buffered, sent, bytes_read>>

(* Mutant: SIGPIPE is ignored, and the write is tried again for ever.      *)
TriesAgain == Step(Server, "loop", "loop") /\ UNCHANGED buffered

(* A write without a reader ends the server (SIGPIPE).                     *)
BrokenPipe == Step(Server, "loop", "killed") /\ buffered' = 0

(* One round of the server's loop. With a full pipe the write waits; one   *)
(* that fails for another reason is tried again and changes nothing.       *)
WriteBlock == /\ sent < MaxBlocks
              /\ \/ /\ Readers # {}
                    /\ buffered < Capacity
                    /\ Step(Server, "loop", "loop")
                    /\ buffered' = buffered + 1
                    /\ sent' = sent + 1
                 \/ /\ Readers = {}
                    /\ BrokenPipe
                    /\ UNCHANGED sent
              /\ UNCHANGED <<fifo, met, bytes_read>>

CloseWriter == /\ sent = MaxBlocks
               /\ Step(Server, "loop", "ended")
               /\ buffered' = IF Readers = {} THEN 0 ELSE buffered
               /\ UNCHANGED <<fifo, met, sent, bytes_read>>

(* The client's open does not wait.                                        *)
OpenForReading(c) == /\ \/ fifo /\ Step(c, "open", "read") /\ met' = TRUE
                        \/ /\ Fails(c, "open") \/ (~fifo /\ Step(c, "open", "failed"))
                           /\ UNCHANGED met
                     /\ UNCHANGED <<fifo, buffered, sent, bytes_read>>

(* Mutants: what was not read is not counted, or is as a whole buffer.     *)
CountsReadOnly(c, res) == IF res > 0 THEN bytes_read[c] + res ELSE bytes_read[c]
CountsBuffers(c, res) == bytes_read[c] + BufSize

(* What a read returns is added, -1 for an empty pipe (EAGAIN) as well.    *)
Counted(c, res) == bytes_read[c] + res

(* One round of the client's loop: a block, -1 when there is a writer but  *)
(* nothing to read, or 0 when there is neither, which both end the loop.   *)
ReadBlock(c) == /\ IF buffered > 0
                     THEN /\ Step(c, "read", "read")
                          /\ buffered' = buffered - 1
                          /\ bytes_read' = [bytes_read EXCEPT ![c] = Counted(c, BufSize)]
                     ELSE /\ Step(c, "read", "close")
                          /\ LET res == IF HasWriter THEN -1 ELSE 0
                             IN  bytes_read' = [bytes_read EXCEPT ![c] = Counted(c, res)]
                          /\ UNCHANGED buffered
                /\ UNCHANGED <<fifo, met, sent>>

CloseReader(c) == /\ Step(c, "close", "ended")
                  /\ buffered' = IF Readers = {c} /\ ~HasWriter THEN 0 ELSE buffered
                  /\ UNCHANGED <<fifo, met, sent, bytes_read>>

ServerMain == MakeFifo \/ OpenForWriting \/ WriteBlock \/ CloseWriter
ClientMain(c) == OpenForReading(c) \/ ReadBlock(c) \/ CloseReader(c)
PipeNext == ServerMain \/ \E c \in Client : ClientMain(c)
-----------------------------------------------------------------------------
(* Types of the pipe, the counts and the steps.                            *)
PipeTypeOK == /\ fifo \in BOOLEAN /\ met \in BOOLEAN
              /\ buffered \in 0 .. Capacity
              /\ sent \in 0 .. MaxBlocks
              /\ bytes_read \in [Client -> -1 .. MaxBlocks * BufSize]
              /\ at[Server] \in {"access", "open", "opening", "loop"} \union Over
              /\ \A c \in Client : at[c] \in {"open", "read", "close"} \union Over

(* The blocks each client has read: its count may be one too small.        *)
BlocksRead ==
  { b \in Client \X (1 .. MaxBlocks) : b[2] * BufSize <= bytes_read[b[1]] + 1 }

(* The clients that say they have seen the end: their count is of whole    *)
(* blocks, and of one at least.                                            *)
ToldTheEnd ==
  { c \in Client : /\ at[c] \in {"close", "ended"}
                   /\ bytes_read[c] > 0 /\ bytes_read[c] % BufSize = 0 }

(* A client whose count is of whole blocks, and of one at least, has seen  *)
(* the end and not a pause: the server is done, and the clients have read  *)
(* all it had to send. One that took a pause for the end says so by a      *)
(* count that is one too small (Client.cpp:23-29, Server.cpp:29-38).       *)
WholeBlocksMeanTheEnd ==
  ToldTheEnd # {} => at[Server] = "ended" /\ Cardinality(BlocksRead) = MaxBlocks

(* What the pipe is for the two programs: BlockStream, in which there are  *)
(* no counts in bytes, and no client that takes a pause for the end.       *)
Stream == INSTANCE BlockStream
            WITH written <- sent, queued <- buffered, taken <- BlocksRead,
                 lost <- sent - buffered - Cardinality(BlocksRead),
                 readers <- Readers, writers <- { p \in {Server} : at[p] \notin Over },
                 told <- ToldTheEnd

(* Every block the server sends goes to one client, in full and once, or   *)
(* is lost when the pipe is left by all, and the counts of the clients say *)
(* how many have come (Server.cpp:25-38, Client.cpp:18-30).                *)
PipeIsAStream == Stream!Spec

(* A server that a reader has let in comes to an end, however early its    *)
(* readers leave (Server.cpp:27-38).                                       *)
ServerEnds == at[Server] = "loop" ~> at[Server] \in {"ended", "killed"}
=============================================================================
