-------------------------- MODULE ProgramsDataProofs --------------------------
(***************************************************************************)
(* The data of the repository's small programs: the blocks that go through *)
(* the named pipe, the sockets of the reuse experiments and the containers *)
(* of the practical exercises, for any number of clients, blocks and       *)
(* elements; and the types of everything.                                  *)
(***************************************************************************)
EXTENDS ProgramsProofs, DataLemmas

(* Blocks are counted in bytes: a count that is one too small is still one *)
(* of as many blocks.                                                      *)
LEMMA WholeBlocks ==
  ASSUME NEW k \in Nat, NEW b \in Nat
  PROVE  /\ b * BufSize <= k * BufSize + 1 <=> b <= k
         /\ b * BufSize <= (k * BufSize - 1) + 1 <=> b <= k
<1>1. BufSize \in Nat /\ BufSize >= 2
  BY PipeAssumption
<1>2. CASE b <= k
  <2>1. PICK d \in Nat : k = b + d
    BY <1>2
  <2>2. k * BufSize = b * BufSize + d * BufSize /\ d * BufSize >= 0
    BY <1>1, <2>1
  <2>3. QED
    BY <1>1, <1>2, <2>2
<1>3. CASE b > k
  <2>1. PICK d \in Nat : b = k + 1 + d
    <3>1. b - k - 1 \in Nat /\ b = k + 1 + (b - k - 1)
      BY <1>3
    <3>2. QED
      BY <3>1
  <2>2. b * BufSize = k * BufSize + BufSize + d * BufSize /\ d * BufSize >= 0
    BY <1>1, <2>1
  <2>3. b * BufSize \in Int /\ k * BufSize \in Int /\ d * BufSize \in Int
    BY <1>1, <2>1
  <2>4. QED
    BY <1>1, <1>3, <2>2, <2>3
<1>4. QED
  BY <1>2, <1>3

(* A client has read k blocks: its count is theirs, or one too small once  *)
(* it has ended its loop.                                                  *)
HasReadBlocks(c, k) ==
  \/ bytes_read[c] = k * BufSize
  \/ at[c] \in {"close", "ended"} /\ bytes_read[c] = k * BufSize - 1

(* Of the blocks there are, a client that has read k of them has the first *)
(* k.                                                                      *)
LEMMA BlocksOfClient ==
  ASSUME NEW c \in Client, NEW k \in 0 .. MaxBlocks, HasReadBlocks(c, k), NEW b \in 1 .. MaxBlocks
  PROVE  <<c, b>> \in BlocksRead <=> b <= k
<1>1. b \in Nat /\ k \in Nat
  BY PipeAssumption
<1>2. <<c, b>> \in BlocksRead <=> b * BufSize <= bytes_read[c] + 1
  BY DEF BlocksRead
<1>3. b * BufSize <= bytes_read[c] + 1 <=> b <= k
  BY <1>1, WholeBlocks DEF HasReadBlocks
<1>4. QED
  BY <1>2, <1>3

(* A count of more than nothing is of whole blocks if it is not short.     *)
LEMMA ShortCounts ==
  ASSUME NEW k \in Nat
  PROVE  /\ (k * BufSize) % BufSize = 0
         /\ k * BufSize - 1 > 0 => (k * BufSize - 1) % BufSize # 0
         /\ k * BufSize > 0 <=> k > 0
<1>1. BufSize \in Nat /\ BufSize >= 2
  BY PipeAssumption
<1>2. (k * BufSize) % BufSize = 0
  BY <1>1, SMTT(30)
<1>3. k * BufSize > 0 <=> k > 0
  BY <1>1, SMTT(30)
<1>4. ASSUME k * BufSize - 1 > 0
      PROVE  (k * BufSize - 1) % BufSize # 0
  <2>1. PICK a \in Nat, q \in Nat : a = k * BufSize - 1 /\ q = a \div BufSize
    <3>1. k * BufSize - 1 \in Nat
      BY <1>1, <1>4
    <3>2. \A a \in Nat : a \div BufSize \in Nat
      BY <1>1
    <3>3. QED
      BY <3>1, <3>2
  <2>2. a = BufSize * q + (a % BufSize)
    BY <2>1, PipeAssumption, TurnsAndRemainder
  <2>3. BufSize * k - BufSize * q # 1
    <3>1. CASE k <= q
      BY <1>1, <3>1
    <3>2. CASE k > q
      <4>1. PICK d \in Nat : k = q + 1 + d
        <5>1. k - q - 1 \in Nat /\ k = q + 1 + (k - q - 1)
          BY <3>2
        <5>2. QED
          BY <5>1
      <4>2. BufSize * k = BufSize * q + BufSize + BufSize * d /\ BufSize * d >= 0
        BY <1>1, <4>1
      <4>3. QED
        BY <1>1, <4>2
    <3>3. QED
      BY <3>1, <3>2
  <2>4. BufSize * k \in Int /\ BufSize * q \in Int /\ k * BufSize = BufSize * k
    BY <1>1, <2>1
  <2>5. QED
    BY <2>1, <2>2, <2>3, <2>4
<1>5. QED
  BY <1>2, <1>3, <1>4

(* The server has nothing more to write, and no reader is left that has    *)
(* read from it.                                                           *)
PipeIsDry == /\ buffered = 0 /\ at[Server] \in {"ended", "killed"}
             /\ \A c \in Client : at[c] = "read" => bytes_read[c] = 0

(* Every block that was sent has been read or is in the pipe, until what   *)
(* was in it is gone.                                                      *)
PipeInv ==
  /\ Server \in DOMAIN at /\ Client \subseteq DOMAIN at /\ bytes_read \in [Client -> Int]
  /\ fifo \in BOOLEAN /\ met \in BOOLEAN
  /\ buffered \in 0 .. Capacity /\ sent \in 0 .. MaxBlocks
  /\ at[Server] \in {"access", "open", "opening", "loop"} \union Over
  /\ at[Server] \in {"access", "open", "opening", "failed"} => sent = 0
  /\ at[Server] = "ended" => sent = MaxBlocks
  /\ at[Server] = "killed" => PipeIsDry
  /\ \A c \in Client : /\ at[c] \in {"open", "read", "close"} \union Over
                       /\ at[c] \notin {"read", "close", "ended"} => bytes_read[c] = 0
                       /\ \E k \in 0 .. MaxBlocks : HasReadBlocks(c, k)
  /\ IsFiniteSet(BlocksRead)
  /\ Cardinality(BlocksRead) + buffered = sent \/ PipeIsDry
  /\ Cardinality(BlocksRead) <= sent
  /\ WholeBlocksMeanTheEnd

(* What a round of a client's loop does to the blocks that were read.      *)
LEMMA OneMoreBlock ==
  ASSUME PipeInv, NEW c \in Client, at[c] = "read", buffered > 0,
         bytes_read' = [bytes_read EXCEPT ![c] = bytes_read[c] + BufSize]
  PROVE  /\ \E k \in 0 .. MaxBlocks : bytes_read'[c] = k * BufSize
         /\ IsFiniteSet(BlocksRead') /\ Cardinality(BlocksRead') = Cardinality(BlocksRead) + 1
         /\ \E b \in 1 .. MaxBlocks :
              /\ \A a \in 1 .. MaxBlocks : <<c, a>> \in BlocksRead <=> a < b
              /\ BlocksRead' = BlocksRead \union {<<c, b>>}
<1>1. PICK k \in 0 .. MaxBlocks : HasReadBlocks(c, k)
  BY DEF PipeInv
<1>2. bytes_read[c] = k * BufSize /\ k \in Nat /\ BufSize \in Nat /\ MaxBlocks \in Nat
  BY <1>1, PipeAssumption DEF HasReadBlocks
<1>3. Cardinality(BlocksRead) < MaxBlocks
  BY <1>2, FS_CardinalityType DEF PipeInv, PipeIsDry
<1>4. k < MaxBlocks
  <2>1. SUFFICES ASSUME k = MaxBlocks
                 PROVE  FALSE
    BY <1>2
  <2>2. {c} \X (1 .. MaxBlocks) \subseteq BlocksRead
    <3>1. \A b \in 1 .. MaxBlocks : <<c, b>> \in BlocksRead
      BY <1>1, <2>1, BlocksOfClient
    <3>2. QED
      BY <3>1
  <2>3. Cardinality({c} \X (1 .. MaxBlocks)) = MaxBlocks
    <3>1. IsFiniteSet({c}) /\ Cardinality({c}) = 1
      BY FS_Singleton
    <3>2. IsFiniteSet(1 .. MaxBlocks) /\ Cardinality(1 .. MaxBlocks) = MaxBlocks
      BY <1>2, NumbersTo, Zenon
    <3>3. Cardinality({c} \X (1 .. MaxBlocks)) = Cardinality({c}) * Cardinality(1 .. MaxBlocks)
      BY <3>1, <3>2, FS_Product, Zenon
    <3>4. QED
      BY <1>2, <3>1, <3>2, <3>3
  <2>4. Cardinality({c} \X (1 .. MaxBlocks)) <= Cardinality(BlocksRead)
    BY <2>2, FS_Subset DEF PipeInv
  <2>5. Cardinality(BlocksRead) \in Nat
    BY FS_CardinalityType DEF PipeInv
  <2>6. QED
    BY <1>2, <1>3, <2>3, <2>4, <2>5
<1>5. bytes_read'[c] = (k + 1) * BufSize /\ k + 1 \in 0 .. MaxBlocks /\ k + 1 \in Nat
  <2>1. bytes_read'[c] = k * BufSize + BufSize
    BY <1>2 DEF PipeInv
  <2>2. (k + 1) * BufSize = k * BufSize + BufSize
    BY <1>2
  <2>3. QED
    BY <1>2, <1>4, <2>1, <2>2
<1>6. BlocksRead' = BlocksRead \union {<<c, k + 1>>}
  <2>1. ASSUME NEW x \in Client, NEW b \in 1 .. MaxBlocks
        PROVE  <<x, b>> \in BlocksRead' <=> <<x, b>> \in BlocksRead \/ (x = c /\ b = k + 1)
    <3>1. <<x, b>> \in BlocksRead' <=> b * BufSize <= bytes_read'[x] + 1
      BY DEF BlocksRead
    <3>2. <<x, b>> \in BlocksRead <=> b * BufSize <= bytes_read[x] + 1
      BY DEF BlocksRead
    <3>3. CASE x = c
      <4>1. <<x, b>> \in BlocksRead <=> b <= k
        BY <1>1, <3>3, BlocksOfClient
      <4>2. b * BufSize <= (k + 1) * BufSize + 1 <=> b <= k + 1
        BY <1>2, <1>5, WholeBlocks
      <4>3. QED
        BY <1>2, <1>5, <3>1, <3>3, <4>1, <4>2
    <3>4. CASE x # c
      BY <3>1, <3>2, <3>4 DEF PipeInv
    <3>5. QED
      BY <3>3, <3>4
  <2>2. BlocksRead' \subseteq Client \X (1 .. MaxBlocks)
    BY DEF BlocksRead
  <2>3. BlocksRead \union {<<c, k + 1>>} \subseteq Client \X (1 .. MaxBlocks)
    BY <1>2, <1>4 DEF BlocksRead
  <2>4. QED
    BY <2>1, <2>2, <2>3
<1>7. <<c, k + 1>> \notin BlocksRead
  <2>1. k + 1 \in 1 .. MaxBlocks
    BY <1>2, <1>4
  <2>2. <<c, k + 1>> \in BlocksRead <=> k + 1 <= k
    BY <1>1, <2>1, BlocksOfClient
  <2>3. QED
    BY <1>2, <2>2
<1>8. /\ k + 1 \in 1 .. MaxBlocks
      /\ \A a \in 1 .. MaxBlocks : <<c, a>> \in BlocksRead <=> a < k + 1
  BY <1>1, <1>2, <1>4, BlocksOfClient
<1>9. QED
  BY <1>5, <1>6, <1>7, <1>8, FS_AddElement DEF PipeInv

(* A read of nothing, or one that fails and takes 1 from the count, reads  *)
(* no block.                                                               *)
LEMMA NoMoreBlocks ==
  ASSUME PipeInv, NEW c \in Client, at[c] = "read", NEW res \in {-1, 0},
         bytes_read' = [bytes_read EXCEPT ![c] = bytes_read[c] + res]
  PROVE  BlocksRead' = BlocksRead
<1>1. PICK k \in 0 .. MaxBlocks : HasReadBlocks(c, k)
  BY DEF PipeInv
<1>2. bytes_read[c] = k * BufSize /\ k \in Nat /\ BufSize \in Nat
  BY <1>1, PipeAssumption DEF HasReadBlocks
<1>3. bytes_read'[c] \in {k * BufSize, k * BufSize - 1}
  BY <1>2 DEF PipeInv
<1>4. ASSUME NEW x \in Client, NEW b \in 1 .. MaxBlocks
      PROVE  b * BufSize <= bytes_read'[x] + 1 <=> b * BufSize <= bytes_read[x] + 1
  <2>1. CASE x = c
    BY <1>2, <1>3, <2>1, WholeBlocks
  <2>2. CASE x # c
    BY <2>2 DEF PipeInv
  <2>3. QED
    BY <2>1, <2>2
<1>5. QED
  BY <1>4 DEF BlocksRead

(* Nothing has been sent or read at the start.                             *)
LEMMA PipeInvInit == Init => PipeInv
<1> SUFFICES ASSUME Init PROVE PipeInv
  OBVIOUS
<1>1. ASSUME NEW p \in {Server} \union Client
      PROVE  p \in DOMAIN at /\ at[p] = IF p = Server THEN "access" ELSE "open"
  <2>1. p \in DOMAIN Start[2] /\ Start[2][p] = IF p = Server THEN "access" ELSE "open"
    BY DEF Start, PipeStart
  <2>2. QED
    BY <2>1, StartSteps
<1>2. \A c \in Client : c # Server
  BY PipeAssumption
<1>3. PipeInit
  BY DEF Init
<1>4. /\ BufSize \in Nat \ {0, 1} /\ MaxBlocks \in Nat /\ Capacity \in Nat /\ 0 * BufSize = 0
      /\ 0 \in 0 .. MaxBlocks
  BY PipeAssumption
<1>5. \A c \in Client : bytes_read[c] = 0 /\ HasReadBlocks(c, 0)
  BY <1>3, <1>4 DEF PipeInit, HasReadBlocks
<1>6. BlocksRead = {}
  <2>1. \A c \in Client, b \in 1 .. MaxBlocks : <<c, b>> \notin BlocksRead
    BY <1>4, <1>5, BlocksOfClient
  <2>2. QED
    BY <2>1 DEF BlocksRead
<1>7. /\ Server \in DOMAIN at /\ Client \subseteq DOMAIN at /\ at[Server] = "access"
      /\ \A c \in Client : at[c] = "open"
  BY <1>1, <1>2
<1>8. /\ fifo \in BOOLEAN /\ met = FALSE /\ buffered = 0 /\ sent = 0
      /\ bytes_read = [c \in Client |-> 0]
  BY <1>3 DEF PipeInit
<1>9. IsFiniteSet(BlocksRead) /\ Cardinality(BlocksRead) = 0
  BY <1>6, FS_EmptySet
<1>10. bytes_read \in [Client -> Int]
  BY <1>8
<1>11. met \in BOOLEAN
  BY <1>8, Zenon
<1>12. \A c \in Client : \E k \in 0 .. MaxBlocks : HasReadBlocks(c, k)
  BY <1>4, <1>5
<1>13. WholeBlocksMeanTheEnd
  BY <1>7 DEF WholeBlocksMeanTheEnd, ToldTheEnd
<1>14. QED
  BY <1>4, <1>5, <1>7, <1>8, <1>9, <1>10, <1>11, <1>12, <1>13 DEF PipeInv

(* A step that reads nothing and moves no client.                          *)
LEMMA ServerStep ==
  ASSUME PipeInv, ServerMain
  PROVE  PipeInv'
<1> USE DEF Step, Fails, Over
<1>0. /\ \A c \in Client : c # Server /\ c \in DOMAIN at
      /\ Server \in DOMAIN at /\ MaxBlocks \in Nat /\ Capacity \in Nat
  BY PipeAssumption DEF PipeInv
<1>1. bytes_read' = bytes_read /\ BlocksRead' = BlocksRead /\ DOMAIN at' = DOMAIN at
  BY DEF ServerMain, MakeFifo, OpenForWriting, WriteBlock, BrokenPipe, CloseWriter, BlocksRead
<1>2. \A c \in Client : at'[c] = at[c] /\ bytes_read'[c] = bytes_read[c]
  BY <1>0, <1>1 DEF ServerMain, MakeFifo, OpenForWriting, WriteBlock, BrokenPipe, CloseWriter
<1>3. \A c \in Client : \E k \in 0 .. MaxBlocks : HasReadBlocks(c, k)'
  BY <1>2 DEF PipeInv, HasReadBlocks
<1>4. Cardinality(BlocksRead) \in Nat
  BY FS_CardinalityType DEF PipeInv
<1>5. CASE MakeFifo
  <2>1. /\ at[Server] = "access" /\ at'[Server] \in {"open", "failed"}
        /\ fifo' \in BOOLEAN /\ UNCHANGED <<met, buffered, sent>>
    BY <1>0, <1>5 DEF PipeInv, MakeFifo
  <2>2. WholeBlocksMeanTheEnd'
    BY <1>1, <1>2, <2>1 DEF PipeInv, WholeBlocksMeanTheEnd, ToldTheEnd
  <2>3. QED
    BY <1>0, <1>1, <1>2, <1>3, <2>1, <2>2 DEF PipeInv, PipeIsDry
<1>6. CASE OpenForWriting
  <2>1. /\ at[Server] \in {"open", "opening"} /\ at'[Server] \in {"opening", "loop", "failed"}
        /\ met' \in BOOLEAN /\ UNCHANGED <<fifo, buffered, sent>>
    BY <1>0, <1>6 DEF PipeInv, OpenForWriting
  <2>2. WholeBlocksMeanTheEnd'
    BY <1>1, <1>2, <2>1 DEF PipeInv, WholeBlocksMeanTheEnd, ToldTheEnd
  <2>3. QED
    BY <1>0, <1>1, <1>2, <1>3, <2>1, <2>2 DEF PipeInv, PipeIsDry
<1>7. CASE WriteBlock
  BY <1>0, <1>1, <1>2, <1>3, <1>4, <1>7
     DEF PipeInv, WriteBlock, BrokenPipe, PipeIsDry, WholeBlocksMeanTheEnd, ToldTheEnd, Readers
<1>8. CASE CloseWriter
  BY <1>0, <1>1, <1>2, <1>3, <1>4, <1>8
     DEF PipeInv, CloseWriter, PipeIsDry, WholeBlocksMeanTheEnd, ToldTheEnd, Readers
<1>9. QED
  BY <1>5, <1>6, <1>7, <1>8 DEF ServerMain

(* Every step of a client keeps the pipe's invariant: its open, a read     *)
(* that finds a block, nothing yet or the end, and its close.              *)
LEMMA ClientStep ==
  ASSUME PipeInv, NEW c \in Client, ClientMain(c)
  PROVE  PipeInv'
<1> USE DEF Step, Fails, Over
<1>0. /\ c # Server /\ Client \subseteq DOMAIN at /\ Server \in DOMAIN at
      /\ MaxBlocks \in Nat /\ Capacity \in Nat
  BY PipeAssumption DEF PipeInv
<1>1. /\ at'[Server] = at[Server] /\ DOMAIN at' = DOMAIN at /\ sent' = sent
      /\ \A x \in Client \ {c} : at'[x] = at[x] /\ bytes_read'[x] = bytes_read[x]
      /\ bytes_read' \in [Client -> Int]
  BY <1>0, PipeAssumption
     DEF PipeInv, ClientMain, OpenForReading, ReadBlock, Counted, CloseReader
<1>2. \A x \in Client \ {c} : \E k \in 0 .. MaxBlocks : HasReadBlocks(x, k)'
  BY <1>1 DEF PipeInv, HasReadBlocks
<1>3. Cardinality(BlocksRead) \in Nat
  BY FS_CardinalityType DEF PipeInv
<1>4. CASE OpenForReading(c)
  <2>1. BlocksRead' = BlocksRead /\ bytes_read'[c] = bytes_read[c]
    BY <1>4 DEF OpenForReading, BlocksRead
  <2>2. \E k \in 0 .. MaxBlocks : HasReadBlocks(c, k)'
    BY <1>4, <2>1 DEF PipeInv, HasReadBlocks, OpenForReading
  <2>3. QED
    BY <1>0, <1>1, <1>2, <1>3, <1>4, <2>1, <2>2
       DEF PipeInv, OpenForReading, PipeIsDry, WholeBlocksMeanTheEnd, ToldTheEnd
<1>5. CASE ReadBlock(c) /\ buffered > 0
  <2>1. /\ at[c] = "read" /\ at'[c] = "read" /\ buffered' = buffered - 1
        /\ bytes_read' = [bytes_read EXCEPT ![c] = bytes_read[c] + BufSize]
        /\ UNCHANGED <<fifo, met>>
    BY <1>0, <1>5 DEF ReadBlock, Counted
  <2>2. /\ \E k \in 0 .. MaxBlocks : bytes_read'[c] = k * BufSize
        /\ IsFiniteSet(BlocksRead') /\ Cardinality(BlocksRead') = Cardinality(BlocksRead) + 1
    BY <1>5, <2>1, OneMoreBlock
  <2>3. ~PipeIsDry /\ Cardinality(BlocksRead) + buffered = sent
    BY <1>5 DEF PipeIsDry, PipeInv
  <2>4. QED
    BY <1>0, <1>1, <1>2, <1>3, <1>5, <2>1, <2>2, <2>3
       DEF PipeInv, PipeIsDry, WholeBlocksMeanTheEnd, ToldTheEnd, HasReadBlocks
<1>6. CASE ReadBlock(c) /\ ~(buffered > 0)
  <2>1. PICK res \in {-1, 0} :
          /\ at[c] = "read" /\ at'[c] = "close" /\ UNCHANGED <<buffered, fifo, met>>
          /\ bytes_read' = [bytes_read EXCEPT ![c] = bytes_read[c] + res]
          /\ res = 0 => ~HasWriter
    BY <1>0, <1>6 DEF ReadBlock, Counted
  <2>2. BlocksRead' = BlocksRead
    BY <2>1, NoMoreBlocks
  <2>3. PICK k \in 0 .. MaxBlocks : bytes_read[c] = k * BufSize
    BY <2>1 DEF PipeInv, HasReadBlocks
  <2>4. k \in Nat /\ k * BufSize \in Int /\ bytes_read'[c] = k * BufSize + res
    BY <1>0, <2>1, <2>3, PipeAssumption DEF PipeInv
  <2>5. ASSUME bytes_read'[c] > 0, bytes_read'[c] % BufSize = 0
        PROVE  at[Server] = "ended" /\ Cardinality(BlocksRead) = MaxBlocks
    <3>1. res = 0 /\ k > 0 /\ ~HasWriter
      BY <2>1, <2>4, <2>5, ShortCounts
    <3>2. Cardinality(BlocksRead) # 0
      <4>1. HasReadBlocks(c, k) /\ 1 \in 1 .. MaxBlocks /\ 1 <= k
        BY <1>0, <2>3, <2>4, <3>1 DEF HasReadBlocks
      <4>2. <<c, 1>> \in BlocksRead
        BY <4>1, BlocksOfClient
      <4>3. QED
        BY <4>2, FS_EmptySet DEF PipeInv
    <3>3. bytes_read[c] > 0
      BY <2>4, <2>5, <3>1, <2>3
    <3>4. ~PipeIsDry
      BY <2>1, <3>3 DEF PipeIsDry
    <3>5. QED
      BY <1>3, <1>6, <3>1, <3>2, <3>4 DEF PipeInv, HasWriter
  <2>6. HasReadBlocks(c, k)'
    BY <2>1, <2>4 DEF HasReadBlocks
  <2>7. QED
    BY <1>0, <1>1, <1>2, <1>3, <1>6, <2>1, <2>2, <2>5, <2>6
       DEF PipeInv, PipeIsDry, WholeBlocksMeanTheEnd, ToldTheEnd
<1>7. CASE CloseReader(c)
  <2>1. BlocksRead' = BlocksRead /\ bytes_read'[c] = bytes_read[c]
    BY <1>7 DEF CloseReader, BlocksRead
  <2>2. \E k \in 0 .. MaxBlocks : HasReadBlocks(c, k)'
    BY <1>0, <1>7, <2>1 DEF PipeInv, HasReadBlocks, CloseReader
  <2>3. Cardinality(BlocksRead)' + buffered' = sent' \/ PipeIsDry'
    BY <1>0, <1>1, <1>3, <1>7, <2>1 DEF PipeInv, CloseReader, PipeIsDry, Readers, HasWriter
  <2>4. QED
    BY <1>0, <1>1, <1>2, <1>3, <1>7, <2>1, <2>2, <2>3
       DEF PipeInv, CloseReader, PipeIsDry, WholeBlocksMeanTheEnd, ToldTheEnd
<1>8. QED
  BY <1>4, <1>5, <1>6, <1>7 DEF ClientMain

(* Steps of the other programs leave the pipe and its processes alone.     *)
LEMMA PipeIsLeft ==
  ASSUME FanInv, PipeInv, [Next]_vars, ~RunPipe
  PROVE  /\ UNCHANGED pipeVars /\ DOMAIN at' = DOMAIN at
         /\ at'[Server] = at[Server] /\ \A c \in Client : at'[c] = at[c]
<1>1. UNCHANGED pipeVars
  BY DEF Next, RunLock, RunPipe, RunEcho, RunFanout, RunReuse, RunMap, RunVeth, RunIp, RunArray,
         RunSalary, vars
<1>2. CASE program = "pipe"
  <2>1. UNCHANGED at
    BY <1>2 DEF Next, RunLock, RunPipe, RunEcho, RunFanout, RunReuse, RunMap, RunVeth, RunIp,
                RunArray, RunSalary, vars
  <2>2. QED
    BY <1>1, <2>1
<1>3. CASE program # "pipe"
  <2>1. DOMAIN Start[2] = {Server} \union Client /\ program \notin ProgramsOf[2]
    BY <1>3 DEF Start, PipeStart, ProgramsOf
  <2>2. QED
    BY <1>1, <2>1, OthersLeaveAll, SameProcesses DEF PipeInv
<1>4. QED
  BY <1>2, <1>3

(* Whatever clients come and go, every block that is sent is read once or  *)
(* still in the pipe, until the server is over and no client that has read *)
(* from it is left.                                                        *)
THEOREM PipeInvariant == Spec => []PipeInv
<1>1. FanInv /\ PipeInv /\ [Next]_vars => PipeInv'
  <2> SUFFICES ASSUME FanInv, PipeInv, [Next]_vars PROVE PipeInv'
    OBVIOUS
  <2>1. CASE RunPipe
    BY <2>1, ServerStep, ClientStep DEF RunPipe, PipeNext
  <2>2. CASE ~RunPipe
    <3>1. /\ UNCHANGED pipeVars /\ DOMAIN at' = DOMAIN at
          /\ at'[Server] = at[Server] /\ \A c \in Client : at'[c] = at[c]
      BY <2>2, PipeIsLeft
    <3>2. QED
      BY <3>1 DEF PipeInv, PipeIsDry, HasReadBlocks, BlocksRead, WholeBlocksMeanTheEnd,
                  ToldTheEnd, pipeVars
  <2>3. QED
    BY <2>1, <2>2
<1>2. QED
  BY <1>1, PipeInvInit, FanInvariant, PTL DEF Spec

(* However many clients read from the pipe, and whenever they come and go: *)
(* one that has read whole blocks and no more has seen the end of what the *)
(* server had to send (Client.cpp:23-29, Server.cpp:29-38).                *)
THEOREM WholeBlocksAreTheEnd == Spec => []WholeBlocksMeanTheEnd
<1>1. PipeInv => WholeBlocksMeanTheEnd
  BY DEF PipeInv
<1>2. QED
  BY <1>1, PipeInvariant, PTL

(* The stream is empty at the start, whichever program is run.             *)
LEMMA StreamStarts == Init => Stream!Init
<1> SUFFICES ASSUME Init PROVE Stream!Init
  OBVIOUS
<1>1. PipeInv /\ PipeInit
  BY PipeInvInit DEF Init
<1>2. ASSUME NEW p \in {Server} \union Client
      PROVE  at[p] = IF p = Server THEN "access" ELSE "open"
  <2>1. p \in DOMAIN Start[2] /\ Start[2][p] = IF p = Server THEN "access" ELSE "open"
    BY DEF Start, PipeStart
  <2>2. QED
    BY <2>1, StartSteps
<1>3. at[Server] = "access" /\ \A c \in Client : at[c] = "open"
  BY <1>2, PipeAssumption
<1>4. BlocksRead = {} /\ Cardinality(BlocksRead) = 0
  <2>1. Cardinality(BlocksRead) = 0 /\ IsFiniteSet(BlocksRead)
    BY <1>1, FS_CardinalityType DEF PipeInv, PipeInit
  <2>2. QED
    BY <2>1, FS_EmptySet
<1>5. QED
  BY <1>1, <1>3, <1>4 DEF Stream!Init, PipeInit, Readers, ToldTheEnd, Over

(* Before a server writes there is nothing in the pipe.                    *)
LEMMA NothingYet ==
  ASSUME PipeInv, at[Server] \in {"access", "open", "opening"}
  PROVE  sent = 0 /\ buffered = 0
<1>1. sent = 0 /\ buffered \in Nat /\ Cardinality(BlocksRead) \in Nat
  BY FS_CardinalityType DEF PipeInv
<1>2. Cardinality(BlocksRead) + buffered = sent \/ buffered = 0
  BY DEF PipeInv, PipeIsDry
<1>3. QED
  BY <1>1, <1>2

(* The writer of the stream is the server, which closes it when it is over.*)
LEMMA ServerWrites ==
  ASSUME PipeInv, ServerMain
  PROVE  [Stream!Next]_(Stream!streamVars)
<1> DEFINE Writers == { p \in {Server} : at[p] \notin Over }
<1> DEFINE Lost == sent - buffered - Cardinality(BlocksRead)
<1> USE DEF Step, Fails
<1>0. /\ \A c \in Client : c # Server
      /\ Cardinality(BlocksRead) \in Nat /\ buffered \in Nat /\ sent \in Nat
  BY PipeAssumption, FS_CardinalityType DEF PipeInv
<1>1. /\ BlocksRead' = BlocksRead /\ Readers' = Readers /\ ToldTheEnd' = ToldTheEnd
  <2>1. bytes_read' = bytes_read /\ \A c \in Client : at'[c] = at[c]
    BY <1>0 DEF PipeInv, ServerMain, MakeFifo, OpenForWriting, WriteBlock, BrokenPipe, CloseWriter
  <2>2. QED
    BY <2>1 DEF BlocksRead, Readers, ToldTheEnd
<1>2. CASE at[Server] \notin Over /\ at'[Server] \notin Over /\ UNCHANGED <<sent, buffered>>
  <2>1. Writers' = Writers
    BY <1>2
  <2>2. QED
    BY <1>1, <1>2, <2>1 DEF Stream!streamVars
<1>3. CASE /\ at[Server] = "loop" /\ at'[Server] = "loop" /\ Readers # {}
           /\ sent < MaxBlocks /\ buffered < Capacity
           /\ sent' = sent + 1 /\ buffered' = buffered + 1
  <2>1. Writers' = Writers /\ Writers # {}
    BY <1>3 DEF Over
  <2>2. Lost' = Lost
    BY <1>0, <1>1, <1>3
  <2>3. Stream!Write
    BY <1>1, <1>3, <2>1, <2>2 DEF Stream!Write
  <2>4. QED
    BY <2>3 DEF Stream!Next
<1>4. CASE /\ at[Server] \notin Over /\ at'[Server] \in Over /\ UNCHANGED sent
           /\ sent \in {0, MaxBlocks} \/ Readers = {}
           /\ buffered' = IF Readers = {} THEN 0 ELSE buffered
  <2>1. Writers' = {} /\ Writers # {}
    BY <1>4
  <2>2. IF Readers' = {} /\ Writers' = {}
          THEN buffered' = 0 /\ Lost' = Lost + buffered
          ELSE buffered' = buffered /\ Lost' = Lost
    BY <1>0, <1>1, <1>4, <2>1
  <2>3. Stream!Close
    BY <1>1, <1>4, <2>1, <2>2 DEF Stream!Close, Stream!LoseWhatIsLeft
  <2>4. QED
    BY <2>3 DEF Stream!Next
<1>5. CASE MakeFifo \/ OpenForWriting
  <2>1. /\ at[Server] \in {"access", "open", "opening"}
        /\ at'[Server] \in {"open", "opening", "loop", "failed"}
    BY <1>5 DEF PipeInv, MakeFifo, OpenForWriting
  <2>2. UNCHANGED <<sent, buffered>> /\ sent = 0 /\ buffered = 0
    BY <1>0, <1>5, <2>1, NothingYet DEF PipeInv, MakeFifo, OpenForWriting
  <2>3. QED
    BY <1>2, <1>4, <2>1, <2>2 DEF Over
<1>6. CASE WriteBlock
  <2>1. CASE Readers # {}
    BY <1>3, <1>6, <2>1 DEF PipeInv, WriteBlock
  <2>2. CASE Readers = {}
    BY <1>4, <1>6, <2>2 DEF PipeInv, WriteBlock, BrokenPipe, Over
  <2>3. QED
    BY <2>1, <2>2
<1>7. CASE CloseWriter
  BY <1>4, <1>7 DEF PipeInv, CloseWriter, Over
<1>8. QED
  BY <1>5, <1>6, <1>7 DEF ServerMain

(* The clients are its readers: a read takes the client's next block or    *)
(* nothing, and one that ends a count of whole blocks tells of the end.    *)
LEMMA ClientsRead ==
  ASSUME PipeInv, NEW c \in Client, ClientMain(c)
  PROVE  [Stream!Next]_(Stream!streamVars)
<1> DEFINE Writers == { p \in {Server} : at[p] \notin Over }
<1> DEFINE Lost == sent - buffered - Cardinality(BlocksRead)
<1> USE DEF Step, Fails
<1>0. /\ c # Server /\ c \in DOMAIN at
      /\ Cardinality(BlocksRead) \in Nat /\ buffered \in Nat /\ sent \in Nat
  BY PipeAssumption, FS_CardinalityType DEF PipeInv
<1>1. /\ at'[Server] = at[Server] /\ sent' = sent
      /\ \A x \in Client \ {c} : at'[x] = at[x] /\ bytes_read'[x] = bytes_read[x]
      /\ bytes_read' \in [Client -> Int] /\ PipeInv'
  BY <1>0, ClientStep, PipeAssumption
     DEF PipeInv, ClientMain, OpenForReading, ReadBlock, Counted, CloseReader
<1>2. Writers' = Writers
  BY <1>1
<1>3. CASE OpenForReading(c)
  <2>1. /\ BlocksRead' = BlocksRead /\ buffered' = buffered
        /\ at[c] = "open" /\ at'[c] \in {"read", "failed"}
        /\ bytes_read' = bytes_read /\ bytes_read[c] = 0
    BY <1>0, <1>3 DEF PipeInv, OpenForReading, BlocksRead
  <2>2. ToldTheEnd' = ToldTheEnd
    BY <1>1, <2>1 DEF ToldTheEnd
  <2>3. CASE at'[c] = "read"
    <3>1. Readers' = Readers \union {c}
      BY <1>1, <2>1, <2>3 DEF Readers
    <3>2. Stream!Open(c)
      BY <1>1, <1>2, <2>1, <2>2, <3>1 DEF Stream!Open
    <3>3. QED
      BY <3>2 DEF Stream!Next
  <2>4. CASE at'[c] = "failed"
    <3>1. Readers' = Readers
      BY <1>1, <2>1, <2>4 DEF Readers
    <3>2. QED
      BY <1>1, <1>2, <2>1, <2>2, <3>1 DEF Stream!streamVars
  <2>5. QED
    BY <2>1, <2>3, <2>4
<1>4. CASE ReadBlock(c) /\ buffered > 0
  <2>1. /\ at[c] = "read" /\ at'[c] = "read" /\ buffered' = buffered - 1
        /\ bytes_read' = [bytes_read EXCEPT ![c] = bytes_read[c] + BufSize]
    BY <1>0, <1>4 DEF ReadBlock, Counted
  <2>2. /\ \E b \in 1 .. MaxBlocks :
              /\ \A a \in 1 .. MaxBlocks : <<c, a>> \in BlocksRead <=> a < b
              /\ BlocksRead' = BlocksRead \union {<<c, b>>}
        /\ Lost' = Lost
    <3>1. /\ Cardinality(BlocksRead') = Cardinality(BlocksRead) + 1
          /\ \E b \in 1 .. MaxBlocks :
               /\ \A a \in 1 .. MaxBlocks : <<c, a>> \in BlocksRead <=> a < b
               /\ BlocksRead' = BlocksRead \union {<<c, b>>}
      BY <1>4, <2>1, OneMoreBlock
    <3>2. Lost' = Lost
      BY <1>0, <1>1, <2>1, <3>1
    <3>3. QED
      BY <3>1, <3>2
  <2>3. Readers' = Readers /\ c \in Readers
    BY <1>1, <2>1 DEF Readers
  <2>4. ToldTheEnd' = ToldTheEnd /\ c \notin ToldTheEnd
    BY <1>1, <2>1 DEF ToldTheEnd
  <2>5. Stream!Take(c)
    BY <1>1, <1>2, <1>4, <2>1, <2>2, <2>3, <2>4 DEF Stream!Take
  <2>6. QED
    BY <2>5 DEF Stream!Next
<1>5. CASE ReadBlock(c) /\ ~(buffered > 0)
  <2>1. PICK res \in {-1, 0} :
          /\ at[c] = "read" /\ at'[c] = "close" /\ buffered' = buffered
          /\ bytes_read' = [bytes_read EXCEPT ![c] = bytes_read[c] + res]
    BY <1>0, <1>5 DEF ReadBlock, Counted
  <2>2. BlocksRead' = BlocksRead
    BY <2>1, NoMoreBlocks
  <2>3. Readers' = Readers /\ c \in Readers
    BY <1>1, <2>1 DEF Readers
  <2>4. CASE c \in ToldTheEnd'
    <3>1. ToldTheEnd' = ToldTheEnd \union {c}
      BY <1>1, <2>4 DEF ToldTheEnd
    <3>2. at[Server] = "ended" /\ Cardinality(BlocksRead) = MaxBlocks
      BY <1>1, <2>2, <2>4 DEF PipeInv, WholeBlocksMeanTheEnd
    <3>3. Writers = {} /\ sent = MaxBlocks
      BY <3>2 DEF PipeInv, Over
    <3>4. buffered = 0 /\ Lost = 0
      BY <1>0, <1>5, <3>2, <3>3
    <3>5. Stream!Tell(c)
      BY <1>1, <1>2, <2>1, <2>2, <2>3, <3>1, <3>3, <3>4 DEF Stream!Tell
    <3>6. QED
      BY <3>5 DEF Stream!Next
  <2>5. CASE c \notin ToldTheEnd'
    <3>1. ToldTheEnd' = ToldTheEnd
      BY <1>1, <2>1, <2>5 DEF ToldTheEnd
    <3>2. QED
      BY <1>1, <1>2, <2>1, <2>2, <2>3, <3>1 DEF Stream!streamVars
  <2>6. QED
    BY <2>4, <2>5
<1>6. CASE CloseReader(c)
  <2>1. /\ BlocksRead' = BlocksRead /\ at[c] = "close" /\ at'[c] = "ended"
        /\ bytes_read' = bytes_read
        /\ buffered' = IF Readers = {c} /\ ~HasWriter THEN 0 ELSE buffered
    BY <1>0, <1>6 DEF CloseReader, BlocksRead
  <2>2. ToldTheEnd' = ToldTheEnd
    BY <1>1, <2>1 DEF ToldTheEnd
  <2>3. Readers' = Readers \ {c} /\ c \in Readers
    BY <1>1, <2>1 DEF Readers
  <2>4. Readers' = {} <=> Readers = {c}
    BY <2>3
  <2>5. IF Readers' = {} /\ Writers' = {}
          THEN buffered' = 0 /\ Lost' = Lost + buffered
          ELSE buffered' = buffered /\ Lost' = Lost
    <3>1. CASE at[Server] \in {"opening", "loop"}
      BY <1>1, <1>2, <2>1, <2>4, <3>1 DEF HasWriter, Over
    <3>2. CASE at[Server] \in Over
      BY <1>0, <1>1, <1>2, <2>1, <2>4, <3>2 DEF HasWriter, Over
    <3>3. CASE at[Server] \in {"access", "open"}
      BY <1>0, <1>1, <1>2, <2>1, <3>3, NothingYet DEF Over
    <3>4. QED
      BY <3>1, <3>2, <3>3 DEF PipeInv
  <2>6. Stream!Leave(c)
    BY <1>1, <1>2, <2>1, <2>2, <2>3, <2>5 DEF Stream!Leave, Stream!LoseWhatIsLeft
  <2>7. QED
    BY <2>6 DEF Stream!Next
<1>7. QED
  BY <1>3, <1>4, <1>5, <1>6 DEF ClientMain

(* The pipe is the stream it is meant to be, for any number of clients and *)
(* blocks: each block goes to one client, in full and once, nothing is     *)
(* lost while the server or a client has the pipe, and the clients whose   *)
(* count is of whole blocks know of the end                                *)
(* (Server.cpp:25-38, Client.cpp:18-30).                                   *)
THEOREM PipeImplementsStream == Spec => PipeIsAStream
<1>1. FanInv /\ PipeInv /\ [Next]_vars => [Stream!Next]_(Stream!streamVars)
  <2> SUFFICES ASSUME FanInv, PipeInv, [Next]_vars PROVE [Stream!Next]_(Stream!streamVars)
    OBVIOUS
  <2>1. CASE RunPipe
    BY <2>1, ServerWrites, ClientsRead DEF RunPipe, PipeNext
  <2>2. CASE ~RunPipe
    <3>1. UNCHANGED pipeVars /\ at'[Server] = at[Server] /\ \A c \in Client : at'[c] = at[c]
      BY <2>2, PipeIsLeft
    <3>2. QED
      BY <3>1 DEF Stream!streamVars, BlocksRead, Readers, ToldTheEnd, pipeVars
  <2>3. QED
    BY <2>1, <2>2
<1>2. QED
  BY <1>1, StreamStarts, PipeInvariant, FanInvariant, PTL DEF Spec, PipeIsAStream, Stream!Spec
-----------------------------------------------------------------------------
(* The protocols, addresses and devices of a function's two sockets, and   *)
(* whether they reuse addresses.                                           *)
Opens(f, protos, addresses, devices, reuses) ==
  /\ Function[f].proto[1] = protos[1] /\ Function[f].proto[2] = protos[2]
  /\ Function[f].addr[1] = addresses[1] /\ Function[f].addr[2] = addresses[2]
  /\ Function[f].dev[1] = devices[1] /\ Function[f].dev[2] = devices[2]
  /\ Function[f].reuse = reuses

(* What each of the six functions opens its two sockets with.              *)
LEMMA SixFunctions ==
  /\ Opens("tcp_udp", <<"tcp", "udp">>, <<addr, addr>>, <<"all", "all">>, FALSE)
  /\ Opens("any_diff_ifs", <<"udp", "udp">>, <<"any", "any">>, <<"ens33", "ens34">>, FALSE)
  /\ Opens("diff_addr", <<"udp", "udp">>, <<addr, "loopback">>, <<"all", "all">>, FALSE)
  /\ Opens("any", <<"udp", "udp">>, <<"any", "any">>, <<"all", "all">>, TRUE)
  /\ Opens("local_and_any", <<"udp", "udp">>, <<addr, addr>>, <<"all", "all">>, TRUE)
  /\ Opens("local", <<"udp", "udp">>, <<addr, addr>>, <<"all", "all">>, TRUE)
<1> USE DEF Opens, Function, Udp
<1>1. Opens("tcp_udp", <<"tcp", "udp">>, <<addr, addr>>, <<"all", "all">>, FALSE)
  <2>1. Function["tcp_udp"].proto[1] = "tcp" /\ Function["tcp_udp"].proto[2] = "udp"
    <3>1. Function["tcp_udp"].proto = [<<"udp", "udp">> EXCEPT ![1] = "tcp"]
      BY DEF test_tcp_udp_same_ports
    <3>2. 1 \in DOMAIN <<"udp", "udp">> /\ 2 \in DOMAIN <<"udp", "udp">> /\ 1 # 2
      OBVIOUS
    <3>3. \A g : /\ 1 \in DOMAIN g => [g EXCEPT ![1] = "tcp"][1] = "tcp"
               /\ 2 \in DOMAIN g => [g EXCEPT ![1] = "tcp"][2] = g[2]
      OBVIOUS
    <3>4. QED
      BY <3>1, <3>2, <3>3
  <2>2. /\ Function["tcp_udp"].addr = <<addr, addr>> /\ Function["tcp_udp"].dev = <<"all", "all">>
        /\ Function["tcp_udp"].reuse = FALSE
    BY DEF test_tcp_udp_same_ports
  <2>3. QED
    BY <2>1, <2>2
<1>2. Opens("any_diff_ifs", <<"udp", "udp">>, <<"any", "any">>, <<"ens33", "ens34">>, FALSE)
  BY DEF test_udp_any_addr_same_port_diff_ifs
<1>3. Opens("diff_addr", <<"udp", "udp">>, <<addr, "loopback">>, <<"all", "all">>, FALSE)
  BY DEF test_udp_diff_addr_same_port
<1>4. Opens("any", <<"udp", "udp">>, <<"any", "any">>, <<"all", "all">>, TRUE)
  BY DEF test_udp_any_addr_same_port
<1>5. Opens("local_and_any", <<"udp", "udp">>, <<addr, addr>>, <<"all", "all">>, TRUE)
  BY DEF test_udp_local_and_any_addr_same_port
<1>6. Opens("local", <<"udp", "udp">>, <<addr, addr>>, <<"all", "all">>, TRUE)
  BY DEF test_udp_local_addr_same_port
<1>7. QED
  BY <1>1, <1>2, <1>3, <1>4, <1>5, <1>6

(* They are of different protocols, on different devices, or with reused   *)
(* addresses, but for one function.                                        *)
LEMMA TestsDiffer ==
  ASSUME NEW f \in TestNames
  PROVE  \/ Function[f].proto[1] # Function[f].proto[2]
         \/ Function[f].dev[1] = "ens33" /\ Function[f].dev[2] = "ens34"
         \/ Function[f].reuse = TRUE
         \/ f = "diff_addr" /\ Function[f].addr[1] = addr /\ Function[f].addr[2] = "loopback"
<1>1. CASE f = "tcp_udp"
  BY <1>1, SixFunctions DEF Opens
<1>2. CASE f = "any_diff_ifs"
  BY <1>2, SixFunctions DEF Opens
<1>3. CASE f = "diff_addr"
  BY <1>3, SixFunctions DEF Opens
<1>4. CASE f = "any"
  BY <1>4, SixFunctions DEF Opens
<1>5. CASE f = "local_and_any"
  BY <1>5, SixFunctions DEF Opens
<1>6. CASE f = "local"
  BY <1>6, SixFunctions DEF Opens
<1>7. QED
  BY <1>1, <1>2, <1>3, <1>4, <1>5, <1>6 DEF TestNames

(* Protocols, addresses and devices of all of them are among those there   *)
(* are.                                                                    *)
LEMMA TestTypes ==
  ASSUME addr \in {"loopback", "any", "host"}, NEW f \in TestNames, NEW n \in 1 .. 2
  PROVE  /\ Function[f].proto[n] \in {"tcp", "udp"}
         /\ Function[f].addr[n] \in {"loopback", "any", "host"}
         /\ Function[f].dev[n] \in {"all", "ens33", "ens34"}
         /\ Function[f].reuse \in BOOLEAN
<1> DEFINE Of(k) == /\ Function[f].proto[k] \in {"tcp", "udp"}
                    /\ Function[f].addr[k] \in {"loopback", "any", "host"}
                    /\ Function[f].dev[k] \in {"all", "ens33", "ens34"}
                    /\ Function[f].reuse \in BOOLEAN
<1>0. n = 1 \/ n = 2
  OBVIOUS
<1> SUFFICES Of(1) /\ Of(2)
  BY <1>0
<1>1. CASE f = "tcp_udp"
  <2>1. Opens(f, <<"tcp", "udp">>, <<addr, addr>>, <<"all", "all">>, FALSE)
    BY <1>1, SixFunctions, Zenon
  <2>2. QED
    BY <2>1 DEF Opens
<1>2. CASE f = "any_diff_ifs"
  <2>1. Opens(f, <<"udp", "udp">>, <<"any", "any">>, <<"ens33", "ens34">>, FALSE)
    BY <1>2, SixFunctions, Zenon
  <2>2. QED
    BY <2>1 DEF Opens
<1>3. CASE f = "diff_addr"
  <2>1. Opens(f, <<"udp", "udp">>, <<addr, "loopback">>, <<"all", "all">>, FALSE)
    BY <1>3, SixFunctions, Zenon
  <2>2. QED
    BY <2>1 DEF Opens
<1>4. CASE f = "any"
  <2>1. Opens(f, <<"udp", "udp">>, <<"any", "any">>, <<"all", "all">>, TRUE)
    BY <1>4, SixFunctions, Zenon
  <2>2. QED
    BY <2>1 DEF Opens
<1>5. CASE f = "local_and_any"
  <2>1. Opens(f, <<"udp", "udp">>, <<addr, addr>>, <<"all", "all">>, TRUE)
    BY <1>5, SixFunctions, Zenon
  <2>2. QED
    BY <2>1 DEF Opens
<1>6. CASE f = "local"
  <2>1. Opens(f, <<"udp", "udp">>, <<addr, addr>>, <<"all", "all">>, TRUE)
    BY <1>6, SixFunctions, Zenon
  <2>2. QED
    BY <2>1 DEF Opens
<1>7. QED
  BY <1>1, <1>2, <1>3, <1>4, <1>5, <1>6 DEF TestNames

(* Which function is running depends on what is left to do and the         *)
(* address.                                                                *)
LEMMA SameTest ==
  ASSUME addr' = addr, todo' = todo
  PROVE  Test' = Test
BY DEF Test, Function, test_tcp_udp_same_ports, test_udp_any_addr_same_port_diff_ifs,
       test_udp_diff_addr_same_port, test_udp_any_addr_same_port,
       test_udp_local_and_any_addr_same_port, test_udp_local_addr_same_port, Udp

(* The socket is one that the function which runs has opened, with all of  *)
(* its options.                                                            *)
AsOpened(s) == /\ s.proto = Test.proto[s.n] /\ s.addr = Test.addr[s.n]
               /\ s.dev = Test.dev[s.n] /\ s.reuse = Test.reuse

(* A function finds no bound socket, and up to its second bind its second  *)
(* socket is not bound; what it has opened, and bound, is there.           *)
ReuseInv ==
  /\ Experiment \in DOMAIN at /\ ReuseTypeOK
  /\ todo \in Seq(TestNames)
  /\ at[Experiment] # "ended" => todo # <<>>
  /\ \A s \in sockets : /\ s.n = 0 => ~s.bound
                        /\ at[Experiment] \in {"socket1", "ended"} => s.n = 0
                        /\ at[Experiment] = "socket2" => s.n # 2
                        /\ at[Experiment] \in {"socket2", "bind1"} => ~s.bound
                        /\ at[Experiment] = "bind2" /\ s.bound => s.n = 1
                        /\ s.n # 0 /\ ~trouble => AsOpened(s)
  /\ ~trouble => /\ at[Experiment] \in {"socket2", "bind1"} => Own(1) # {}
                 /\ at[Experiment] \in {"bind1", "bind2"} => Own(2) # {}
                 /\ at[Experiment] = "bind2" => \E s \in Own(1) : s.bound
  /\ MessageIsTrue

SocketOf(flags) ==
  [n : 0 .. 2, proto : {"tcp", "udp"}, addr : {"loopback", "any", "host"},
   dev : {"all", "ens33", "ens34"}, reuse : flags, bound : flags]

(* Sockets are such records, and stay so when they are bound or lose their *)
(* function.                                                               *)
LEMMA SocketsAre ==
  /\ ReuseInv => sockets \subseteq SocketOf(BOOLEAN)
  /\ \A flags : \A s \in SocketOf(flags) :
       /\ [s EXCEPT !.n = 0] \in SocketOf(flags)
       /\ [s EXCEPT !.n = 0].n = 0 /\ [s EXCEPT !.n = 0].bound = s.bound
       /\ \A b \in flags : /\ [s EXCEPT !.bound = b] \in SocketOf(flags)
                           /\ [s EXCEPT !.bound = b].bound = b
<1>1. ReuseInv => sockets \subseteq SocketOf(BOOLEAN)
  BY Zenon DEF ReuseInv, ReuseTypeOK, SocketOf
<1>2. ASSUME NEW flags, NEW s \in SocketOf(flags)
      PROVE  /\ [s EXCEPT !.n = 0] \in SocketOf(flags)
             /\ [s EXCEPT !.n = 0].n = 0 /\ [s EXCEPT !.n = 0].bound = s.bound
  BY DEF SocketOf
<1>3. ASSUME NEW flags, NEW s \in SocketOf(flags), NEW b \in flags
      PROVE  /\ [s EXCEPT !.bound = b] \in SocketOf(flags)
             /\ [s EXCEPT !.bound = b].bound = b
  BY DEF SocketOf
<1>4. QED
  BY <1>1, <1>2, <1>3

(* So is a socket that has just been opened.                               *)
LEMMA OpenedSocket ==
  ASSUME NEW flags, NEW n \in 0 .. 2, NEW proto \in {"tcp", "udp"},
         NEW ip \in {"loopback", "any", "host"}, NEW dev \in {"all", "ens33", "ens34"},
         NEW reuse \in flags, NEW bound \in flags
  PROVE  [n |-> n, proto |-> proto, addr |-> ip, bound |-> bound, dev |-> dev,
          reuse |-> reuse] \in SocketOf(flags)
BY DEF SocketOf

(* There is no socket at the start, and a function to call.                *)
LEMMA ReuseInvInit == Init => ReuseInv
<1> SUFFICES ASSUME Init PROVE ReuseInv
  OBVIOUS
<1>1. ASSUME NEW p \in {Experiment}
      PROVE  p \in DOMAIN at /\ at[p] = "socket1"
  <2>1. p \in DOMAIN Start[5] /\ Start[5][p] = "socket1"
    BY DEF Start, ReuseStart
  <2>2. QED
    BY <2>1, StartSteps
<1>2. /\ addr \in {"loopback", "any", "host"} /\ todo \in TestNames \X TestNames
      /\ sockets = {} /\ trouble = FALSE
  BY DEF Init, ReuseInit
<1>3. todo \in Seq(TestNames) /\ todo # <<>>
  <2>1. PICK f \in TestNames, g \in TestNames : todo = <<f, g>>
    BY <1>2
  <2>2. QED
    BY <2>1
<1>4. trouble \in BOOLEAN
  BY <1>2, Zenon
<1>5. \A k \in DOMAIN todo : todo[k] \in TestNames
  BY <1>3
<1>6. QED
  BY <1>1, <1>2, <1>3, <1>4, <1>5 DEF ReuseInv, ReuseTypeOK, MessageIsTrue

(* The sockets a function leaves open when it returns are bound nowhere.   *)
LEMMA ReturnStep ==
  ASSUME ReuseInv, NEW from \in {"socket1", "socket2", "close"}, NEW kept \in SUBSET sockets,
         \A s \in kept : ~s.bound, Return(from, kept)
  PROVE  ReuseInv'
<1>1. /\ at[Experiment] = from /\ DOMAIN at' = DOMAIN at
      /\ at'[Experiment] = IF Len(todo) = 1 THEN "ended" ELSE "socket1"
      /\ sockets' = { [s EXCEPT !.n = 0] : s \in kept }
      /\ todo' = Tail(todo) /\ trouble' = FALSE /\ addr' = addr
  BY DEF ReuseInv, Return, Step
<1>2. todo \in Seq(TestNames) /\ todo # <<>>
  BY <1>1 DEF ReuseInv
<1>3. /\ Tail(todo) \in Seq(TestNames) /\ Len(todo) # 1 => Tail(todo) # <<>>
      /\ \A k \in DOMAIN Tail(todo) : Tail(todo)[k] \in TestNames
  <2>1. Tail(todo) \in Seq(TestNames) /\ Len(Tail(todo)) = Len(todo) - 1 /\ Len(todo) \in Nat
    BY <1>2
  <2>2. ASSUME Len(todo) # 1, Tail(todo) = <<>>
        PROVE  FALSE
    <3>1. Len(Tail(todo)) = 0
      BY <2>2
    <3>2. Len(todo) # 0
      BY <1>2
    <3>3. QED
      BY <2>1, <2>2, <3>1, <3>2
  <2>3. \A k \in DOMAIN Tail(todo) : Tail(todo)[k] \in TestNames
    BY <2>1
  <2>4. QED
    BY <2>1, <2>2, <2>3
<1>4. ASSUME NEW t \in sockets'
      PROVE  /\ t \in SocketOf(BOOLEAN)
             /\ t.n = 0 /\ ~t.bound
  <2>1. PICK s \in kept : t = [s EXCEPT !.n = 0]
    BY <1>1, <1>4
  <2>2. /\ s \in SocketOf(BOOLEAN)
        /\ ~s.bound
    BY <2>1, SocketsAre
  <2>3. QED
    <3>1. TRUE \in BOOLEAN
      OBVIOUS
    <3>2. QED
      BY <2>1, <2>2, <3>1, SocketsAre, Zenon
<1>5. trouble' \in BOOLEAN
  BY <1>1, Zenon
<1>6. ReuseTypeOK'
  BY <1>1, <1>3, <1>4, <1>5 DEF ReuseInv, ReuseTypeOK, SocketOf
<1>7. QED
  BY <1>1, <1>2, <1>3, <1>4, <1>6 DEF ReuseInv, MessageIsTrue

(* What the two calls of socket() have in common.                          *)
LEMMA OpenStep ==
  ASSUME ReuseInv, NEW n \in 1 .. 2, NEW from, NEW to, OpenSocket(n, from, to),
         \/ n = 1 /\ from = "socket1" /\ to = "socket2"
         \/ n = 2 /\ from = "socket2" /\ to = "bind1"
  PROVE  ReuseInv'
<1>1. at[Experiment] = from
  BY DEF OpenSocket
<1>2. CASE Return(from, sockets)
  BY <1>1, <1>2, ReturnStep DEF ReuseInv
<1>3. CASE ~Return(from, sockets)
  <2>1. PICK f \in TestNames : f = Head(todo)
    BY <1>1 DEF ReuseInv
  <2>2. Test = Function[f]
    BY <2>1 DEF Test
  <2>3. /\ at'[Experiment] = to /\ DOMAIN at' = DOMAIN at /\ addr' = addr /\ todo' = todo
        /\ Test' = Test
    BY <1>3, SameTest DEF OpenSocket, ReuseInv, Step
  <2>4. trouble \in BOOLEAN
    BY DEF ReuseInv, ReuseTypeOK
  <2>5. CASE trouble' = TRUE /\ sockets' = sockets
    BY <1>1, <2>3, <2>5 DEF ReuseInv, ReuseTypeOK, MessageIsTrue
  <2>6. CASE ~(trouble' = TRUE /\ sockets' = sockets)
    <3>1. PICK optionsSet \in {TRUE, ~faulty} :
            /\ sockets' = sockets \union
                 {[ n |-> n, proto |-> Test.proto[n], addr |-> Test.addr[n], bound |-> FALSE,
                    dev |-> IF optionsSet THEN Test.dev[n] ELSE "all",
                    reuse |-> optionsSet /\ Test.reuse ]}
            /\ trouble' = (trouble \/ ~optionsSet)
      BY <1>3, <2>6 DEF OpenSocket
    <3>2. PICK opened :
            opened = [ n |-> n, proto |-> Test.proto[n], addr |-> Test.addr[n], bound |-> FALSE,
                       dev |-> IF optionsSet THEN Test.dev[n] ELSE "all",
                       reuse |-> optionsSet /\ Test.reuse ]
      OBVIOUS
    <3>3. /\ sockets' = sockets \union {opened}
          /\ opened.n = n /\ opened.proto = Test.proto[n] /\ opened.addr = Test.addr[n]
          /\ ~opened.bound
      BY <3>1, <3>2
    <3>4. /\ Test.proto[n] \in {"tcp", "udp"} /\ Test.addr[n] \in {"loopback", "any", "host"}
          /\ Test.dev[n] \in {"all", "ens33", "ens34"} /\ Test.reuse \in BOOLEAN
      BY <2>2, TestTypes DEF ReuseInv, ReuseTypeOK
    <3>5. (optionsSet /\ Test.reuse) \in BOOLEAN /\ opened.reuse = (optionsSet /\ Test.reuse)
      BY <3>2
    <3>6. opened \in SocketOf(BOOLEAN)
      <4>1. FALSE \in BOOLEAN
        OBVIOUS
      <4>2. (IF optionsSet THEN Test.dev[n] ELSE "all") \in {"all", "ens33", "ens34"}
        BY <3>4
      <4>3. n \in 0 .. 2
        OBVIOUS
      <4>4. QED
        <5>1. PICK proto, ip, dev, reuse :
                /\ proto = Test.proto[n] /\ ip = Test.addr[n]
                /\ dev = (IF optionsSet THEN Test.dev[n] ELSE "all")
                /\ reuse = (optionsSet /\ Test.reuse)
          BY Zenon
        <5>2. opened = [n |-> n, proto |-> proto, addr |-> ip, bound |-> FALSE,
                        dev |-> dev, reuse |-> reuse]
          BY <3>2, <5>1, Zenon
        <5>3. /\ proto \in {"tcp", "udp"} /\ ip \in {"loopback", "any", "host"}
              /\ dev \in {"all", "ens33", "ens34"} /\ reuse \in BOOLEAN
          BY <3>4, <3>5, <4>2, <5>1, Zenon
        <5>4. QED
          <6>1. PICK flags, unbound : flags = BOOLEAN /\ unbound = FALSE
            BY Zenon
          <6>2. unbound \in flags /\ reuse \in flags
            BY <4>1, <5>3, <6>1, Zenon
          <6>3. [n |-> n, proto |-> proto, addr |-> ip, bound |-> unbound, dev |-> dev,
                 reuse |-> reuse] \in SocketOf(flags)
            BY <4>3, <5>3, <6>2, OpenedSocket
          <6>4. QED
            BY <5>2, <6>1, <6>3, Zenon
    <3>7. ~trouble' => /\ ~trouble /\ optionsSet
                       /\ opened.dev = Test.dev[n] /\ opened.reuse = Test.reuse
      BY <3>1, <3>2, <3>4
    <3>8. trouble' \in BOOLEAN
      BY <3>1, Zenon
    <3>9. ReuseTypeOK'
      BY <1>1, <2>3, <3>3, <3>6, <3>8 DEF ReuseInv, ReuseTypeOK, SocketOf
    <3>10. ASSUME NEW s \in sockets'
           PROVE  /\ s.n = 0 => ~s.bound
                  /\ to = "socket2" => s.n # 2
                  /\ ~s.bound
                  /\ s.n # 0 /\ ~trouble' => AsOpened(s)'
      <4>1. CASE s \in sockets
        BY <1>1, <2>3, <3>7, <4>1 DEF ReuseInv, AsOpened
      <4>2. CASE s = opened
        BY <1>1, <2>3, <3>3, <3>7, <4>2 DEF AsOpened
      <4>3. QED
        BY <3>3, <4>1, <4>2
    <3>11. QED
      <4>1. ~trouble' => /\ to \in {"socket2", "bind1"} => Own(1)' # {}
                         /\ to = "bind1" => Own(2)' # {}
        BY <1>1, <3>3, <3>7 DEF ReuseInv, Own
      <4>2. /\ to \in {"socket2", "bind1"} /\ todo' \in Seq(TestNames) /\ todo' # <<>>
            /\ Experiment \in DOMAIN at'
        BY <1>1, <2>3 DEF ReuseInv
      <4>3. QED
        BY <2>3, <3>9, <3>10, <4>1, <4>2 DEF ReuseInv, MessageIsTrue
  <2>7. QED
    BY <2>5, <2>6
<1>4. QED
  BY <1>2, <1>3

(* A function's second socket is kept from its port by the first only if   *)
(* they overlap on purpose.                                                *)
LEMMA OnlyOverlaps ==
  ASSUME ReuseInv, ~trouble, at[Experiment] = "bind2", NEW s \in Own(2), IsInUse(s)
  PROVE  Head(todo) = "diff_addr" /\ addr # "host"
<1>1. PICK t \in sockets : t.bound /\ Conflict(s, t)
  BY DEF IsInUse
<1>2. PICK f \in TestNames : f = Head(todo)
  BY DEF ReuseInv
<1>3. Test = Function[f]
  BY <1>2 DEF Test
<1>4. t.n = 1 /\ s.n = 2 /\ AsOpened(s) /\ AsOpened(t)
  BY <1>1 DEF ReuseInv, Own
<1>5. /\ Function[f].proto[2] = Function[f].proto[1]
      /\ Function[f].addr[2] = Function[f].addr[1]
           \/ "any" \in {Function[f].addr[2], Function[f].addr[1]}
      /\ Function[f].reuse # TRUE
      /\ Function[f].dev[2] = Function[f].dev[1]
           \/ "all" \in {Function[f].dev[2], Function[f].dev[1]}
  <2>1. /\ s.proto = Test.proto[2] /\ s.addr = Test.addr[2]
        /\ s.dev = Test.dev[2] /\ s.reuse = Test.reuse
    BY <1>4 DEF AsOpened
  <2>2. /\ t.proto = Test.proto[1] /\ t.addr = Test.addr[1]
        /\ t.dev = Test.dev[1] /\ t.reuse = Test.reuse
    BY <1>4 DEF AsOpened
  <2>3. s.proto = t.proto
    BY <1>1 DEF Conflict
  <2>4. s.addr = t.addr \/ "any" \in {s.addr, t.addr}
    BY <1>1 DEF Conflict
  <2>5. ~(s.reuse /\ t.reuse)
    BY <1>1 DEF Conflict
  <2>6. s.dev = t.dev \/ "all" \in {s.dev, t.dev}
    BY <1>1 DEF Conflict
  <2>7. Test.reuse # TRUE
    <3>1. s.reuse = Test.reuse
      BY <2>1, Zenon
    <3>2. t.reuse = Test.reuse
      BY <2>2, Zenon
    <3>3. QED
      BY <2>5, <3>1, <3>2, Zenon
  <2>8. QED
    <3>1. Test.proto[2] = Test.proto[1]
      <4>1. s.proto = Test.proto[2]
        BY <2>1, Zenon
      <4>2. t.proto = Test.proto[1]
        BY <2>2, Zenon
      <4>3. QED
        BY <2>3, <4>1, <4>2, Zenon
    <3>2. Test.addr[2] = Test.addr[1] \/ "any" \in {Test.addr[2], Test.addr[1]}
      <4>1. s.addr = Test.addr[2] /\ t.addr = Test.addr[1]
        BY <2>1, <2>2, Zenon
      <4>2. CASE s.addr = t.addr
        BY <4>1, <4>2, Zenon
      <4>3. CASE "any" \in {s.addr, t.addr}
        BY <4>1, <4>3, Zenon
      <4>4. QED
        BY <2>4, <4>2, <4>3, Zenon
    <3>3. Test.dev[2] = Test.dev[1] \/ "all" \in {Test.dev[2], Test.dev[1]}
      <4>1. s.dev = Test.dev[2] /\ t.dev = Test.dev[1]
        BY <2>1, <2>2, Zenon
      <4>2. CASE s.dev = t.dev
        BY <4>1, <4>2, Zenon
      <4>3. CASE "all" \in {s.dev, t.dev}
        BY <4>1, <4>3, Zenon
      <4>4. QED
        BY <2>6, <4>2, <4>3, Zenon
    <3>4. QED
      BY <1>3, <2>7, <3>1, <3>2, <3>3, Zenon
<1>6. f = "diff_addr" /\ Function[f].addr[1] = addr /\ Function[f].addr[2] = "loopback"
  BY <1>5, TestsDiffer
<1>7. QED
  BY <1>2, <1>5, <1>6

(* What the two binds have in common.                                      *)
LEMMA BindStep ==
  ASSUME ReuseInv, NEW n \in 1 .. 2, NEW from, NEW to, BindSocket(n, from, to),
         \/ n = 1 /\ from = "bind1" /\ to = "bind2"
         \/ n = 2 /\ from = "bind2" /\ to = "close"
  PROVE  ReuseInv'
<1>1. /\ at[Experiment] = from /\ at'[Experiment] = to /\ DOMAIN at' = DOMAIN at
      /\ addr' = addr /\ todo' = todo /\ Test' = Test
  BY SameTest DEF BindSocket, ReuseInv, Step
<1>2. /\ Experiment \in DOMAIN at' /\ todo' \in Seq(TestNames) /\ todo' # <<>>
      /\ addr' \in {"loopback", "any", "host"} /\ \A k \in DOMAIN todo' : todo'[k] \in TestNames
  BY <1>1 DEF ReuseInv, ReuseTypeOK
<1>3. CASE UNCHANGED sockets /\ trouble' = (trouble \/ \A s \in Own(n) : ~IsInUse(s))
                             /\ (faulty \/ \E s \in Own(n) : IsInUse(s))
  <2>1. ~trouble' => ~trouble /\ n = 2 /\ \E s \in Own(2) : IsInUse(s)
    BY <1>1, <1>3 DEF ReuseInv, Own, IsInUse
  <2>2. ~trouble' => Head(todo)' = "diff_addr" /\ addr' # "host"
    BY <1>1, <2>1, OnlyOverlaps
  <2>3. trouble' \in BOOLEAN
    BY <1>3, Zenon
  <2>4. ReuseTypeOK'
    BY <1>1, <1>2, <1>3, <2>3 DEF ReuseInv, ReuseTypeOK
  <2>5. \A s \in sockets' : AsOpened(s)' <=> AsOpened(s)
    BY <1>1 DEF AsOpened
  <2>6. QED
    BY <1>1, <1>2, <1>3, <2>1, <2>2, <2>4, <2>5 DEF ReuseInv, MessageIsTrue
<1>4. ASSUME NEW s \in Own(n), ~IsInUse(s), UNCHANGED trouble,
             sockets' = (sockets \ {s}) \union {[s EXCEPT !.bound = TRUE]}
      PROVE  ReuseInv'
  <2>1. PICK bound : bound = [s EXCEPT !.bound = TRUE]
    OBVIOUS
  <2>2. /\ s \in sockets /\ s.n = n /\ s \in SocketOf(BOOLEAN)
        /\ sockets' = (sockets \ {s}) \union {bound}
    BY <1>4, <2>1, SocketsAre DEF Own
  <2>3. bound \in SocketOf(BOOLEAN) /\ bound.bound = TRUE
    <3>1. TRUE \in BOOLEAN
      OBVIOUS
    <3>2. QED
      BY <2>1, <2>2, <3>1, SocketsAre, Zenon
  <2>4. /\ bound.n = s.n /\ bound.proto = s.proto /\ bound.addr = s.addr /\ bound.dev = s.dev
        /\ bound.reuse = s.reuse
    BY <2>1, <2>2 DEF SocketOf
  <2>5. ReuseTypeOK'
    <3>1. sockets \subseteq SocketOf(BOOLEAN) /\ trouble' \in BOOLEAN
      BY <1>4, SocketsAre DEF ReuseInv, ReuseTypeOK
    <3>2. sockets' \subseteq SocketOf(BOOLEAN)
      BY <2>2, <2>3, <3>1
    <3>3. QED
      BY <1>1, <1>2, <3>1, <3>2, Zenon DEF ReuseTypeOK, SocketOf
  <2>6. ASSUME NEW t \in sockets'
        PROVE  /\ t.n = 0 => ~t.bound
               /\ to = "bind2" /\ t.bound => t.n = 1
               /\ t.n # 0 /\ ~trouble' => AsOpened(t)'
    <3>1. CASE t \in sockets
      BY <1>1, <1>4, <3>1 DEF ReuseInv, AsOpened
    <3>2. CASE t = bound
      BY <1>1, <1>4, <2>2, <2>4, <3>2 DEF ReuseInv, AsOpened
    <3>3. QED
      BY <2>2, <3>1, <3>2
  <2>7. \E t \in Own(n)' : t.bound
    BY <2>2, <2>3, <2>4 DEF Own
  <2>8. \A m \in {1, 2} : m # n => \A t \in Own(m) : t \in Own(m)'
    BY <2>2 DEF Own
  <2>9. CASE n = 1
    BY <1>1, <1>2, <1>4, <2>5, <2>6, <2>7, <2>8, <2>9 DEF ReuseInv, MessageIsTrue
  <2>10. CASE n = 2
    <3>1. ~trouble' => \A m \in 1 .. 2 : \E t \in Own(m)' : t.bound
      BY <1>1, <1>4, <2>7, <2>8, <2>10 DEF ReuseInv
    <3>2. QED
      BY <1>1, <1>2, <1>4, <2>5, <2>6, <2>10, <3>1 DEF ReuseInv, MessageIsTrue
  <2>11. QED
    BY <2>9, <2>10
<1>5. QED
  BY <1>3, <1>4 DEF BindSocket

(* Whichever functions are called, and whatever fails in them, no socket   *)
(* that another function left open is bound, and the running one's have    *)
(* its protocol, address and device unless a call of it failed.            *)
THEOREM ReuseInvariant == Spec => []ReuseInv
<1>1. FanInv /\ ReuseInv /\ [Next]_vars => ReuseInv'
  <2> SUFFICES ASSUME FanInv, ReuseInv, [Next]_vars PROVE ReuseInv'
    OBVIOUS
  <2>1. CASE RunReuse
    <3>1. CASE CloseSockets
      BY <3>1, ReturnStep DEF CloseSockets, Keeps, ReuseInv
    <3>2. QED
      BY <2>1, <3>1, OpenStep, BindStep DEF RunReuse, ReuseNext
  <2>2. CASE ~RunReuse
    <3>1. UNCHANGED reuseVars
      BY <2>2 DEF Next, RunLock, RunPipe, RunEcho, RunFanout, RunReuse, RunMap, RunVeth, RunIp,
                  RunArray, RunSalary, vars
    <3>2. at'[Experiment] = at[Experiment] /\ DOMAIN at' = DOMAIN at
      <4>1. CASE program = "reuse"
        BY <2>2, <4>1 DEF Next, RunLock, RunPipe, RunEcho, RunFanout, RunMap, RunVeth, RunIp,
                          RunArray, RunSalary, vars
      <4>2. CASE program # "reuse"
        <5>1. DOMAIN Start[5] = {Experiment} /\ program \notin ProgramsOf[5]
          BY <4>2 DEF Start, ReuseStart, ProgramsOf
        <5>2. PICK p \in DOMAIN Start[5] : p = Experiment
          BY <5>1
        <5>3. QED
          BY <5>1, <5>2, OthersLeaveAll, SameProcesses DEF ReuseInv
      <4>3. QED
        BY <4>1, <4>2
    <3>3. QED
      <4>1. Test' = Test
        BY <3>1, SameTest DEF reuseVars
      <4>2. QED
        BY <3>1, <3>2, <4>1 DEF ReuseInv, ReuseTypeOK, reuseVars, AsOpened, Own, MessageIsTrue
  <2>3. QED
    BY <2>1, <2>2
<1>2. QED
  BY <1>1, ReuseInvInit, FanInvariant, PTL DEF Spec

(* Whatever main has called before, and whatever failed and was left open, *)
(* a function none of whose own calls failed has bound both its sockets    *)
(* when it says that it has, but for test_udp_diff_addr_same_port with the *)
(* loopback or any address (reuse_addr_option.c:39-42, 62-70, 184-187,     *)
(* 210-214).                                                               *)
THEOREM MessagesAreTrue == Spec => []MessageIsTrue
<1>1. ReuseInv => MessageIsTrue
  BY DEF ReuseInv
<1>2. QED
  BY <1>1, ReuseInvariant, PTL
-----------------------------------------------------------------------------
(* Every range of positions has a first one with its largest element: of   *)
(* two ranges that begin at i, the longer one's is the shorter one's or    *)
(* beyond it.                                                              *)
FirstLargest(a, i, n, p) == /\ p \in i .. i + n
                            /\ \A j \in i .. i + n : a[j] <= a[p]
                            /\ \A j \in i .. p - 1 : a[j] < a[p]

(* Were there a range without one, there would be a shortest: its last     *)
(* position, or the largest of the others, is the largest of all.          *)
LEMMA RangesHaveLargest ==
  ASSUME NEW a \in [Index -> Element], NEW i \in Nat, NEW m \in Nat, i + m < MAXSIZE
  PROVE  \E p : FirstLargest(a, i, m, p)
<1> DEFINE None == { n \in Nat : i + n < MAXSIZE /\ ~ \E p : FirstLargest(a, i, n, p) }
<1>1. SUFFICES ASSUME m \in None
               PROVE  FALSE
  OBVIOUS
<1>2. PICK n \in None : \A k \in None : ~(k < n)
  <2>1. IsWellFoundedOn(OpToRel(<, Nat), Nat)
    BY NatLessThanWellFounded
  <2>2. PICK x \in None : \A y \in None : ~(<<y, x>> \in OpToRel(<, Nat))
    <3>1. None \subseteq Nat /\ None # {}
      BY <1>1
    <3>2. QED
      BY <2>1, <3>1, WFMin, Zenon
  <2>3. QED
    BY <2>2 DEF OpToRel
<1>3. \A j \in i .. i + n : j \in Index /\ a[j] \in Int
  <2>1. n \in Nat /\ i + n < MAXSIZE /\ MAXSIZE \in Nat
    BY ArrayAssumption
  <2>2. \A j \in i .. i + n : j \in Index
    BY <2>1 DEF Index
  <2>3. QED
    BY <2>2, ArrayAssumption
<1>4. n # 0
  <2>1. SUFFICES ASSUME n = 0
                 PROVE  FALSE
    OBVIOUS
  <2>2. FirstLargest(a, i, n, i)
    BY <1>3, <2>1 DEF FirstLargest
  <2>3. QED
    BY <2>2
<1>5. PICK p : FirstLargest(a, i, n - 1, p)
  <2>1. n - 1 \in Nat /\ i + (n - 1) < MAXSIZE /\ n - 1 < n
    BY <1>4, ArrayAssumption
  <2>2. QED
    BY <1>2, <2>1
<1>6. p \in i .. i + n /\ n \in Nat /\ \A j \in i .. i + n : j # i + n => j \in i .. i + (n - 1)
  BY <1>5 DEF FirstLargest
<1>7. CASE a[i + n] <= a[p]
  <2>1. FirstLargest(a, i, n, p)
    BY <1>5, <1>6, <1>7 DEF FirstLargest
  <2>2. QED
    BY <2>1
<1>8. CASE ~(a[i + n] <= a[p])
  <2>1. \A j \in i .. i + n : j # i + n => a[j] < a[i + n]
    BY <1>3, <1>5, <1>6, <1>8 DEF FirstLargest
  <2>2. FirstLargest(a, i, n, i + n)
    BY <1>3, <1>6, <2>1 DEF FirstLargest
  <2>3. QED
    BY <2>2
<1>9. QED
  BY <1>7, <1>8

(* What Sort looks for from position i on is a position, and none behind i *)
(* has a larger element.                                                   *)
LEMMA LargestIsThere ==
  ASSUME array \in [Index -> Element], NEW i \in Index
  PROVE  /\ Largest(i) \in i .. MAXSIZE - 1
         /\ \A j \in i .. MAXSIZE - 1 : array[j] <= array[Largest(i)]
<1>1. PICK m \in Nat : m = MAXSIZE - 1 - i
  BY ArrayAssumption DEF Index
<1>2. i + m = MAXSIZE - 1 /\ i \in Nat /\ i + m < MAXSIZE
  BY <1>1, ArrayAssumption DEF Index
<1>3. \E p : FirstLargest(array, i, m, p)
  BY <1>2, RangesHaveLargest
<1>4. QED
  BY <1>2, <1>3 DEF FirstLargest, Largest

(* An exchange changes the number of no element.                           *)
Exchanged(a, b, i, p) ==
  \A k \in Index : b[k] = IF k = i THEN a[p] ELSE IF k = p THEN a[i] ELSE a[k]

(* So many positions have the element after the exchange as before: the    *)
(* exchange itself takes the ones to the others.                           *)
LEMMA ExchangesKeepElements ==
  ASSUME NEW a, NEW i \in Index, NEW p \in Index, NEW b, NEW e, Exchanged(a, b, i, p)
  PROVE  Occurrences(b, e) = Occurrences(a, e)
<1> DEFINE atFirst == { k \in Index : a[k] = e }
           atLast == { k \in Index : b[k] = e }
           f == [k \in atFirst |-> IF k = i THEN p ELSE IF k = p THEN i ELSE k]
<1> USE DEF Exchanged
<1>1. f \in [atFirst -> atLast]
  OBVIOUS
<1>2. \A k, l \in atFirst : f[k] = f[l] => k = l
  OBVIOUS
<1>3. ASSUME NEW l \in atLast
      PROVE  \E k \in atFirst : f[k] = l
  <2>1. PICK k : k = IF l = i THEN p ELSE IF l = p THEN i ELSE l
    OBVIOUS
  <2>2. k \in atFirst /\ f[k] = l
    BY <2>1
  <2>3. QED
    BY <2>2
<1>4. ExistsBijection(atFirst, atLast)
  <2>1. DOMAIN f = atFirst
    OBVIOUS
  <2>2. f \in Injection(atFirst, atLast)
    BY <1>1, <1>2, <2>1, Zenon DEF Injection, IsInjective
  <2>3. f \in Surjection(atFirst, atLast)
    BY <1>1, <1>3, Zenon DEF Surjection
  <2>4. QED
    BY <2>2, <2>3, Zenon DEF ExistsBijection, Bijection
<1>5. IsFiniteSet(atFirst)
  <2>1. IsFiniteSet(Index) /\ atFirst \subseteq Index
    BY ArrayAssumption, FS_Interval DEF Index
  <2>2. QED
    BY <2>1, FS_Subset
<1>6. QED
  BY <1>4, <1>5, FS_Bijection DEF Occurrences

ArrayInv == ArrayTypeOK /\ SortsDescending

(* A round of Sort puts the largest of what is left behind what is sorted. *)
LEMMA SortStep ==
  ASSUME ArrayInv, SortPosition
  PROVE  ArrayInv'
<1>1. PICK n \in Index, p \in Index :
        /\ n = sorted /\ p \in n .. MAXSIZE - 1 /\ \A j \in n .. MAXSIZE - 1 : array[j] <= array[p]
        /\ array' = [array EXCEPT ![n] = array[p], ![p] = array[n]]
  <2>1. sorted \in Index
    BY ArrayAssumption DEF ArrayInv, ArrayTypeOK, SortPosition, Index
  <2>2. Largest(sorted) \in Index
    BY <2>1, LargestIsThere, ArrayAssumption DEF ArrayInv, ArrayTypeOK, Index
  <2>3. QED
    BY <2>1, <2>2, LargestIsThere DEF SortPosition, ArrayInv, ArrayTypeOK
<1>2. array \in [Index -> Element] /\ MAXSIZE \in Nat /\ sorted' = n + 1 /\ given' = given
  BY <1>1, ArrayAssumption DEF ArrayInv, ArrayTypeOK, SortPosition
<1>3. ArrayTypeOK'
  BY <1>1, <1>2 DEF ArrayInv, ArrayTypeOK, Index
<1>4. \A k \in Index : array[k] \in Int /\ array'[k] = IF k = n THEN array[p] ELSE
                                                  IF k = p THEN array[n] ELSE array[k]
  BY <1>1, <1>2, ArrayAssumption
<1>5. ASSUME NEW k \in 0 .. n, NEW j \in Index, k < j
      PROVE  array'[j] <= array'[k]
  <2>1. \A l \in Index : l >= n => array[l] <= array[p]
    BY <1>1, <1>2 DEF Index
  <2>2. CASE k = n
    BY <1>1, <1>2, <1>4, <1>5, <2>1, <2>2 DEF Index
  <2>3. CASE k < n
    <3>1. \A l \in Index : k < l => array[l] <= array[k]
      <4>1. k \in 0 .. sorted - 1
        BY <1>1, <1>2, <2>3 DEF Index
      <4>2. QED
        BY <4>1 DEF ArrayInv, SortsDescending
    <3>2. k \in Index /\ k # n /\ k # p /\ k < p /\ k < n
      BY <1>1, <1>2, <2>3 DEF Index
    <3>3. QED
      BY <1>4, <1>5, <3>1, <3>2
  <2>4. QED
    BY <1>1, <2>2, <2>3 DEF Index
<1>6. ASSUME NEW e \in Element
      PROVE  Occurrences(array', e) = Occurrences(given', e)
  <2>1. PICK a, b : a = array /\ b = array'
    OBVIOUS
  <2>2. Exchanged(a, b, n, p)
    BY <1>4, <2>1 DEF Exchanged
  <2>3. Occurrences(b, e) = Occurrences(a, e)
    BY <2>2, ExchangesKeepElements
  <2>4. Occurrences(array, e) = Occurrences(given, e)
    BY DEF ArrayInv, SortsDescending
  <2>5. QED
    BY <1>2, <2>1, <2>3, <2>4
<1>7. SortsDescending'
  <2>1. sorted' - 1 = n
    BY <1>1, <1>2 DEF Index
  <2>2. \A e \in Element : Occurrences(array, e)' = Occurrences(given, e)'
    BY <1>6 DEF Occurrences, Index
  <2>3. \A k \in 0 .. n, j \in Index : k < j => array'[j] <= array'[k]
    BY <1>5
  <2>4. QED
    BY <2>1, <2>2, <2>3 DEF SortsDescending, Index
<1>8. QED
  BY <1>3, <1>7 DEF ArrayInv

Row == [name : Person, salary : Salary \union {0}]

(* The table has one entry of the name at most, which shows the salary.    *)
OneEntry(table, p, salary) ==
  /\ \A k, l \in 1 .. Len(table) : table[k].name = p /\ table[l].name = p => k = l
  /\ salary # 0 => \E k \in 1 .. Len(table) : table[k].name = p /\ table[k].salary = salary

SalaryInv == /\ employ \in Seq(Row) /\ uses \in 0 .. MaxUses
             /\ DOMAIN set = Person /\ \A p \in Person : OneEntry(employ, p, set[p])

(* The table that has the name, and where operator[] finds it.             *)
FoundAt(p, table, entry) ==
  /\ table = WithEntry(p)
  /\ entry = IF Found(p) # {} THEN CHOOSE k \in Found(p) : \A l \in Found(p) : k <= l
                              ELSE Len(employ) + 1

(* Where the name is after operator[], and that the rest is as it was.     *)
LEMMA EntryIsFound ==
  ASSUME SalaryInv, NEW p \in Person, NEW table, NEW entry, FoundAt(p, table, entry)
  PROVE  /\ table \in Seq(Row) /\ entry \in 1 .. Len(table) /\ table[entry].name = p
         /\ \A q \in Person : OneEntry(table, q, set[q])
<1>1. employ \in Seq(Row) /\ Len(employ) \in Nat /\ OneEntry(employ, p, set[p])
  BY DEF SalaryInv
<1> USE DEF FoundAt
<1>2. CASE Found(p) # {}
  <2>1. PICK k \in 1 .. Len(employ) : employ[k].name = p
    BY <1>2 DEF Found
  <2>2. Found(p) = {k} /\ k <= k
    BY <1>1, <2>1 DEF OneEntry, Found
  <2>3. entry = k
    BY <1>2, <2>2
  <2>4. QED
    BY <1>2, <2>1, <2>3 DEF SalaryInv, WithEntry
<1>3. CASE Found(p) = {}
  <2>1. PICK row \in Row : row.name = p /\ row.salary = 0 /\ table = Append(employ, row)
    <3>1. [name |-> p, salary |-> 0] \in Row
      BY DEF Row
    <3>2. QED
      BY <1>3, <3>1 DEF WithEntry
  <2>2. entry = Len(employ) + 1 /\ set[p] = 0 /\ \A k \in 1 .. Len(employ) : employ[k].name # p
    BY <1>1, <1>3 DEF OneEntry, Found
  <2>3. /\ table \in Seq(Row) /\ Len(table) = entry /\ entry \in 1 .. Len(table)
        /\ table[entry] = row
        /\ \A k \in 1 .. Len(employ) : table[k] = employ[k] /\ k \in 1 .. Len(table)
        /\ \A k \in 1 .. Len(table) : k = entry \/ k \in 1 .. Len(employ)
    <3>1. table \in Seq(Row) /\ Len(table) = Len(employ) + 1
      BY <1>1, <2>1
    <3>2. table[Len(employ) + 1] = row /\ \A k \in 1 .. Len(employ) : table[k] = employ[k]
      BY <1>1, <2>1
    <3>3. \A k : k \in 1 .. Len(table) <=> k = Len(employ) + 1 \/ k \in 1 .. Len(employ)
      BY <1>1, <3>1
    <3>4. QED
      BY <2>2, <3>1, <3>2, <3>3, Zenon
  <2>4. ASSUME NEW q \in Person
        PROVE  OneEntry(table, q, set[q])
    BY <1>1, <2>1, <2>2, <2>3 DEF OneEntry, SalaryInv
  <2>5. QED
    BY <2>1, <2>3, <2>4
<1>4. QED
  BY <1>2, <1>3

(* Reading a salary and setting one keep one entry a name, with its last   *)
(* salary.                                                                 *)
LEMMA SalaryStep ==
  ASSUME SalaryInv, SalaryNext
  PROVE  SalaryInv'
<1>1. PICK p \in Person : Look(p) \/ \E salary \in Salary : Assign(p, salary)
  BY DEF SalaryNext
<1>2. uses' \in 0 .. MaxUses
  BY SalaryAssumption DEF SalaryNext, SalaryInv
<1>3. PICK table, entry : FoundAt(p, table, entry)
  BY DEF FoundAt
<1>4. /\ table \in Seq(Row) /\ entry \in 1 .. Len(table) /\ table[entry].name = p
      /\ \A q \in Person : OneEntry(table, q, set[q])
  BY <1>3, EntryIsFound
<1>5. CASE Look(p)
  BY <1>2, <1>3, <1>4, <1>5 DEF FoundAt, Look, SalaryInv
<1>6. ASSUME NEW salary \in Salary, Assign(p, salary)
      PROVE  SalaryInv'
  <2>1. employ' = [table EXCEPT ![entry].salary = salary] /\ set' = [set EXCEPT ![p] = salary]
    BY <1>3, <1>6 DEF Assign, FoundAt
  <2>2. DOMAIN set = Person
    BY DEF SalaryInv
  <2>3. table[entry] \in Row
    BY <1>4
  <2>4. PICK row : row = [table[entry] EXCEPT !.salary = salary]
    OBVIOUS
  <2>5. row \in Row /\ row.name = p /\ row.salary = salary
    BY <1>4, <2>3, <2>4 DEF Row
  <2>6. employ' = [table EXCEPT ![entry] = row]
    BY <2>1, <2>4
  <2>7. /\ employ' \in Seq(Row) /\ Len(employ') = Len(table)
        /\ \A k \in 1 .. Len(table) : employ'[k] = IF k = entry THEN row ELSE table[k]
    BY <1>4, <2>5, <2>6
  <2>8. ASSUME NEW q \in Person
        PROVE  OneEntry(employ', q, set'[q])
    <3>1. CASE q = p
      BY <1>4, <2>1, <2>2, <2>5, <2>7, <3>1 DEF OneEntry
    <3>2. CASE q # p
      BY <1>4, <2>1, <2>2, <2>5, <2>7, <3>2 DEF OneEntry
    <3>3. QED
      BY <3>1, <3>2
  <2>9. QED
    BY <1>2, <2>1, <2>2, <2>7, <2>8 DEF SalaryInv
<1>7. QED
  BY <1>1, <1>5, <1>6

(* What OneEntryEach says of the table follows.                            *)
LEMMA SalaryInvIsRight ==
  ASSUME SalaryInv
  PROVE  SalaryTypeOK /\ OneEntryEach
<1>1. employ \in Seq(Row) /\ DOMAIN employ = 1 .. Len(employ)
  BY DEF SalaryInv
<1>2. SalaryTypeOK
  <2>1. \A k \in DOMAIN employ : employ[k] \in Row
    BY <1>1
  <2>2. QED
    BY <2>1, Zenon DEF SalaryInv, SalaryTypeOK, Row
<1>3. OneEntryEach
  <2>1. ASSUME NEW p \in Person
        PROVE  LET of == { k \in DOMAIN employ : employ[k].name = p }
               IN  /\ \A k, l \in of : k = l
                   /\ set[p] # 0 => \E k \in of : employ[k].salary = set[p]
    <3>1. OneEntry(employ, p, set[p])
      BY DEF SalaryInv
    <3>2. QED
      BY <1>1, <3>1, Zenon DEF OneEntry
  <2>2. QED
    BY <2>1, Zenon DEF OneEntryEach
<1>4. QED
  BY <1>2, <1>3

(* As each name has one entry, there are not more entries than names.      *)
LEMMA NamesFit ==
  ASSUME SalaryInv, Cardinality(Person) <= TableMax
  PROVE  TableFits
<1>1. employ \in Seq(Row) /\ Len(employ) \in Nat /\ IsFiniteSet(Person) /\ TableMax \in Nat
  BY SalaryAssumption DEF SalaryInv
<1>2. PICK n \in Nat : n = Len(employ)
  BY <1>1
<1>3. IsFiniteSet(1 .. n) /\ Cardinality(1 .. n) = n
  BY NumbersTo
<1>4. ASSUME NEW k \in 1 .. n
      PROVE  employ[k].name \in Person
  <2>1. PICK row \in Row : row = employ[k]
    BY <1>1, <1>2
  <2>2. QED
    BY <2>1 DEF Row
<1>5. \A k, l \in 1 .. n : employ[k].name = employ[l].name => k = l
  BY <1>2, <1>4 DEF SalaryInv, OneEntry
<1>6. PICK f : f = [k \in 1 .. n |-> employ[k].name]
  OBVIOUS
<1>7. f \in Injection(1 .. n, Person)
  BY <1>4, <1>5, <1>6 DEF Injection, IsInjective
<1>8. Cardinality(1 .. n) <= Cardinality(Person)
  BY <1>1, <1>3, <1>7, FS_Injection
<1>9. Cardinality(Person) \in Nat
  BY <1>1, FS_CardinalityType
<1>10. QED
  BY <1>1, <1>2, <1>3, <1>8, <1>9 DEF TableFits

(* A sequence without one of its members still has all the others.         *)
LEMMA WithoutOne ==
  ASSUME NEW S, NEW s \in Seq(S), NEW k \in 1 .. Len(s)
  PROVE  /\ RemoveAt(s, k) \in Seq(S) /\ Len(RemoveAt(s, k)) = Len(s) - 1
         /\ ToSet(s) \ {s[k]} \subseteq ToSet(RemoveAt(s, k))
<1>1. PICK r : r = RemoveAt(s, k)
  OBVIOUS
<1>2. /\ r \in Seq(S) /\ Len(r) = Len(s) - 1 /\ Len(s) \in Nat
      /\ DOMAIN s = 1 .. Len(s) /\ DOMAIN r = 1 .. Len(s) - 1
      /\ \A j \in 1 .. Len(s) - 1 : r[j] = IF j < k THEN s[j] ELSE s[j + 1]
  <2>1. r \in Seq(S) /\ Len(r) = Len(s) - 1
    BY <1>1, RemoveAtElements, Zenon
  <2>2. \A j \in 1 .. Len(s) - 1 : r[j] = IF j < k THEN s[j] ELSE s[j + 1]
    BY <1>1, RemoveAtElements, Zenon
  <2>3. QED
    BY <2>1, <2>2
<1>3. ASSUME NEW i \in DOMAIN s, i # k
      PROVE  \E j \in DOMAIN r : r[j] = s[i]
  <2>1. CASE i < k
    <3>1. i \in DOMAIN r /\ r[i] = s[i]
      BY <1>2, <2>1
    <3>2. QED
      BY <3>1
  <2>2. CASE i > k
    <3>1. i - 1 \in DOMAIN r /\ ~(i - 1 < k) /\ (i - 1) + 1 = i
      BY <1>2, <2>2
    <3>2. r[i - 1] = s[i]
      BY <1>2, <3>1
    <3>3. QED
      BY <3>1, <3>2
  <2>3. QED
    BY <1>2, <1>3, <2>1, <2>2
<1>4. QED
  BY <1>1, <1>2, <1>3 DEF ToSet

(* The loop has left the map as it was when it began, and has not come to  *)
(* an entry that the user asks for.                                        *)
MapInv ==
  /\ Mapper \in DOMAIN at /\ at[Mapper] \in {"find", "erase", "ended"}
  /\ entries \in Seq(Entry) /\ before \in Seq(Entry) /\ iter \in 0 .. Len(entries)
  /\ {drop_key, drop_value} \subseteq Entry \union {"nobody"}
  /\ at[Mapper] = "find" => iter = 0 /\ Entry \subseteq ToSet(entries)
  /\ at[Mapper] = "erase" => /\ entries = before /\ Entry \ {"addr"} \subseteq ToSet(before)
                             /\ \A k \in Asked : k > iter
  /\ OneIsErased

(* Erasing "addr" leaves the other names; the loop then comes to the first *)
(* entry that was asked for, or to the end if none was.                    *)
LEMMA MapStep ==
  ASSUME MapInv, MapNext
  PROVE  MapInv'
<1>1. /\ entries \in Seq(Entry) /\ Len(entries) \in Nat /\ DOMAIN entries = 1 .. Len(entries)
      /\ iter \in 0 .. Len(entries) /\ before \in Seq(Entry)
      /\ \A k \in Asked : k \in DOMAIN before
  BY DEF MapInv, Asked
<1>2. CASE EraseAddr
  <2>1. /\ at[Mapper] = "find" /\ at'[Mapper] = "erase" /\ DOMAIN at' = DOMAIN at /\ iter = 0
        /\ before' = entries' /\ UNCHANGED <<iter, drop_key, drop_value>>
    BY <1>2 DEF EraseAddr, Step, MapInv
  <2>2. entries' \in Seq(Entry) /\ Entry \ {"addr"} \subseteq ToSet(entries')
    <3>1. CASE UNCHANGED entries
      BY <1>1, <2>1, <3>1 DEF MapInv, ToSet
    <3>2. CASE ~UNCHANGED entries
      <4>1. PICK k \in 1 .. Len(entries) :
              entries[k] = "addr" /\ entries' = RemoveAt(entries, k)
        BY <1>1, <1>2, <3>2 DEF EraseAddr
      <4>2. PICK s \in Seq(Entry) : s = entries
        BY <1>1
      <4>3. /\ RemoveAt(s, k) \in Seq(Entry)
            /\ ToSet(s) \ {s[k]} \subseteq ToSet(RemoveAt(s, k))
        BY <4>2, WithoutOne
      <4>4. QED
        BY <2>1, <4>1, <4>2, <4>3 DEF MapInv
    <3>3. QED
      BY <3>1, <3>2
  <2>3. \A k \in Asked' : k > 0
    BY <2>1, <2>2 DEF Asked
  <2>4. QED
    BY <2>1, <2>2, <2>3 DEF MapInv, OneIsErased
<1>3. ASSUME VisitEntry
      PROVE  /\ at[Mapper] = "erase" /\ DOMAIN at' = DOMAIN at /\ entries = before
             /\ UNCHANGED <<before, drop_key, drop_value>> /\ Asked' = Asked
             /\ Entry \ {"addr"} \subseteq ToSet(before) /\ \A k \in Asked : k > iter
  BY <1>3 DEF VisitEntry, AfterErase, Step, MapInv, mapVars, Asked
<1>4. CASE VisitEntry /\ UNCHANGED at
  <2>1. iter < Len(entries) /\ iter' = iter + 1 /\ iter + 1 \notin Asked /\ UNCHANGED entries
    BY <1>1, <1>3, <1>4 DEF VisitEntry, AfterErase, Step, MapInv, Asked
  <2>2. iter' \in 0 .. Len(entries) /\ \A k \in Asked : k > iter'
    <3>1. \A k \in Asked : k \in 1 .. Len(entries) /\ k > iter /\ k # iter + 1
      BY <1>1, <1>3, <1>4, <2>1
    <3>2. QED
      BY <1>1, <2>1, <3>1
  <2>3. QED
    BY <1>1, <1>3, <1>4, <2>1, <2>2 DEF MapInv, OneIsErased
<1>5. CASE VisitEntry /\ iter < Len(entries) /\ entries[iter + 1] \in {drop_key, drop_value}
  <2>1. PICK k \in 1 .. Len(entries) : k = iter + 1
    BY <1>1, <1>5
  <2>2. /\ at'[Mapper] = "ended" /\ entries' = RemoveAt(entries, k) /\ UNCHANGED iter
    BY <1>1, <1>5, <2>1 DEF VisitEntry, AfterErase, Step, MapInv
  <2>3. PICK s \in Seq(Entry) : s = entries
    BY <1>1
  <2>4. entries' \in Seq(Entry) /\ Len(entries') = Len(entries) - 1
    BY <2>1, <2>2, <2>3, WithoutOne
  <2>5. iter' \in 0 .. Len(entries')
    BY <1>1, <1>5, <2>2, <2>4
  <2>6. k \in Asked /\ \A l \in Asked : k <= l
    <3>1. k \in Asked
      BY <1>1, <1>3, <1>5, <2>1 DEF Asked
    <3>2. \A l \in Asked : l \in 1 .. Len(entries) /\ l > iter
      BY <1>1, <1>3, <1>5
    <3>3. QED
      BY <1>1, <2>1, <3>1, <3>2
  <2>7. OneIsErased'
    BY <1>3, <1>5, <2>2, <2>6 DEF OneIsErased
  <2>8. QED
    BY <1>1, <1>3, <1>5, <2>2, <2>4, <2>5, <2>7 DEF MapInv
<1>6. CASE VisitEntry /\ iter = Len(entries)
  <2>1. at'[Mapper] = "ended" /\ UNCHANGED <<entries, iter>>
    BY <1>1, <1>6 DEF VisitEntry, AfterErase, Step, MapInv, mapVars
  <2>2. Asked = {}
    <3>1. \A k \in Asked : k \in 1 .. Len(entries) /\ k > Len(entries)
      BY <1>1, <1>3, <1>6
    <3>2. QED
      BY <1>1, <3>1
  <2>3. OneIsErased'
    BY <1>3, <1>6, <2>1, <2>2 DEF OneIsErased
  <2>4. QED
    BY <1>1, <1>3, <1>6, <2>1, <2>3 DEF MapInv
<1>7. QED
  BY <1>2, <1>4, <1>5, <1>6 DEF MapNext, VisitEntry

ContainersInv == ArrayInv /\ SalaryInv /\ MapInv

(* The array has what it was given, the table is empty, and the map has    *)
(* every entry.                                                            *)
LEMMA ContainersInvInit == Init => ContainersInv
<1> SUFFICES ASSUME Init PROVE ContainersInv
  OBVIOUS
<1>1. ArrayInv
  <2>1. array \in [Index -> Element] /\ sorted = 0 /\ given = array
    BY DEF Init, ArrayInit
  <2>2. QED
    BY <2>1, ArrayAssumption DEF ArrayInv, ArrayTypeOK, SortsDescending
<1>2. SalaryInv
  <2>1. employ = <<>> /\ uses = 0 /\ set = [p \in Person |-> 0]
    BY DEF Init, SalaryInit
  <2>2. employ \in Seq(Row) /\ Len(employ) = 0
    BY <2>1
  <2>3. QED
    BY <2>1, <2>2, SalaryAssumption DEF SalaryInv, OneEntry
<1>3. MapInv
  <2>1. /\ entries \in {<<"img", "system", "ip", "addr">>, <<"addr", "img", "system", "ip">>}
        /\ iter = 0 /\ {drop_key, drop_value} \subseteq Entry \union {"nobody"}
        /\ before = entries
    BY DEF Init, MapInit
  <2>2. PICK s : s = entries
    OBVIOUS
  <2>3. /\ s \in Seq(Entry) /\ Len(s) = 4 /\ DOMAIN s = 1 .. 4
        /\ \A e \in Entry : \E k \in 1 .. 4 : s[k] = e
    <3>1. CASE s = <<"img", "system", "ip", "addr">>
      <4>1. s[1] = "img" /\ s[2] = "system" /\ s[3] = "ip" /\ s[4] = "addr"
        BY <3>1
      <4>2. s \in Seq(Entry) /\ Len(s) = 4
        BY <3>1 DEF Entry
      <4>3. QED
        BY <4>1, <4>2 DEF Entry
    <3>2. CASE s = <<"addr", "img", "system", "ip">>
      <4>1. s[1] = "addr" /\ s[2] = "img" /\ s[3] = "system" /\ s[4] = "ip"
        BY <3>2
      <4>2. s \in Seq(Entry) /\ Len(s) = 4
        BY <3>2 DEF Entry
      <4>3. QED
        BY <4>1, <4>2 DEF Entry
    <3>3. QED
      BY <2>1, <2>2, <3>1, <3>2
  <2>4. Entry \subseteq ToSet(s)
    BY <2>3 DEF ToSet
  <2>5. ASSUME NEW m \in {Mapper}
        PROVE  m \in DOMAIN at /\ at[m] = "find"
    <3>1. m \in DOMAIN Start[6] /\ Start[6][m] = "find"
      BY DEF Start, MapStart
    <3>2. QED
      BY <3>1, StartSteps
  <2>6. QED
    BY <2>1, <2>2, <2>3, <2>4, <2>5 DEF MapInv, OneIsErased
<1>4. QED
  BY <1>1, <1>2, <1>3 DEF ContainersInv

(* Each of the three containers is right whatever the others do.           *)
THEOREM ContainersInvariant == Spec => []ContainersInv
<1>1. FanInv /\ ContainersInv /\ [Next]_vars => ContainersInv'
  <2> SUFFICES ASSUME FanInv, ContainersInv, [Next]_vars PROVE ContainersInv'
    OBVIOUS
  <2>1. ArrayInv'
    <3>1. CASE RunArray
      BY <3>1, SortStep DEF RunArray, ContainersInv
    <3>2. CASE ~RunArray
      <4>1. UNCHANGED arrayVars
        BY <3>2 DEF Next, RunLock, RunPipe, RunEcho, RunFanout, RunReuse, RunMap, RunVeth, RunIp,
                    RunSalary, vars
      <4>2. QED
        BY <4>1 DEF ContainersInv, ArrayInv, ArrayTypeOK, SortsDescending, Occurrences, Index,
                    arrayVars
    <3>3. QED
      BY <3>1, <3>2
  <2>2. SalaryInv'
    <3>1. CASE RunSalary
      BY <3>1, SalaryStep DEF RunSalary, ContainersInv
    <3>2. CASE ~RunSalary
      <4>1. UNCHANGED salaryVars
        BY <3>2 DEF Next, RunLock, RunPipe, RunEcho, RunFanout, RunReuse, RunMap, RunVeth, RunIp,
                    RunArray, vars
      <4>2. QED
        BY <4>1 DEF ContainersInv, SalaryInv, OneEntry, salaryVars
    <3>3. QED
      BY <3>1, <3>2
  <2>3. MapInv'
    <3>1. CASE RunMap
      BY <3>1, MapStep DEF RunMap, ContainersInv
    <3>2. CASE ~RunMap
      <4>1. UNCHANGED mapVars
        BY <3>2 DEF Next, RunLock, RunPipe, RunEcho, RunFanout, RunReuse, RunMap, RunVeth, RunIp,
                    RunArray, RunSalary, vars
      <4>2. at'[Mapper] = at[Mapper] /\ DOMAIN at' = DOMAIN at
        <5>1. CASE program = "map"
          BY <3>2, <5>1 DEF Next, RunLock, RunPipe, RunEcho, RunFanout, RunReuse, RunVeth, RunIp,
                            RunArray, RunSalary, vars
        <5>2. CASE program # "map"
          <6>1. DOMAIN Start[6] = {Mapper} /\ program \notin ProgramsOf[6]
            BY <5>2 DEF Start, MapStart, ProgramsOf
          <6>2. PICK m \in DOMAIN Start[6] : m = Mapper
            BY <6>1
          <6>3. QED
            BY <6>1, <6>2, OthersLeaveAll, SameProcesses DEF ContainersInv, MapInv
        <5>3. QED
          BY <5>1, <5>2
      <4>3. QED
        BY <4>1, <4>2 DEF ContainersInv, MapInv, OneIsErased, Asked, mapVars
    <3>3. QED
      BY <3>1, <3>2
  <2>4. QED
    BY <2>1, <2>2, <2>3 DEF ContainersInv
<1>2. QED
  BY <1>1, ContainersInvInit, FanInvariant, PTL DEF Spec

(* Arrays of any size and elements stay arrays of the same elements, their *)
(* sorted part descending; the salary table has each name once, with its   *)
(* last salary, and has room for all names if it was made for as many      *)
(* (array_template.cpp:35-70, bracket_overloading.cpp:28-41).              *)
THEOREM ContainersStayRight == Spec => []ContainersAreRight
<1>1. ContainersInv => ContainersAreRight
  BY SalaryInvIsRight, NamesFit DEF ContainersInv, ContainersAreRight, ArrayInv
<1>2. QED
  BY <1>1, ContainersInvariant, PTL

(* Whatever the user asks for, and wherever the literal "addr" lies, main  *)
(* erases the first entry asked for, and no other but "addr"               *)
(* (map_insert_look.cpp:41-46, 61-77).                                     *)
THEOREM FirstAskedIsErased == Spec => []OneIsErased
<1>1. ContainersInv => OneIsErased
  BY DEF ContainersInv, MapInv
<1>2. QED
  BY <1>1, ContainersInvariant, PTL
-----------------------------------------------------------------------------
(* The types of the other programs.                                        *)
LockTypes == LockTypeOK /\ \A r \in Run : {Parent(r), Child(r)} \subseteq DOMAIN at

(* Runs of the lock programs go from one of their steps to another, and    *)
(* only they get the lock.                                                 *)
LEMMA LockTypesStep ==
  ASSUME LockTypes, LockNext
  PROVE  LockTypes'
<1> DEFINE ofParent == {"open", "lock", "fork", "forked", "relock", "wait"} \union Over
           ofChild == {"unborn", "asleep"} \union Over
<1> USE DEF Step, Fails, Over
<1>1. PICK r \in Run : \/ OpenFile(r) \/ LockFirst(r) \/ Fork(r)
                       \/ Wake(r) \/ Inherit(r) \/ Share(r)
  BY DEF LockNext
<1>2. /\ locked \subseteq Run /\ locked' \subseteq Run
      /\ \A x \in Run : Parent(x) # Child(r) /\ Child(x) # Parent(r)
  BY <1>1 DEF LockTypes, LockTypeOK, OpenFile, LockFirst, flock, Fork, ParentExits, LockAfter, Wake,
              Inherit, Share, Parent, Child
<1>3. /\ DOMAIN at' = DOMAIN at
      /\ \A q \in DOMAIN at : \/ at'[q] = at[q]
                              \/ q = Parent(r) /\ at'[q] \in ofParent
                              \/ q = Child(r) /\ at'[q] \in ofChild
  BY <1>1, <1>2 DEF OpenFile, LockFirst, flock, Fork, ParentExits, Wake, Inherit, Share
<1>4. QED
  BY <1>2, <1>3 DEF LockTypes, LockTypeOK

EchoTypes == EchoTypeOK /\ EchoServer \union EchoClient \subseteq DOMAIN at

(* A server is connected to clients, and a client to servers, and each is  *)
(* sent what a client typed or nothing.                                    *)
LEMMA EchoTypesStep ==
  ASSUME EchoTypes, EchoNext
  PROVE  EchoTypes'
<1> DEFINE ofServer == {"bind", "listen", "accept", "read", "write", "unlink"} \union Over
           ofClient == {"connect", "write", "read", "unlink"} \union Over
<1> USE DEF Step, Fails, Over
<1>1. \A s \in EchoServer : s \notin EchoClient
  BY ProgramsAssumption
<1>2. PICK nothing : nothing = ""
  BY Zenon
<1>3. /\ buf \in [EchoServer -> EchoClient \union {nothing}]
      /\ reply \in [EchoClient -> EchoClient \union {nothing, NONE}]
      /\ name \in EchoServer \union {NONE} /\ wrote \subseteq EchoClient
      /\ conn \in [EchoClient -> EchoServer \union {NONE}]
      /\ partner \in [EchoServer -> EchoClient \union {NONE}]
  BY <1>2, Zenon DEF EchoTypes, EchoTypeOK
<1>4. /\ name' \in EchoServer \union {NONE} /\ wrote' \subseteq EchoClient
      /\ conn' \in [EchoClient -> EchoServer \union {NONE}]
      /\ partner' \in [EchoServer -> EchoClient \union {NONE}]
  <2>1. name' \in EchoServer \union {NONE}
    BY <1>3 DEF EchoNext, UnixServer, UnixClient, Bind, Listen, Accept, Read, Write, Unlink,
                NameAfter, Connect, SendLine, ReadEcho, echoVars
  <2>2. wrote' \subseteq EchoClient
    BY <1>3 DEF EchoNext, UnixServer, UnixClient, Bind, Listen, Accept, Read, Write, Unlink,
                Connect, SendLine, ReadEcho, echoVars
  <2>3. conn' \in [EchoClient -> EchoServer \union {NONE}]
    BY <1>3 DEF EchoNext, UnixServer, UnixClient, Bind, Listen, Accept, Read, Write, Unlink,
                Connect, CanConnect, SendLine, ReadEcho, echoVars
  <2>4. partner' \in [EchoServer -> EchoClient \union {NONE}]
    BY <1>3 DEF EchoNext, UnixServer, UnixClient, Bind, Listen, Accept, Read, Write, Unlink,
                Connect, SendLine, ReadEcho, echoVars
  <2>5. QED
    BY <2>1, <2>2, <2>3, <2>4
<1>5. buf' \in [EchoServer -> EchoClient \union {nothing}]
  <2>1. ASSUME NEW s \in EchoServer, Read(s)
        PROVE  buf' \in [EchoServer -> EchoClient \union {nothing}]
    <3>1. PICK line : line = IF partner[s] \in wrote THEN partner[s] ELSE nothing
      OBVIOUS
    <3>2. buf' = [buf EXCEPT ![s] = line]
      BY <1>2, <2>1, <3>1, Zenon DEF Read
    <3>3. line \in EchoClient \union {nothing}
      BY <1>3, <3>1
    <3>4. QED
      BY <1>3, <3>2, <3>3
  <2>2. CASE UNCHANGED buf
    BY <1>3, <2>2
  <2>3. QED
    BY <2>1, <2>2 DEF EchoNext, UnixServer, UnixClient, Bind, Listen, Accept, Write, Unlink,
                      Connect, SendLine, ReadEcho, echoVars
<1>6. reply' \in [EchoClient -> EchoClient \union {nothing, NONE}]
  BY <1>3 DEF EchoNext, UnixServer, UnixClient, Bind, Listen, Accept, Read, Write, Unlink,
              Connect, SendLine, ReadEcho, echoVars
<1>7. unlinked' \in [EchoServer -> EchoServer \union EchoClient \union {NONE}]
  <2>1. unlinked \in [EchoServer -> EchoServer \union EchoClient \union {NONE}]
    BY Zenon DEF EchoTypes, EchoTypeOK
  <2>2. ASSUME NEW p \in EchoServer \union EchoClient, Unlink(p)
        PROVE  unlinked' \in [EchoServer -> EchoServer \union EchoClient \union {NONE}]
    BY <2>1, <2>2 DEF Unlink
  <2>3. CASE UNCHANGED unlinked
    BY <2>1, <2>3
  <2>4. QED
    BY <2>2, <2>3 DEF EchoNext, UnixServer, UnixClient, Bind, Listen, Accept, Read, Write,
                      Connect, SendLine, ReadEcho, echoVars
<1>8. /\ DOMAIN at' = DOMAIN at
      /\ \A q \in DOMAIN at : \/ at'[q] = at[q]
                              \/ q \in EchoServer /\ at'[q] \in ofServer
                              \/ q \in EchoClient /\ at'[q] \in ofClient
  BY DEF EchoNext, UnixServer, UnixClient, Bind, Listen, Accept, Read, Write, Unlink,
         Connect, SendLine, ReadEcho
<1>9. /\ \A s \in EchoServer : at'[s] \in ofServer
      /\ \A c \in EchoClient : at'[c] \in ofClient
  BY <1>1, <1>8 DEF EchoTypes, EchoTypeOK
<1>10. QED
  BY <1>2, <1>4, <1>5, <1>6, <1>7, <1>8, <1>9, Zenon DEF EchoTypes, EchoTypeOK

(* The parent waits for no more children than there are, as it only counts *)
(* those that are over.                                                    *)
LEMMA FanTypesStep ==
  ASSUME FanInv, FanTypeOK, FanNext, program = "fanout"
  PROVE  FanTypeOK'
<1> USE DEF Step, Fails, Over
<1>1. PICK n \in 0 .. NumChildren : UnbornAre(n)
  BY DEF FanInv
<1>2. /\ \A k \in Forked : k # Main /\ k \in DOMAIN at
      /\ Main \in DOMAIN at /\ NumChildren \in Nat /\ Limit \in Nat
  BY FanoutAssumption DEF FanInv, Forked, Main
<1>3. CASE ForkChild
  <2>1. <<"fanout", Cardinality(Unborn)>> \in Forked
    BY <1>1, <1>3, NextChild
  <2>2. QED
    BY <1>2, <1>3, <2>1 DEF ForkChild, FanTypeOK, fanVars
<1>4. CASE Wait
  <2>1. waited' \in 0 .. NumChildren
    <3>1. DEFINE overs == { k \in Forked : at[k] \in Over }
    <3>2. IsFiniteSet(Forked) /\ Cardinality(Forked) = NumChildren
      BY <1>2, ChildrenCount DEF Forked, Children
    <3>3. /\ IsFiniteSet(overs) /\ Cardinality(overs) <= NumChildren
          /\ Cardinality(overs) \in Nat
      BY <3>2, FS_Subset, FS_CardinalityType
    <3>4. Cardinality(overs) > waited /\ waited' = waited + 1 /\ waited \in Nat
      BY <1>4 DEF Wait, FanTypeOK
    <3>5. QED
      BY <1>2, <3>3, <3>4
  <2>2. QED
    BY <1>2, <1>4, <2>1 DEF Wait, FanTypeOK
<1>5. ASSUME NEW k \in Forked, setup_socket(k)
      PROVE  FanTypeOK'
  BY <1>2, <1>5 DEF setup_socket, FanTypeOK
<1>6. ASSUME NEW k \in Forked, ReadPacket(k)
      PROVE  FanTypeOK'
  BY <1>2, <1>6 DEF ReadPacket, FanTypeOK
<1>7. QED
  BY <1>3, <1>4, <1>5, <1>6 DEF FanNext

(* A call that has not returned has not returned early.                    *)
LookupTypes ==
  /\ calls \in 0 .. MaxCalls /\ saved \in {"none", "host", "container"} /\ stuck \subseteq Kind
  /\ VethTypeOK /\ IpTypeOK
  /\ unreadable <= calls
  /\ LooksUp /\ at[Lookup] # "idle" => unreadable < calls

(* What the search of /sys/class/net finds is the name of an interface.    *)
LEMMA NamesAreAnswers == { n \in DOMAIN Visible : Matches(n) } \subseteq IfName
BY DEF Visible, IfName

(* A call begins when none is running, and returns early once at most.     *)
LEMMA LookupTypesStep ==
  ASSUME LookupInv, LookupTypes, [Next]_vars
  PROVE  LookupTypes'
<1> USE DEF Step, Stay
<1>1. MaxCalls \in Nat /\ unreadable \in 0 .. MaxCalls
  BY NamespacesAssumption DEF LookupTypes, VethTypeOK
<1>2. \A k \in Kind : LooksUp => ns[k] \in {"host", "container"} /\ Lookup \in DOMAIN at
  BY DEF LookupInv
<1>3. CASE program = "veth" /\ obtain_container_veth /\ UNCHANGED ipVars
  <2>1. LooksUp /\ LooksUp' /\ Lookup \in DOMAIN at
    BY <1>2, <1>3, LookupSteps DEF LooksUp, Kind
  <2>2. /\ calls' \in 0 .. MaxCalls /\ unreadable' \in 0 .. MaxCalls /\ unreadable' <= calls'
        /\ at'[Lookup] # "idle" => unreadable' < calls'
    <3>1. CASE CallVeth
      BY <1>1, <2>1, <3>1 DEF LookupTypes, CallVeth, Call
    <3>2. CASE ReadIflink
      BY <1>1, <2>1, <3>2 DEF LookupTypes, ReadIflink, nsVars
    <3>3. ASSUME ~CallVeth, ~ReadIflink
          PROVE  calls' = calls /\ unreadable' = unreadable /\ at[Lookup] # "idle"
      BY <1>3, <2>1, <3>3
         DEF obtain_container_veth, enter_netns, AskIpLink, restore_netns, enter_mntns,
             restore_mntns, FindIfindex, Enter, Restore, nsVars, vethVars
    <3>4. QED
      BY <1>1, <2>1, <3>1, <3>2, <3>3 DEF LookupTypes
  <2>3. saved' \in {"none", "host", "container"} /\ stuck' \subseteq Kind
    BY <1>2, <1>3, <2>1
       DEF LookupTypes, obtain_container_veth, CallVeth, enter_netns, AskIpLink, restore_netns,
           enter_mntns, ReadIflink, restore_mntns, FindIfindex, Call, Enter, Restore, Present,
           nsVars, Kind
  <2>4. iflink' \in {-1, 0, Peer}
    BY <1>3
       DEF LookupTypes, VethTypeOK, obtain_container_veth, CallVeth, enter_netns, AskIpLink,
           restore_netns, enter_mntns, ReadIflink, restore_mntns, FindIfindex, vethVars
  <2>5. answer' \in Answer
    <3>1. answer \in Answer /\ "NULL" \in Answer
      BY Zenon DEF LookupTypes, VethTypeOK, Answer
    <3>2. CASE FindIfindex
      BY <3>2, NamesAreAnswers, Zenon DEF FindIfindex, Answer
    <3>3. QED
      BY <1>3, <3>1, <3>2
         DEF obtain_container_veth, CallVeth, enter_netns, AskIpLink, restore_netns, enter_mntns,
             ReadIflink, restore_mntns, vethVars
  <2>6. IpTypeOK'
    BY <1>3, Zenon DEF LookupTypes, IpTypeOK, ipVars
  <2>7. QED
    BY <2>2, <2>3, <2>4, <2>5, <2>6 DEF LookupTypes, VethTypeOK
<1>4. CASE program = "ip" /\ obtain_container_ip /\ UNCHANGED vethVars
  <2>1. LooksUp /\ LooksUp' /\ Lookup \in DOMAIN at
    BY <1>2, <1>4, LookupSteps DEF LooksUp, Kind
  <2>2. /\ calls' \in 0 .. MaxCalls /\ unreadable' = unreadable /\ unreadable' <= calls'
        /\ at'[Lookup] # "idle" => unreadable' < calls'
    <3>1. unreadable' = unreadable
      BY <1>4 DEF vethVars
    <3>2. CASE CallIp
      BY <1>1, <2>1, <3>1, <3>2 DEF LookupTypes, CallIp, Call
    <3>3. ASSUME ~CallIp
          PROVE  calls' = calls /\ at[Lookup] # "idle"
      BY <1>4, <2>1, <3>3 DEF obtain_container_ip, EnterForIp, RunCommand, RestoreAfterIp,
                              ReturnBuffer, Enter, Restore, nsVars
    <3>4. QED
      BY <1>1, <2>1, <3>1, <3>2, <3>3 DEF LookupTypes
  <2>3. saved' \in {"none", "host", "container"} /\ stuck' \subseteq Kind
    BY <1>2, <1>4, <2>1
       DEF LookupTypes, obtain_container_ip, CallIp, EnterForIp, RunCommand, RestoreAfterIp,
           ReturnBuffer, Call, Enter, Restore, Present, nsVars, Kind
  <2>4. VethTypeOK'
    BY <1>4, Zenon DEF LookupTypes, VethTypeOK, vethVars
  <2>5. /\ says \in [Command -> Output] /\ tried \in 0 .. 3 /\ buffer \in Output
        /\ address \in {"NULL"} \union (Output \ {""}) /\ says' = says
    BY <1>4, Zenon DEF LookupTypes, IpTypeOK, obtain_container_ip, CallIp, EnterForIp, RunCommand,
                       RestoreAfterIp, ReturnBuffer, ipVars
  <2>6. tried' \in 0 .. 3 /\ buffer' \in Output
    <3>1. CASE RunCommand
      <4>1. tried < 3 /\ tried' = tried + 1 /\ buffer' = says[tried']
        BY <3>1, Zenon DEF RunCommand
      <4>2. tried' \in 0 .. 3 /\ tried' \in Command
        <5>1. tried \in 0 .. 3
          BY <2>5, Zenon
        <5>2. QED
          BY <4>1, <5>1 DEF Command
      <4>3. buffer' \in Output
        BY <2>5, <4>1, <4>2, Zenon
      <4>4. QED
        BY <4>2, <4>3, Zenon
    <3>2. CASE ~RunCommand
      <4>1. tried' = tried \/ tried' = 0
        BY <1>4, <3>2, Zenon DEF obtain_container_ip, CallIp, EnterForIp, RestoreAfterIp,
                                 ReturnBuffer, ipVars
      <4>2. buffer' = buffer
        BY <1>4, <3>2, Zenon DEF obtain_container_ip, CallIp, EnterForIp, RestoreAfterIp,
                                 ReturnBuffer, ipVars
      <4>3. 0 \in 0 .. 3
        OBVIOUS
      <4>4. QED
        BY <2>5, <4>1, <4>2, <4>3, Zenon
    <3>3. QED
      BY <3>1, <3>2, Zenon
  <2>7. address' \in {"NULL"} \union (Output \ {""})
    <3>1. address' = address \/ address' = "NULL" \/ (address' = buffer /\ buffer # "")
      BY <1>4, Zenon DEF obtain_container_ip, CallIp, EnterForIp, RunCommand, RestoreAfterIp,
                         ReturnBuffer, ipVars
    <3>2. QED
      BY <2>5, <3>1, Zenon
  <2>8. IpTypeOK'
    BY <2>5, <2>6, <2>7, Zenon DEF IpTypeOK
  <2>9. QED
    BY <2>2, <2>3, <2>4, <2>8 DEF LookupTypes
<1>5. CASE /\ UNCHANGED <<nsVars, vethVars, ipVars>>
           /\ LooksUp => UNCHANGED at
  <2>1. VethTypeOK' /\ IpTypeOK'
    BY <1>5, Zenon DEF LookupTypes, VethTypeOK, IpTypeOK, vethVars, ipVars
  <2>2. QED
    BY <1>5, <2>1, LookupSteps DEF LookupTypes, LooksUp, nsVars, vethVars
<1>6. QED
  BY <1>3, <1>4, <1>5, LookupSteps

(* Then there are never more descriptors open than one for each call and   *)
(* one more.                                                               *)
LEMMA LookupTypesAre ==
  ASSUME LookupInv, LookupTypes
  PROVE  NsTypeOK
<1>1. ns \in [Kind -> {"host", "container"}] /\ open \in {unreadable, unreadable + 1} \union {0}
  BY DEF LookupInv, Kind
<1>2. MaxCalls \in Nat /\ unreadable \in 0 .. MaxCalls
  BY NamespacesAssumption DEF LookupTypes, VethTypeOK
<1>3. QED
  BY <1>1, <1>2 DEF LookupTypes, NsTypeOK

(* A client's count is that of the blocks it has read, or one less.        *)
LEMMA PipeTypesAre ==
  ASSUME PipeInv
  PROVE  PipeTypeOK
<1>1. ASSUME NEW c \in Client
      PROVE  bytes_read[c] \in -1 .. MaxBlocks * BufSize
  <2>1. PICK k \in 0 .. MaxBlocks : HasReadBlocks(c, k)
    BY DEF PipeInv
  <2>2. k \in Nat /\ BufSize \in Nat /\ MaxBlocks \in Nat /\ BufSize >= 2
    BY PipeAssumption
  <2>3. PICK d \in Nat : MaxBlocks = k + d
    BY <2>2
  <2>4. MaxBlocks * BufSize = k * BufSize + d * BufSize /\ d * BufSize >= 0
    BY <2>2, <2>3
  <2>5. k * BufSize \in Nat /\ d * BufSize \in Nat
    BY <2>2, <2>3
  <2>6. QED
    BY <2>1, <2>4, <2>5 DEF HasReadBlocks
<1>2. bytes_read \in [Client -> -1 .. MaxBlocks * BufSize]
  BY <1>1 DEF PipeInv
<1>3. QED
  BY <1>2 DEF PipeInv, PipeTypeOK

Types == /\ LockTypes /\ EchoTypes /\ FanTypeOK /\ LookupTypes
         /\ program \in Program /\ faulty \in BOOLEAN

(* Every program starts at the steps its main function starts at.          *)
LEMMA TypesInit == Init => Types
<1> SUFFICES ASSUME Init PROVE Types
  OBVIOUS
<1>1. LockTypes
  <2>1. ASSUME NEW r \in Run
        PROVE  /\ Parent(r) \in DOMAIN at /\ at[Parent(r)] = "open"
               /\ Child(r) \in DOMAIN at /\ at[Child(r)] = "unborn"
    <3>1. DOMAIN Start[1] = Run \X {"parent", "child"}
      BY DEF Start, LockStart
    <3>2. Parent(r) \in DOMAIN Start[1] /\ Child(r) \in DOMAIN Start[1]
      BY <3>1 DEF Parent, Child
    <3>3. Start[1][Parent(r)] = "open" /\ Start[1][Child(r)] = "unborn"
      BY <3>1, <3>2 DEF Start, LockStart, Parent, Child
    <3>4. QED
      BY <3>2, <3>3, StartSteps
  <2>2. QED
    BY <2>1 DEF Init, LockInit, LockTypes, LockTypeOK
<1>2. EchoTypes
  <2>1. ASSUME NEW p \in EchoServer \union EchoClient
        PROVE  p \in DOMAIN at /\ at[p] = IF p \in EchoServer THEN "bind" ELSE "connect"
    <3>1. /\ p \in DOMAIN Start[3]
          /\ Start[3][p] = IF p \in EchoServer THEN "bind" ELSE "connect"
      BY DEF Start, EchoStart
    <3>2. QED
      BY <3>1, StartSteps
  <2>2. \A c \in EchoClient : c \notin EchoServer
    BY ProgramsAssumption
  <2>3. /\ \A s \in EchoServer : at[s] = "bind" /\ s \in DOMAIN at
        /\ \A c \in EchoClient : at[c] = "connect" /\ c \in DOMAIN at
    BY <2>1, <2>2
  <2>4. PICK nothing : nothing = ""
    BY Zenon
  <2>5. EchoInit
    BY DEF Init
  <2>6. /\ buf \in [EchoServer -> EchoClient \union {nothing}]
        /\ reply \in [EchoClient -> EchoClient \union {nothing, NONE}]
    <3>1. /\ buf = [s \in EchoServer |-> nothing] /\ reply = [c \in EchoClient |-> NONE]
      BY <2>4, <2>5, Zenon DEF EchoInit
    <3>2. QED
      BY <3>1
  <2>7. /\ name \in EchoServer \union {NONE} /\ wrote \subseteq EchoClient
        /\ conn \in [EchoClient -> EchoServer \union {NONE}]
        /\ partner \in [EchoServer -> EchoClient \union {NONE}]
        /\ unlinked \in [EchoServer -> EchoServer \union EchoClient \union {NONE}]
    <3>1. /\ name = NONE /\ wrote = {} /\ conn = [c \in EchoClient |-> NONE]
          /\ partner = [s \in EchoServer |-> NONE] /\ unlinked = [s \in EchoServer |-> NONE]
      BY <2>5, Zenon DEF EchoInit
    <3>2. QED
      BY <3>1
  <2>8. /\ \A s \in EchoServer :
             at[s] \in {"bind", "listen", "accept", "read", "write", "unlink"} \union Over
        /\ \A c \in EchoClient : at[c] \in {"connect", "write", "read", "unlink"} \union Over
        /\ EchoServer \union EchoClient \subseteq DOMAIN at
    BY <2>3
  <2>9. QED
    BY <2>4, <2>6, <2>7, <2>8, Zenon DEF EchoTypes, EchoTypeOK
<1>3. FanTypeOK
  <2>1. FanInv
    BY FanInvInit
  <2>2. ASSUME NEW p \in {Main} \union Forked
        PROVE  p \in DOMAIN at /\ at[p] = IF p = Main THEN "fork" ELSE "unborn"
    <3>1. p \in DOMAIN Start[4] /\ Start[4][p] = IF p = Main THEN "fork" ELSE "unborn"
      BY DEF Start, FanStart
    <3>2. QED
      BY <3>1, StartSteps
  <2>3. Main \notin Forked
    BY FanoutAssumption DEF Main, Forked
  <2>4. stdoutIsReadable \in BOOLEAN
    BY Zenon DEF Init, FanInit
  <2>5. /\ fd = [k \in Forked |-> "none"] /\ limit = [k \in Forked |-> Limit] /\ waited = 0
    BY DEF Init, FanInit
  <2>6. QED
    BY <2>2, <2>3, <2>4, <2>5, FanoutAssumption DEF FanTypeOK
<1>4. LookupTypes
  <2>1. at[Lookup] = "idle" /\ calls = 0 /\ saved = "none" /\ stuck = {} /\ unreadable = 0
    BY LookupStarts DEF Init, NsInit, VethInit
  <2>2. VethTypeOK
    <3>1. answer \in Answer
      BY Zenon DEF Init, VethInit, Answer
    <3>2. iflink \in {-1, 0, Peer}
      BY DEF Init, VethInit
    <3>3. QED
      BY <2>1, <3>1, <3>2, NamespacesAssumption DEF VethTypeOK
  <2>3. IpTypeOK
    <3>1. says \in [Command -> Output] /\ buffer \in Output
      BY Zenon DEF Init, IpInit, Output
    <3>2. address \in {"NULL"} \union (Output \ {""})
      BY Zenon DEF Init, IpInit
    <3>3. tried \in 0 .. 3
      <4>1. tried = 0
        BY Zenon DEF Init, IpInit
      <4>2. QED
        BY <4>1
    <3>4. QED
      BY <3>1, <3>2, <3>3, Zenon DEF IpTypeOK
  <2>4. QED
    BY <2>1, <2>2, <2>3, NamespacesAssumption DEF LookupTypes
<1>5. program \in Program
  BY Zenon DEF Init
<1>6. faulty \in BOOLEAN
  BY Zenon DEF Init
<1>7. QED
  BY <1>1, <1>2, <1>3, <1>4, <1>5, <1>6, Zenon DEF Types

(* A step of one program keeps its types, and leaves alone the other       *)
(* programs' processes.                                                    *)
LEMMA TypesStep ==
  ASSUME FanInv, FanInv', LookupInv, Types, [Next]_vars
  PROVE  Types'
<1>1. LockTypes'
  <2>1. CASE RunLock
    BY <2>1, LockTypesStep DEF RunLock, Types
  <2>2. CASE ~RunLock
    <3>1. UNCHANGED locked
      BY <2>2 DEF Next, RunPipe, RunEcho, RunFanout, RunReuse, RunMap, RunVeth, RunIp, RunArray,
                  RunSalary, vars
    <3>2. \A r \in Run : at'[Parent(r)] = at[Parent(r)] /\ at'[Child(r)] = at[Child(r)]
      <4>1. CASE program = "lock"
        BY <2>2, <4>1 DEF Next, RunPipe, RunEcho, RunFanout, RunReuse, RunMap, RunVeth, RunIp,
                          RunArray, RunSalary, vars
      <4>2. CASE program # "lock"
        <5>1. /\ \A r \in Run : {Parent(r), Child(r)} \subseteq DOMAIN Start[1]
              /\ program \notin ProgramsOf[1]
          BY <4>2 DEF Start, LockStart, ProgramsOf, Parent, Child
        <5>2. \A r \in Run : Parent(r) \in DOMAIN at /\ Child(r) \in DOMAIN at
          BY DEF Types, LockTypes
        <5>3. QED
          BY <5>1, <5>2, OthersLeaveAll
      <4>3. QED
        BY <4>1, <4>2
    <3>3. QED
      BY <3>1, <3>2, SameProcesses DEF Types, LockTypes, LockTypeOK
  <2>3. QED
    BY <2>1, <2>2
<1>2. EchoTypes'
  <2>1. CASE RunEcho
    BY <2>1, EchoTypesStep DEF RunEcho, Types
  <2>2. CASE ~RunEcho
    <3>1. UNCHANGED echoVars
      BY <2>2 DEF Next, RunLock, RunPipe, RunFanout, RunReuse, RunMap, RunVeth, RunIp, RunArray,
                  RunSalary, vars
    <3>2. \A p \in EchoServer \union EchoClient : at'[p] = at[p]
      <4>1. CASE program = "echo"
        BY <2>2, <4>1 DEF Next, RunLock, RunPipe, RunFanout, RunReuse, RunMap, RunVeth, RunIp,
                          RunArray, RunSalary, vars
      <4>2. CASE program # "echo"
        <5>1. DOMAIN Start[3] = EchoServer \union EchoClient /\ program \notin ProgramsOf[3]
          BY <4>2 DEF Start, EchoStart, ProgramsOf
        <5>2. EchoServer \union EchoClient \subseteq DOMAIN at
          BY DEF Types, EchoTypes
        <5>3. QED
          BY <5>1, <5>2, OthersLeaveAll
      <4>3. QED
        BY <4>1, <4>2
    <3>3. DOMAIN at' = DOMAIN at
      BY SameProcesses
    <3>4. QED
      BY <3>1, <3>2, <3>3, Zenon DEF Types, EchoTypes, EchoTypeOK, echoVars
  <2>3. QED
    BY <2>1, <2>2
<1>3. FanTypeOK'
  <2>1. CASE RunFanout
    BY <2>1, FanTypesStep DEF RunFanout, Types
  <2>2. CASE ~RunFanout
    <3>1. UNCHANGED fanVars
      BY <2>2 DEF Next, RunLock, RunPipe, RunEcho, RunReuse, RunMap, RunVeth, RunIp, RunArray,
                  RunSalary, vars
    <3>2. \A p \in {Main} \union Forked : at'[p] = at[p]
      <4>1. CASE program = "fanout"
        BY <2>2, <4>1 DEF Next, RunLock, RunPipe, RunEcho, RunReuse, RunMap, RunVeth, RunIp,
                          RunArray, RunSalary, vars
      <4>2. CASE program # "fanout"
        <5>1. program' = program
          BY LookupSteps
        <5>2. QED
          BY <4>2, <5>1 DEF FanInv
      <4>3. QED
        BY <4>1, <4>2
    <3>3. FanTypeOK
      BY DEF Types
    <3>4. QED
      BY <3>1, <3>2, <3>3, Zenon DEF FanTypeOK, fanVars
  <2>3. QED
    BY <2>1, <2>2
<1>4. LookupTypes'
  BY LookupTypesStep DEF Types
<1>5. program' \in Program
  BY LookupSteps DEF Types
<1>6. faulty' \in BOOLEAN
  <2>1. faulty' = faulty
    BY Zenon DEF Next, RunLock, RunPipe, RunEcho, RunFanout, RunReuse, RunMap, RunVeth, RunIp,
                 RunArray, RunSalary, vars
  <2>2. QED
    BY <2>1, Zenon DEF Types
<1>7. QED
  BY <1>1, <1>2, <1>3, <1>4, <1>5, <1>6, Zenon DEF Types

(* The types of all programs hold together with what makes them hold:      *)
(* which processes there are, and that early returns are fewer than the    *)
(* calls.                                                                  *)
THEOREM TypesInvariant == Spec => []Types
<1>1. FanInv /\ FanInv' /\ LookupInv /\ Types /\ [Next]_vars => Types'
  BY TypesStep
<1>2. QED
  BY <1>1, TypesInit, FanInvariant, LookupInvariant, PTL DEF Spec

(* Whatever program is run, and however many processes it has: each of     *)
(* them is at a step of its main function, and what a program counts never *)
(* passes what there is to count, be it the bytes of a pipe, children that *)
(* are waited for, or calls that could not read iflink (Client.cpp:23-29,  *)
(* packet_mmap.c:130-134, obtain_container_veth.cpp:215-230).              *)
THEOREM TypesAreRight == Spec => []TypeOK
<1>1. /\ Types /\ LookupInv /\ PipeInv /\ ReuseInv /\ ContainersInv => TypeOK
  <2> SUFFICES ASSUME Types, LookupInv, PipeInv, ReuseInv, ContainersInv PROVE TypeOK
    OBVIOUS
  <2>1. LockTypeOK /\ EchoTypeOK /\ FanTypeOK /\ VethTypeOK /\ IpTypeOK
    BY Zenon DEF Types, LockTypes, EchoTypes, LookupTypes
  <2>2. NsTypeOK
    BY LookupTypesAre, Zenon DEF Types
  <2>3. PipeTypeOK /\ ReuseTypeOK
    BY PipeTypesAre, Zenon DEF ReuseInv
  <2>4. ArrayTypeOK /\ SalaryTypeOK
    BY SalaryInvIsRight, Zenon DEF ContainersInv, ArrayInv
  <2>5. MapTypeOK
    BY DEF ContainersInv, MapInv, MapTypeOK
  <2>6. program \in Program /\ faulty \in BOOLEAN
    BY Zenon DEF Types
  <2>7. QED
    BY <2>1, <2>2, <2>3, <2>4, <2>5, <2>6, Zenon DEF TypeOK
<1>2. QED
  BY <1>1, TypesInvariant, LookupInvariant, PipeInvariant, ReuseInvariant, ContainersInvariant, PTL
=============================================================================
