----------------------------- MODULE PacketFanout ------------------------------
(***************************************************************************)
(* packet_mmap/packet_mmap.c: a parent forks children that each join a     *)
(* packet socket to the parent's fanout group and read a number of packets *)
(* from it; the parent waits for as many children as it has forked.        *)
(*                                                                         *)
(* setup_socket reports a failure by EXIT_FAILURE, which is 1: the child,  *)
(* which looks for a negative number, then reads from its standard output. *)
(***************************************************************************)
EXTENDS Naturals, FiniteSets, Processes

CONSTANTS NumChildren,      \* 4 in the code
          Limit             \* packets a child reads, 10000 in the code

ASSUME FanoutAssumption == NumChildren \in Nat \ {0} /\ Limit \in Nat \ {0}

VARIABLES fd,               \* what each child reads from: "none", "socket" or "stdout"
          limit,            \* packets each child has left to read
          waited,           \* children the parent has waited for
          stdoutIsReadable  \* a read from the standard output succeeds, as it does
                            \*   from a terminal

fanVars == <<fd, limit, waited, stdoutIsReadable>>

Main == <<"fanout", 0>>
Forked == {"fanout"} \X (1 .. NumChildren)
Unborn == { k \in Forked : at[k] = "unborn" }
FanStart == [ p \in {Main} \union Forked |-> IF p = Main THEN "fork" ELSE "unborn" ]
FanInit == /\ fd = [k \in Forked |-> "none"]
           /\ limit = [k \in Forked |-> Limit]
           /\ waited = 0
           /\ stdoutIsReadable \in BOOLEAN

(* The parent forks the next child; a failure ends the parent and leaves   *)
(* the children it has.                                                    *)
ForkChild == /\ at[Main] = "fork"
             /\ \/ at' = [at EXCEPT ![<<"fanout", Cardinality(Unborn)>>] = "setup",
                                      ![Main] = IF Cardinality(Unborn) = 1 THEN "wait"
                                                                           ELSE "fork"]
                \/ Fails(Main, "fork")
             /\ UNCHANGED fanVars

(* Mutant: the parent waits for one child less.                            *)
WaitsForLess(n) == n >= NumChildren - 1

(* The parent has waited often enough.                                     *)
WaitsDone(n) == n >= NumChildren

(* wait returns when a child is over that no wait has returned for.        *)
Wait == /\ at[Main] = "wait"
        /\ Cardinality({ k \in Forked : at[k] \in Over }) > waited
        /\ waited' = waited + 1
        /\ at' = [at EXCEPT ![Main] = IF WaitsDone(waited') THEN "ended" ELSE "wait"]
        /\ UNCHANGED <<fd, limit, stdoutIsReadable>>

(* setup_socket: all four calls succeed, or one fails.                     *)
setup_socket(k) == /\ Step(k, "setup", "read")
                   /\ \/ fd' = [fd EXCEPT ![k] = "socket"]
                      \/ faulty /\ fd' = [fd EXCEPT ![k] = "stdout"]
                   /\ UNCHANGED <<limit, waited, stdoutIsReadable>>

(* A read can succeed.                                                     *)
CanReadFrom(k) == fd[k] = "socket" \/ stdoutIsReadable

(* A read of fanout_thread, which fails when it can not succeed, and may   *)
(* fail otherwise (the interface goes down); the report after the last.    *)
ReadPacket(k) == /\ \/ /\ limit[k] > 0 /\ CanReadFrom(k)
                       /\ Step(k, "read", "read")
                       /\ limit' = [limit EXCEPT ![k] = @ - 1]
                    \/ /\ limit[k] > 0
                       /\ Fails(k, "read") \/ (~CanReadFrom(k) /\ Step(k, "read", "failed"))
                       /\ UNCHANGED limit
                    \/ /\ limit[k] = 0
                       /\ Step(k, "read", "ended")
                       /\ UNCHANGED limit
                 /\ UNCHANGED <<fd, waited, stdoutIsReadable>>

FanNext == ForkChild \/ Wait \/ \E k \in Forked : setup_socket(k) \/ ReadPacket(k)
-----------------------------------------------------------------------------
(* Types of the descriptors, the counts and the steps.                     *)
FanTypeOK == /\ fd \in [Forked -> {"none", "socket", "stdout"}]
             /\ limit \in [Forked -> 0 .. Limit]
             /\ waited \in 0 .. NumChildren
             /\ stdoutIsReadable \in BOOLEAN
             /\ at[Main] \in {"fork", "wait"} \union Over
             /\ \A k \in Forked : at[k] \in {"unborn", "setup", "read"} \union Over

(* When the parent returns 0 all its children are over; when it is over    *)
(* and one is not, a fork has failed. Where the standard output cannot be  *)
(* read, a child that reports its packets has had a socket to read them    *)
(* from, although it takes the failure of setup_socket for a descriptor    *)
(* (packet_mmap.c:37, 46, 55, 62, 73, 80-89, 117-136).                     *)
ChildrenAreAccounted ==
  \A k \in Forked :
    /\ at[Main] \in Over /\ at[k] \notin Over => at[Main] = "failed" /\ Unborn # {}
    /\ at[k] = "ended" => fd[k] = "socket" \/ stdoutIsReadable

(* A parent that has forked all its children returns (packet_mmap.c:130).  *)
ParentReturns == at[Main] = "wait" ~> at[Main] = "ended"
=============================================================================
