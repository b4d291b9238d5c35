------------------------------- MODULE Programs -------------------------------
(***************************************************************************)
(* The repository's small programs, each of which is run alone: the one    *)
(* that is run is chosen at the start. What the programs have in common is *)
(* that they have no data but their processes' own, and that they end.     *)
(***************************************************************************)
EXTENDS SharedLock, NamedPipe, UnixEcho, PacketFanout, AddressReuse, NameMap,
        VethLookup, ContainerAddress, ArrayTemplate, SalaryTable

VARIABLE program

vars == <<program, at, faulty, locked, pipeVars, echoVars, fanVars, reuseVars, mapVars,
          nsVars, vethVars, ipVars, arrayVars, salaryVars>>

Program ==
  {"lock", "pipe", "echo", "fanout", "reuse", "map", "veth", "ip", "array", "salary"}

(* Where the processes of each program start.                              *)
Start == <<LockStart, PipeStart, EchoStart, FanStart, ReuseStart, MapStart, LookupStart>>

(* The program that the process p is of.                                   *)
Part(p) == CHOOSE i \in DOMAIN Start : p \in DOMAIN Start[i]

(* The processes of different programs, and of different kinds, are        *)
(* different ones.                                                         *)
ASSUME ProgramsAssumption ==
  /\ \A i, j \in DOMAIN Start : i # j => DOMAIN Start[i] \intersect DOMAIN Start[j] = {}
  /\ Inheriting \intersect Sharing = {}
  /\ EchoServer \intersect EchoClient = {} /\ NONE \notin EchoServer \union EchoClient

(* The state of a program that is not run is as good as any.               *)
Unless(p, initial) == program # p => initial

Init ==
  /\ program \in Program
  /\ at = [p \in UNION { DOMAIN Start[i] : i \in DOMAIN Start } |-> Start[Part(p)][p]]
  /\ faulty \in BOOLEAN
  /\ faulty \/ program \in {"lock", "pipe", "echo", "fanout", "reuse"}
  /\ LockInit /\ EchoInit /\ FanInit /\ NsInit /\ VethInit /\ SalaryInit
  /\ PipeInit /\ Unless("pipe", ~fifo)
  /\ Unless("fanout", ~stdoutIsReadable)
  /\ ReuseInit /\ Unless("reuse", addr = "host" /\ todo = <<"tcp_udp", "any_diff_ifs">>)
  /\ MapInit /\ Unless("map", drop_key = "nobody" /\ drop_value = "nobody"
                              /\ Head(entries) = "addr")
  /\ IpInit /\ Unless("ip", says = [c \in Command |-> ""])
  /\ ArrayInit /\ Unless("array", array = [i \in Index |-> 1])

RunLock ==
  /\ program = "lock" /\ LockNext
  /\ UNCHANGED <<program, faulty, pipeVars, echoVars, fanVars, reuseVars, mapVars,
                 nsVars, vethVars, ipVars, arrayVars, salaryVars>>

RunPipe ==
  /\ program = "pipe" /\ PipeNext
  /\ UNCHANGED <<program, faulty, locked, echoVars, fanVars, reuseVars, mapVars, nsVars,
                 vethVars, ipVars, arrayVars, salaryVars>>

RunEcho ==
  /\ program = "echo" /\ EchoNext
  /\ UNCHANGED <<program, faulty, locked, pipeVars, fanVars, reuseVars, mapVars, nsVars,
                 vethVars, ipVars, arrayVars, salaryVars>>

RunFanout ==
  /\ program = "fanout" /\ FanNext
  /\ UNCHANGED <<program, faulty, locked, pipeVars, echoVars, reuseVars, mapVars,
                 nsVars, vethVars, ipVars, arrayVars, salaryVars>>

RunReuse ==
  /\ program = "reuse" /\ ReuseNext
  /\ UNCHANGED <<program, faulty, locked, pipeVars, echoVars, fanVars, mapVars, nsVars,
                 vethVars, ipVars, arrayVars, salaryVars>>

RunMap ==
  /\ program = "map" /\ MapNext
  /\ UNCHANGED <<program, faulty, locked, pipeVars, echoVars, fanVars, reuseVars,
                 nsVars, vethVars, ipVars, arrayVars, salaryVars>>

RunVeth ==
  /\ program = "veth" /\ obtain_container_veth
  /\ UNCHANGED <<program, faulty, locked, pipeVars, echoVars, fanVars, reuseVars,
                 mapVars, ipVars, arrayVars, salaryVars>>

RunIp ==
  /\ program = "ip" /\ obtain_container_ip
  /\ UNCHANGED <<program, faulty, locked, pipeVars, echoVars, fanVars, reuseVars,
                 mapVars, vethVars, arrayVars, salaryVars>>

RunArray ==
  /\ program = "array" /\ SortPosition
  /\ UNCHANGED <<program, faulty, at, locked, pipeVars, echoVars, fanVars, reuseVars,
                 mapVars, nsVars, vethVars, ipVars, salaryVars>>

RunSalary ==
  /\ program = "salary" /\ SalaryNext
  /\ UNCHANGED <<program, faulty, at, locked, pipeVars, echoVars, fanVars, reuseVars,
                 mapVars, nsVars, vethVars, ipVars, arrayVars>>

Next == \/ RunLock \/ RunPipe \/ RunEcho \/ RunFanout \/ RunReuse
        \/ RunMap \/ RunVeth \/ RunIp \/ RunArray \/ RunSalary

(* Programs take finitely many steps that change anything; what any of     *)
(* their processes can still do is done.                                   *)
Spec == Init /\ [][Next]_vars
FairSpec == Spec /\ WF_vars(Next)
-----------------------------------------------------------------------------
(* Types of the programs' state.                                           *)
TypeOK == /\ LockTypeOK /\ PipeTypeOK /\ EchoTypeOK /\ FanTypeOK /\ ReuseTypeOK
          /\ MapTypeOK /\ NsTypeOK /\ VethTypeOK /\ IpTypeOK /\ ArrayTypeOK /\ SalaryTypeOK
          /\ program \in Program /\ faulty \in BOOLEAN

(* The containers of the practical exercises keep what they are given: the *)
(* array in descending order, the table with one entry a name and, if it   *)
(* was made for as many as there are names, within its room                *)
(* (array_template.cpp:35-70, bracket_overloading.cpp:25-42).              *)
ContainersAreRight == /\ SortsDescending /\ OneEntryEach
                      /\ Cardinality(Person) <= TableMax => TableFits

(* Where nothing fails for reasons of its own, processes that wait for     *)
(* others come to an end: for the lock, for room in the pipe, for a line   *)
(* or its echo, for children (child_share_flock.c:32-38, Server.cpp:29-38, *)
(* unixServer.cpp:44-57, unixClient.cpp:39-51, packet_mmap.c:130-134).     *)
ProcessesEnd == EveryRunEnds /\ ServerEnds /\ ClientsEnd /\ ParentReturns
=============================================================================
