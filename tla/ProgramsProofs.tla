---------------------------- MODULE ProgramsProofs ----------------------------
(***************************************************************************)
(* The repository's small programs, for any number of processes, calls and *)
(* interfaces, and whichever system calls fail.                            *)
(***************************************************************************)
EXTENDS Programs, FiniteSetTheorems, TLAPS

(* Every process starts where its program says.                            *)
LEMMA StartSteps ==
  ASSUME Init, NEW i \in 1 .. 7, NEW p \in DOMAIN Start[i]
  PROVE  p \in DOMAIN at /\ at[p] = Start[i][p]
<1>1. DOMAIN Start = 1 .. 7
  BY DEF Start
<1>2. Part(p) = i
  BY <1>1, ProgramsAssumption DEF Part
<1>3. QED
  BY <1>1, <1>2 DEF Init

(* A step of a process moves it, and nobody else.                          *)
LEMMA OneMoves ==
  ASSUME NEW p, NEW from, NEW to, Step(p, from, to), from # to
  PROVE  /\ p \in DOMAIN at => at'[p] = to
         /\ DOMAIN at' = DOMAIN at
         /\ \A q \in DOMAIN at : q # p => at'[q] = at[q]
BY DEF Step
-----------------------------------------------------------------------------
(* The programs that enter a container's namespaces.                       *)
LooksUp == program \in {"veth", "ip"}

InContainerNet == at[Lookup] \in {"ask", "restoreNet", "command", "restore"}
InContainerMnt == at[Lookup] \in {"readIflink", "restoreMnt"}

(* While the process is in the container's namespace, cur_fd leads back,   *)
(* and is the one descriptor open but for those the early return left.     *)
LookupInv ==
  IF LooksUp
    THEN /\ Lookup \in DOMAIN at
         /\ ns \in [Kind -> {"host", "container"}]
         /\ InContainerNet \/ InContainerMnt => saved \in {"host", "container"}
         /\ (IF InContainerNet THEN saved ELSE ns["net"]) = "host" \/ "net" \in stuck
         /\ unreadable \in Int
         /\ open = unreadable + IF InContainerNet \/ InContainerMnt THEN 1 ELSE 0
    ELSE ns = [k \in Kind |-> "host"] /\ open = 0 /\ unreadable = 0

(* What a step does to the lookups.                                        *)
LEMMA LookupSteps ==
  ASSUME [Next]_vars
  PROVE  /\ program' = program
         /\ \/ program = "veth" /\ obtain_container_veth /\ UNCHANGED ipVars
            \/ program = "ip" /\ obtain_container_ip /\ UNCHANGED vethVars
            \/ /\ UNCHANGED <<nsVars, vethVars, ipVars>>
               /\ LooksUp => UNCHANGED at
BY DEF Next, RunLock, RunPipe, RunEcho, RunFanout, RunReuse, RunMap, RunVeth, RunIp, RunArray,
       RunSalary, vars, LooksUp

(* The lookup is not in a call at the start.                               *)
LEMMA LookupStarts ==
  ASSUME Init
  PROVE  Lookup \in DOMAIN at /\ at[Lookup] = "idle"
<1>1. DOMAIN Start[7] = {Lookup} /\ Start[7][Lookup] = "idle"
  BY DEF Start, LookupStart
<1>2. QED
  BY <1>1, StartSteps

(* It starts in the host's namespaces, with nothing open.                  *)
LEMMA LookupInit == Init => LookupInv
<1> SUFFICES ASSUME Init PROVE LookupInv
  OBVIOUS
<1>1. ns = [k \in Kind |-> "host"] /\ open = 0 /\ unreadable = 0
  BY DEF Init, NsInit, VethInit
<1>2. QED
  BY <1>1, LookupStarts DEF LookupInv, Kind, InContainerNet, InContainerMnt

(* The way back from the container's network namespace.                    *)
LEMMA NetRestored ==
  ASSUME LookupInv, LooksUp, LooksUp', InContainerNet, unreadable' = unreadable,
         NEW from, NEW to, Restore("net", from, to),
         at'[Lookup] \in {"enterMnt", "scan", "return"}
  PROVE  LookupInv'
<1>1. /\ DOMAIN at' = DOMAIN at /\ open' = open - 1
      /\ \/ ns' = [ns EXCEPT !["net"] = saved] /\ stuck' = stuck
         \/ ns' = ns /\ "net" \in stuck'
  BY DEF Restore, Step
<1>2. saved \in {"host", "container"} /\ ns \in [Kind -> {"host", "container"}]
  BY DEF LookupInv
<1>3. ns' \in [Kind -> {"host", "container"}]
  BY <1>1, <1>2 DEF Kind
<1>4. ns'["net"] = "host" \/ "net" \in stuck'
  BY <1>1, <1>2 DEF LookupInv, Kind
<1>5. ~InContainerNet' /\ ~InContainerMnt'
  BY DEF InContainerNet, InContainerMnt
<1>6. open = unreadable + 1 /\ unreadable \in Int /\ Lookup \in DOMAIN at
  BY DEF LookupInv
<1>7. QED
  BY <1>1, <1>3, <1>4, <1>5, <1>6 DEF LookupInv

(* Every step of a lookup, and every failure of one, keeps the way back.   *)
LEMMA LookupStep ==
  ASSUME LookupInv, [Next]_vars
  PROVE  LookupInv'
<1>1. CASE program = "veth" /\ obtain_container_veth
  <2>1. LooksUp /\ LooksUp'
    BY <1>1, LookupSteps DEF LooksUp
  <2>2. CASE CallVeth
    BY <2>1, <2>2 DEF LookupInv, CallVeth, Call, Step, InContainerNet, InContainerMnt
  <2>3. CASE enter_netns
    BY <2>1, <2>3 DEF LookupInv, enter_netns, Enter, Stay, Step, Present, LeftOpen, Kind, nsVars,
                      vethVars, InContainerNet, InContainerMnt
  <2>4. CASE AskIpLink
    BY <2>1, <2>4 DEF LookupInv, AskIpLink, Stay, Step, nsVars, InContainerNet, InContainerMnt
  <2>5. CASE restore_netns
    <3>1. PICK to \in {"enterMnt", "scan"} : Restore("net", "restoreNet", to)
      BY <2>5 DEF restore_netns
    <3>2. at[Lookup] = "restoreNet" /\ at'[Lookup] = to
      BY <2>1, <3>1 DEF LookupInv, Restore, Step
    <3>3. InContainerNet /\ unreadable' = unreadable
      BY <2>5, <3>2 DEF InContainerNet, restore_netns, vethVars
    <3>4. QED
      BY <2>1, <3>1, <3>2, <3>3, NetRestored
  <2>6. CASE enter_mntns
    BY <2>1, <2>6 DEF LookupInv, enter_mntns, Enter, Stay, Step, LeftOpen, Present, Kind, nsVars,
                      InContainerNet, InContainerMnt
  <2>7. CASE ReadIflink
    BY <2>1, <2>7 DEF LookupInv, ReadIflink, Stay, Step, nsVars, InContainerNet, InContainerMnt
  <2>8. CASE restore_mntns
    <3>1. ns' \in [Kind -> {"host", "container"}] /\ ns'["net"] = ns["net"]
      BY <2>1, <2>8 DEF LookupInv, restore_mntns, Restore, Step, Kind, InContainerMnt
    <3>2. /\ at[Lookup] = "restoreMnt" /\ at'[Lookup] = "scan" /\ DOMAIN at' = DOMAIN at
          /\ unreadable' = unreadable /\ open' = open - 1 /\ stuck \subseteq stuck'
      BY <2>1, <2>8 DEF LookupInv, restore_mntns, Restore, Step, vethVars
    <3>3. QED
      BY <2>1, <3>1, <3>2 DEF LookupInv, InContainerNet, InContainerMnt
  <2>9. CASE FindIfindex
    BY <2>1, <2>9 DEF LookupInv, FindIfindex, Stay, Step, nsVars, InContainerNet, InContainerMnt
  <2>10. QED
    BY <1>1, <2>2, <2>3, <2>4, <2>5, <2>6, <2>7, <2>8, <2>9 DEF obtain_container_veth
<1>2. CASE program = "ip" /\ obtain_container_ip /\ UNCHANGED vethVars
  <2>1. LooksUp /\ LooksUp' /\ unreadable' = unreadable
    BY <1>2, LookupSteps DEF LooksUp, vethVars
  <2>2. CASE CallIp
    BY <2>1, <2>2 DEF LookupInv, CallIp, Call, Step, InContainerNet, InContainerMnt
  <2>3. CASE EnterForIp
    BY <2>1, <2>3 DEF LookupInv, EnterForIp, Enter, Stay, Step, Present, LeftOpen, Kind, nsVars,
                      InContainerNet, InContainerMnt
  <2>4. CASE RunCommand
    BY <2>1, <2>4 DEF LookupInv, RunCommand, Stay, Step, nsVars, InContainerNet, InContainerMnt
  <2>5. CASE RestoreAfterIp
    <3>1. at[Lookup] = "restore" /\ at'[Lookup] = "return"
      BY <2>1, <2>5 DEF LookupInv, RestoreAfterIp, Restore, Step
    <3>2. InContainerNet /\ Restore("net", "restore", "return")
      BY <2>5, <3>1 DEF InContainerNet, RestoreAfterIp
    <3>3. QED
      BY <2>1, <3>1, <3>2, NetRestored
  <2>6. CASE ReturnBuffer
    BY <2>1, <2>6 DEF LookupInv, ReturnBuffer, Stay, Step, nsVars, InContainerNet, InContainerMnt
  <2>7. QED
    BY <1>2, <2>2, <2>3, <2>4, <2>5, <2>6 DEF obtain_container_ip
<1>3. CASE /\ UNCHANGED <<nsVars, vethVars, ipVars>>
           /\ LooksUp => UNCHANGED at
  BY <1>3, LookupSteps DEF LookupInv, LooksUp, nsVars, vethVars, InContainerNet, InContainerMnt
<1>4. QED
  BY <1>1, <1>2, <1>3, LookupSteps

(* Whatever fails, a lookup in one of the container's namespaces has the   *)
(* descriptor that leads back, and that one only but for those of early    *)
(* returns.                                                                *)
THEOREM LookupInvariant == Spec => []LookupInv
<1>1. LookupInv /\ [Next]_vars => LookupInv'
  BY LookupStep
<1>2. QED
  BY <1>1, LookupInit, PTL DEF Spec

(* Whatever fails, and however often either program's function is called,  *)
(* it leaves the process in the host's network namespace unless the setns  *)
(* back failed (obtain_container_ip.cpp:67-120,                            *)
(* obtain_container_veth.cpp:147-194).                                     *)
THEOREM NetnsRestored == Spec => []NetnsIsRestored
<1>1. LookupInv => NetnsIsRestored
  BY DEF LookupInv, NetnsIsRestored, IsRestored, InContainerNet, Kind
<1>2. QED
  BY <1>1, LookupInvariant, PTL

(* No descriptor is left open but by the early return after enter_mntns    *)
(* (obtain_container_veth.cpp:21-36, 55-70, 215-230).                      *)
THEOREM DescriptorsAreAccounted == Spec => []DescriptorsAccounted
<1>1. LookupInv => DescriptorsAccounted
  BY DEF LookupInv, DescriptorsAccounted, InContainerNet, InContainerMnt
<1>2. QED
  BY <1>1, LookupInvariant, PTL
-----------------------------------------------------------------------------
(* The process sees the host's interfaces, or will when it is back.        *)
SeesHost == ns["mnt"] = "host" \/ (InContainerMnt /\ saved = "host")

(* The number that is looked for is the pair's or none an interface has,   *)
(* and the name that was found where the process still is, is the pair's.  *)
AnswerInv ==
  IF program = "veth"
    THEN /\ iflink \in {-1, 0, Peer}
         /\ at[Lookup] = "scan" => iflink # -1
         /\ at[Lookup] = "restoreMnt" => iflink = Peer
         /\ SeesHost /\ answer \in IfName => answer \in DOMAIN HostIf /\ HostIf[answer] = Peer
    ELSE answer = "NULL"

(* Every step of a call that has stayed at home looks for the pair's       *)
(* number, or for one no interface has.                                    *)
LEMMA AnswerStep ==
  ASSUME LookupInv, AnswerInv, [Next]_vars
  PROVE  AnswerInv'
<1>1. CASE program = "veth" /\ obtain_container_veth
  <2> USE DEF Step
  <2>1. program' = "veth" /\ Lookup \in DOMAIN at /\ ns \in [Kind -> {"host", "container"}]
    BY <1>1, LookupSteps DEF LookupInv, LooksUp
  <2>a. "NULL" \notin IfName /\ Peer # -1 /\ Peer \in Nat \ {0}
    <3>1. "NULL" \notin IfName
      BY VethLookupAssumption, Zenon DEF IfName
    <3>2. Peer \in Nat \ {0}
      BY VethLookupAssumption
    <3>3. QED
      BY <3>1, <3>2
  <2>2. CASE CallVeth
    BY <1>1, <2>1, <2>2 DEF AnswerInv, CallVeth, Call, SeesHost, InContainerMnt
  <2>3. CASE enter_netns
    BY <1>1, <2>1, <2>3 DEF AnswerInv, enter_netns, Enter, Stay, vethVars, Kind, SeesHost,
                            InContainerMnt, nsVars
  <2>4. CASE AskIpLink
    BY <1>1, <2>1, <2>4 DEF AnswerInv, AskIpLink, Stay, nsVars, SeesHost, InContainerMnt
  <2>5. CASE restore_netns
    BY <1>1, <2>1, <2>5 DEF AnswerInv, restore_netns, Restore, vethVars, Kind, SeesHost,
                            InContainerMnt
  <2>6. CASE enter_mntns
    BY <1>1, <2>1, <2>6, <2>a DEF AnswerInv, enter_mntns, Enter, Stay, Present, Kind, nsVars,
                                  SeesHost, InContainerMnt
  <2>7. CASE ReadIflink
    BY <1>1, <2>1, <2>7, <2>a DEF AnswerInv, ReadIflink, Stay, nsVars, SeesHost, InContainerMnt
  <2>8. CASE restore_mntns
    BY <1>1, <2>1, <2>8, <2>a DEF AnswerInv, restore_mntns, Restore, vethVars, Kind, SeesHost,
                                  InContainerMnt
  <2>9. CASE FindIfindex
    <3>1. /\ at[Lookup] = "scan" /\ at'[Lookup] = "idle" /\ UNCHANGED <<ns, saved, iflink>>
          /\ answer' \in {"NULL", ""} \union { n \in DOMAIN Visible : Matches(n) }
      BY <2>1, <2>9 DEF FindIfindex, Stay, nsVars
    <3>2. "" \notin IfName
      BY VethLookupAssumption DEF IfName
    <3>3. ASSUME SeesHost', answer' \in IfName
          PROVE  answer' \in DOMAIN HostIf /\ HostIf[answer'] = Peer
      <4>1. Visible = HostIf
        BY <3>1, <3>3 DEF SeesHost, InContainerMnt, Visible
      <4>2. answer' \in DOMAIN HostIf /\ HostIf[answer'] = iflink
        BY <2>a, <3>1, <3>2, <3>3, <4>1 DEF Matches
      <4>3. HostIf[answer'] \in Nat \ {0}
        BY <4>2, VethLookupAssumption
      <4>4. QED
        BY <1>1, <3>1, <4>2, <4>3 DEF AnswerInv
    <3>4. QED
      BY <1>1, <2>1, <3>1, <3>3 DEF AnswerInv
  <2>10. QED
    BY <1>1, <2>2, <2>3, <2>4, <2>5, <2>6, <2>7, <2>8, <2>9 DEF obtain_container_veth
<1>2. CASE program = "ip" /\ UNCHANGED vethVars
  BY <1>2, LookupSteps DEF AnswerInv, vethVars
<1>3. CASE /\ UNCHANGED <<nsVars, vethVars, ipVars>>
           /\ LooksUp => UNCHANGED at
  BY <1>3, LookupSteps DEF AnswerInv, LooksUp, nsVars, vethVars, SeesHost, InContainerMnt
<1>4. QED
  BY <1>1, <1>2, <1>3, LookupSteps

(* As long as the process has stayed in, or come back to, the host's mount *)
(* namespace, the name it gives is that of the container's pair            *)
(* (obtain_container_veth.cpp:134, 211-232, 252).                          *)
THEOREM AnswerIsThePeer == Spec => []AnswerIsPeer
<1>1. Init => AnswerInv
  BY LookupStarts, VethLookupAssumption DEF Init, AnswerInv, VethInit, IfName
<1>2. LookupInv /\ AnswerInv /\ [Next]_vars => AnswerInv'
  BY AnswerStep
<1>3. AnswerInv => AnswerIsPeer
  BY VethLookupAssumption DEF AnswerInv, AnswerIsPeer, SeesHost, IfName
<1>4. QED
  BY <1>1, <1>2, <1>3, LookupInvariant, PTL DEF Spec

(* Before the first early return the process is in the host's mount        *)
(* namespace, or cur_fd leads back there, or a setns back has failed.      *)
MntInv ==
  /\ unreadable \in Nat
  /\ LooksUp /\ unreadable = 0 =>
       (IF InContainerMnt THEN saved ELSE ns["mnt"]) = "host" \/ "mnt" \in stuck

(* Every step of a call but the early return, or a setns that the kernel   *)
(* refuses, keeps the way back to the host's mount namespace.              *)
LEMMA MntStep ==
  ASSUME LookupInv, MntInv, [Next]_vars
  PROVE  MntInv'
<1> USE DEF Step, InContainerMnt
<1>1. LooksUp => Lookup \in DOMAIN at /\ ns \in [Kind -> {"host", "container"}]
  BY DEF LookupInv
<1>2. CASE program = "veth" /\ obtain_container_veth
  <2>1. LooksUp /\ LooksUp'
    BY <1>2, LookupSteps DEF LooksUp
  <2>2. CASE CallVeth \/ AskIpLink \/ FindIfindex
    BY <1>1, <2>1, <2>2 DEF MntInv, CallVeth, Call, AskIpLink, FindIfindex, Stay, nsVars
  <2>3. CASE enter_netns
    BY <1>1, <2>1, <2>3 DEF MntInv, enter_netns, Enter, Stay, nsVars, vethVars, Kind
  <2>4. CASE restore_netns
    BY <1>1, <2>1, <2>4 DEF MntInv, restore_netns, Restore, vethVars, Kind
  <2>5. CASE enter_mntns
    BY <1>1, <2>1, <2>5 DEF MntInv, enter_mntns, Enter, Stay, Present, nsVars, Kind
  <2>6. CASE ReadIflink
    BY <1>1, <2>1, <2>6 DEF MntInv, ReadIflink, Stay, nsVars
  <2>7. CASE restore_mntns
    BY <1>1, <2>1, <2>7 DEF MntInv, restore_mntns, Restore, vethVars, Kind
  <2>8. QED
    BY <1>2, <2>2, <2>3, <2>4, <2>5, <2>6, <2>7 DEF obtain_container_veth
<1>3. CASE program = "ip" /\ obtain_container_ip /\ UNCHANGED vethVars
  <2>1. LooksUp /\ LooksUp' /\ unreadable' = unreadable
    BY <1>3, LookupSteps DEF LooksUp, vethVars
  <2>2. QED
    BY <1>1, <1>3, <2>1
       DEF MntInv, obtain_container_ip, CallIp, Call, EnterForIp, Enter, RunCommand, RestoreAfterIp,
           Restore, ReturnBuffer, Stay, nsVars, Kind
<1>4. CASE /\ UNCHANGED <<nsVars, vethVars, ipVars>>
           /\ LooksUp => UNCHANGED at
  BY <1>4, LookupSteps DEF MntInv, LookupInv, LooksUp, nsVars, vethVars, Kind
<1>5. QED
  BY <1>2, <1>3, <1>4, LookupSteps

(* The one early return of obtain_container_veth that is before the        *)
(* restore is all that keeps a process in the container's mount namespace: *)
(* until it is taken, calls end in the host's, whatever else fails         *)
(* (obtain_container_veth.cpp:215-230).                                    *)
THEOREM MntnsRestored == Spec => [](unreadable = 0 => MntnsIsRestored)
<1>1. Init => MntInv
  <2> SUFFICES ASSUME Init PROVE MntInv
    OBVIOUS
  <2>1. ns = [k \in Kind |-> "host"] /\ unreadable = 0
    BY DEF Init, NsInit, VethInit
  <2>2. QED
    BY <2>1, LookupStarts DEF MntInv, InContainerMnt, Kind
<1>2. LookupInv /\ MntInv /\ [Next]_vars => MntInv'
  BY MntStep
<1>3. LookupInv /\ MntInv => (unreadable = 0 => MntnsIsRestored)
  BY DEF LookupInv, Kind, MntInv, MntnsIsRestored, IsRestored, InContainerMnt
<1>4. QED
  BY <1>1, <1>2, <1>3, LookupInvariant, PTL DEF Spec
-----------------------------------------------------------------------------
(* The command that ended the loop is the one whose output is returned.    *)
LEMMA ReturnedIs ==
  ASSUME NEW c \in Command, is_valid_ip(says[c]) \/ c = 3,
         \A d \in 1 .. c - 1 : ~is_valid_ip(says[d])
  PROVE  Returned = c
<1> DEFINE ends(x) == /\ is_valid_ip(says[x]) \/ x = 3
                      /\ \A d \in 1 .. x - 1 : ~is_valid_ip(says[d])
<1>1. ends(c)
  OBVIOUS
<1>2. ASSUME NEW x \in Command, ends(x)
      PROVE  x = c
  <2>1. c \in 1 .. 3 /\ x \in 1 .. 3
    BY DEF Command
  <2>2. CASE x < c
    <3>1. x \in 1 .. c - 1 /\ x # 3
      BY <2>1, <2>2
    <3>2. QED
      BY <1>2, <3>1
  <2>3. CASE c < x
    <3>1. c \in 1 .. x - 1 /\ c # 3
      BY <2>1, <2>3
    <3>2. QED
      BY <1>2, <3>1
  <2>4. QED
    BY <2>1, <2>2, <2>3
<1>3. Returned = CHOOSE x \in Command : ends(x)
  BY DEF Returned
<1> HIDE DEF ends
<1>4. QED
  BY <1>1, <1>2, <1>3

(* The commands that were run before the last one printed no address.      *)
AddressInv ==
  IF program = "ip"
    THEN /\ says \in [Command -> Output]
         /\ tried \in 0 .. 3
         /\ at[Lookup] = "command" => \A c \in 1 .. tried : ~is_valid_ip(says[c])
         /\ at[Lookup] \in {"restore", "return"} =>
              /\ tried # 0 /\ buffer = says[tried]
              /\ is_valid_ip(buffer) \/ tried = 3
              /\ \A c \in 1 .. tried - 1 : ~is_valid_ip(says[c])
         /\ at[Lookup] = "enter" => tried = 0
         /\ address # "NULL" => address = says[Returned]
    ELSE address = "NULL"

(* Every step of a call has in the buffer what the last command printed,   *)
(* and no command before it printed an address.                            *)
LEMMA AddressStep ==
  ASSUME LookupInv, AddressInv, [Next]_vars
  PROVE  AddressInv'
<1>1. CASE program = "ip" /\ obtain_container_ip
  <2>1. program' = "ip" /\ Lookup \in DOMAIN at
    BY <1>1, LookupSteps DEF LookupInv, LooksUp
  <2> says' = says /\ Returned' = Returned
    <3>1. says' = says
      BY <1>1 DEF obtain_container_ip, CallIp, EnterForIp, RunCommand, RestoreAfterIp,
                  ReturnBuffer, ipVars
    <3>2. QED
      BY <3>1 DEF Returned, is_valid_ip
  <2>2. CASE CallIp
    BY <1>1, <2>1, <2>2 DEF AddressInv, CallIp, Call, Step
  <2>3. CASE EnterForIp
    BY <1>1, <2>1, <2>3 DEF AddressInv, EnterForIp, Enter, Stay, Step
  <2>4. CASE RunCommand
    <3>1. /\ at[Lookup] = "command" /\ tried \in 0 .. 2 /\ tried' = tried + 1
          /\ buffer' = says[tried + 1] /\ UNCHANGED <<says, address>>
          /\ \A c \in 1 .. tried : ~is_valid_ip(says[c])
      BY <1>1, <2>4 DEF AddressInv, RunCommand, Stay, Step
    <3>2. at'[Lookup] = IF is_valid_ip(buffer') \/ tried' = 3 THEN "restore" ELSE "command"
      BY <2>1, <2>4 DEF RunCommand, Stay, Step, is_valid_ip
    <3>3. tried' \in 1 .. 3 /\ tried' - 1 = tried
      BY <3>1
    <3>4. says \in [Command -> Output] /\ (address # "NULL" => address = says[Returned])
      BY <1>1 DEF AddressInv
    <3>5. \A c \in 1 .. tried' : c \in 1 .. tried \/ c = tried'
      BY <3>1
    <3>6. QED
      BY <2>1, <3>1, <3>2, <3>3, <3>4, <3>5 DEF AddressInv, is_valid_ip
  <2>5. CASE RestoreAfterIp
    BY <1>1, <2>1, <2>5 DEF AddressInv, RestoreAfterIp, Restore, Step, ipVars, is_valid_ip
  <2>6. CASE ReturnBuffer
    <3>1. /\ at[Lookup] = "return" /\ at'[Lookup] = "idle" /\ UNCHANGED <<says, tried, buffer>>
          /\ address' = IF buffer = "" THEN "NULL" ELSE buffer
      BY <2>1, <2>6 DEF ReturnBuffer, Stay, Step
    <3>2. /\ tried # 0 /\ tried \in 0 .. 3 /\ buffer = says[tried] /\ says \in [Command -> Output]
          /\ is_valid_ip(buffer) \/ tried = 3
          /\ \A c \in 1 .. tried - 1 : ~is_valid_ip(says[c])
      BY <1>1, <3>1, Zenon DEF AddressInv
    <3>3. PICK c \in Command : c = tried
      BY <3>2 DEF Command
    <3>4. Returned = c
      BY <3>2, <3>3, ReturnedIs
    <3>5. address' # "NULL" => address' = says'[Returned']
      BY <3>1, <3>2, <3>3, <3>4
    <3>6. QED
      BY <1>1, <2>1, <3>1, <3>5 DEF AddressInv
  <2>7. QED
    BY <1>1, <2>2, <2>3, <2>4, <2>5, <2>6 DEF obtain_container_ip
<1>2. CASE program = "veth" /\ UNCHANGED ipVars
  BY <1>2, LookupSteps DEF AddressInv, ipVars
<1>3. CASE /\ UNCHANGED <<nsVars, vethVars, ipVars>>
           /\ LooksUp => UNCHANGED at
  BY <1>3, LookupSteps DEF AddressInv, LooksUp, ipVars, Returned, is_valid_ip
<1>4. QED
  BY <1>1, <1>2, <1>3, LookupSteps

(* Whatever the commands print, the first valid address is returned        *)
(* (obtain_container_ip.cpp:81-117, 122-125).                              *)
THEOREM FirstAddressReturned == Spec => []FirstAddressWins
<1>1. Init => AddressInv
  <2> SUFFICES ASSUME Init PROVE AddressInv
    OBVIOUS
  <2>1. says \in [Command -> Output] /\ tried = 0 /\ address = "NULL"
    BY DEF Init, IpInit
  <2>2. QED
    BY <2>1, LookupStarts DEF AddressInv
<1>2. LookupInv /\ AddressInv /\ [Next]_vars => AddressInv'
  BY AddressStep
<1>3. AddressInv => FirstAddressWins
  BY DEF AddressInv, FirstAddressWins
<1>4. QED
  BY <1>1, <1>2, <1>3, LookupInvariant, PTL DEF Spec
-----------------------------------------------------------------------------
(* Programs neither end processes' existence nor make new ones.            *)
LEMMA SameProcesses ==
  ASSUME [Next]_vars
  PROVE  DOMAIN at' = DOMAIN at
<1>1. CASE RunLock
  BY <1>1 DEF RunLock, LockNext, OpenFile, LockFirst, Fork, Wake, Inherit, Share, flock, Fails,
              ParentExits, Step
<1>2. CASE RunPipe
  BY <1>2 DEF RunPipe, PipeNext, ServerMain, MakeFifo, OpenForWriting, WriteBlock, BrokenPipe,
              CloseWriter, ClientMain, OpenForReading, ReadBlock, CloseReader, Fails, Step
<1>3. CASE RunEcho
  BY <1>3 DEF RunEcho, EchoNext, UnixServer, UnixClient, Bind, Listen, Accept, Read, Write,
              Unlink, Connect, SendLine, ReadEcho, Fails, Step
<1>4. CASE RunFanout
  BY <1>4 DEF RunFanout, FanNext, ForkChild, Wait, setup_socket, ReadPacket, Fails, Step
<1>5. CASE RunReuse
  BY <1>5 DEF RunReuse, ReuseNext, OpenSocket, BindSocket, CloseSockets, Return, Step
<1>6. CASE RunMap
  BY <1>6 DEF RunMap, MapNext, EraseAddr, VisitEntry, Step
<1>7. CASE RunVeth
  BY <1>7 DEF RunVeth, obtain_container_veth, CallVeth, enter_netns, AskIpLink, restore_netns,
              enter_mntns, ReadIflink, restore_mntns, FindIfindex, Call, Stay, Enter, Restore, Step
<1>8. CASE RunIp
  BY <1>8 DEF RunIp, obtain_container_ip, CallIp, EnterForIp, RunCommand, RestoreAfterIp,
              ReturnBuffer, Call, Stay, Enter, Restore, Step
<1>9. CASE RunArray \/ RunSalary \/ UNCHANGED vars
  BY <1>9 DEF RunArray, RunSalary, vars
<1>10. QED
  BY <1>1, <1>2, <1>3, <1>4, <1>5, <1>6, <1>7, <1>8, <1>9 DEF Next

(* Only the programs with locks have processes that fall asleep.           *)
LEMMA NobodyElse ==
  ASSUME [Next]_vars, program # "lock", NEW p \in DOMAIN at, at'[p] = "asleep"
  PROVE  at[p] = "asleep"
<1>1. CASE RunLock
  BY <1>1 DEF RunLock, LockNext, OpenFile, LockFirst, Fork, Wake, Inherit, Share, flock, Fails,
              ParentExits, Step
<1>2. CASE RunPipe
  BY <1>2 DEF RunPipe, PipeNext, ServerMain, MakeFifo, OpenForWriting, WriteBlock, BrokenPipe,
              CloseWriter, ClientMain, OpenForReading, ReadBlock, CloseReader, Fails, Step
<1>3. CASE RunEcho
  BY <1>3 DEF RunEcho, EchoNext, UnixServer, UnixClient, Bind, Listen, Accept, Read, Write,
              Unlink, Connect, SendLine, ReadEcho, Fails, Step
<1>4. CASE RunFanout
  BY <1>4 DEF RunFanout, FanNext, ForkChild, Wait, setup_socket, ReadPacket, Fails, Step
<1>5. CASE RunReuse
  BY <1>5 DEF RunReuse, ReuseNext, OpenSocket, BindSocket, CloseSockets, Return, Step
<1>6. CASE RunMap
  BY <1>6 DEF RunMap, MapNext, EraseAddr, VisitEntry, AfterErase, Step
<1>7. CASE RunVeth
  BY <1>7 DEF RunVeth, obtain_container_veth, CallVeth, enter_netns, AskIpLink, restore_netns,
              enter_mntns, ReadIflink, restore_mntns, FindIfindex, Call, Stay, Enter, Restore, Step
<1>8. CASE RunIp
  BY <1>8 DEF RunIp, obtain_container_ip, CallIp, EnterForIp, RunCommand, RestoreAfterIp,
              ReturnBuffer, Call, Stay, Enter, Restore, Step
<1>9. CASE RunArray \/ RunSalary \/ UNCHANGED vars
  BY <1>9 DEF RunArray, RunSalary, vars
<1>10. QED
  BY <1>1, <1>2, <1>3, <1>4, <1>5, <1>6, <1>7, <1>8, <1>9 DEF Next

(* The lock is its run's from flock to fork, where the child comes in, and *)
(* in child_inherit_flock as long as the child sleeps.                     *)
Asleep(r) == at[Child(r)] = "asleep"

LockInv ==
  /\ \A r \in Run : Parent(r) \in DOMAIN at /\ Child(r) \in DOMAIN at
  /\ IF program = "lock"
       THEN \A r \in Run : /\ at[Parent(r)] \in {"open", "lock", "fork"} => ~Asleep(r)
                           /\ at[Parent(r)] = "fork" => locked = {r}
                           /\ r \in Inheriting /\ Asleep(r) => locked = {r}
       ELSE \A r \in Run : ~Asleep(r)

(* No child sleeps at the start.                                           *)
LEMMA LockInvInit == Init => LockInv
<1> SUFFICES ASSUME Init PROVE LockInv
  OBVIOUS
<1>1. ASSUME NEW r \in Run
      PROVE  /\ Parent(r) \in DOMAIN at /\ at[Parent(r)] = "open"
             /\ Child(r) \in DOMAIN at /\ at[Child(r)] = "unborn"
  <2>1. DOMAIN Start[1] = Run \X {"parent", "child"}
    BY DEF Start, LockStart
  <2>2. Parent(r) \in DOMAIN Start[1] /\ Child(r) \in DOMAIN Start[1]
    BY <2>1 DEF Parent, Child
  <2>3. Start[1][Parent(r)] = "open" /\ Start[1][Child(r)] = "unborn"
    BY <2>1, <2>2 DEF Start, LockStart, Parent, Child
  <2>4. QED
    BY <2>2, <2>3, StartSteps
<1>2. QED
  BY <1>1 DEF LockInv, Asleep

(* A child starts to sleep when its parent has the lock, and one that has  *)
(* inherited it keeps it from all others while it sleeps.                  *)
LEMMA LockInvStep ==
  ASSUME LockInv, [Next]_vars
  PROVE  LockInv'
<1>1. program' = program /\ DOMAIN at' = DOMAIN at
  BY LookupSteps, SameProcesses
<1>2. CASE program = "lock" /\ LockNext
  <2> USE DEF Step, Fails, ParentExits, LockAfter, flock, LockInv, Asleep
  <2>1. \A q, r \in Run : /\ Parent(q) # Child(r)
                          /\ Parent(q) = Parent(r) => q = r
                          /\ Child(q) = Child(r) => q = r
    BY DEF Parent, Child
  <2>2. PICK q \in Run : OpenFile(q) \/ LockFirst(q) \/ Fork(q) \/ Wake(q) \/ Inherit(q) \/ Share(q)
    BY <1>2 DEF LockNext
  <2>3. CASE OpenFile(q)
    BY <1>1, <1>2, <2>1, <2>3 DEF OpenFile
  <2>4. CASE LockFirst(q)
    BY <1>1, <1>2, <2>1, <2>4 DEF LockFirst
  <2>5. CASE Fork(q)
    BY <1>1, <1>2, <2>1, <2>5 DEF Fork, Over
  <2>6. CASE Wake(q)
    BY <1>1, <1>2, <2>1, <2>6 DEF Wake, Over
  <2>7. CASE Inherit(q)
    BY <1>1, <1>2, <2>1, <2>7 DEF Inherit, Over
  <2>8. CASE Share(q)
    <3>1. q \notin Inheriting
      BY <2>8, ProgramsAssumption DEF Share
    <3>2. QED
      BY <1>1, <1>2, <2>1, <2>8, <3>1 DEF Share, Over
  <2>9. QED
    BY <2>2, <2>3, <2>4, <2>5, <2>6, <2>7, <2>8
<1>3. CASE program = "lock" /\ ~LockNext
  <2>1. UNCHANGED <<at, locked>>
    BY <1>3 DEF Next, RunLock, RunPipe, RunEcho, RunFanout, RunReuse, RunMap, RunVeth, RunIp,
                RunArray, RunSalary, vars
  <2>2. QED
    BY <1>1, <2>1 DEF LockInv, Asleep
<1>4. CASE program # "lock"
  BY <1>1, <1>4, NobodyElse DEF LockInv, Asleep
<1>5. QED
  BY <1>2, <1>3, <1>4

(* However many runs compete for the file, and whenever the parent exits,  *)
(* the child that sleeps has the lock (child_inherit_flock.c:20-32).       *)
THEOREM LockOutlivesParent == Spec => []InheritedLockIsKept
<1>1. LockInv => InheritedLockIsKept
  BY DEF LockInv, InheritedLockIsKept, Asleep, Run
<1>2. LockInv /\ [Next]_vars => LockInv'
  BY LockInvStep
<1>3. QED
  BY <1>1, <1>2, LockInvInit, PTL DEF Spec
-----------------------------------------------------------------------------
(* The programs whose processes start as Start[i] says.                    *)
ProgramsOf ==
  <<{"lock"}, {"pipe"}, {"echo"}, {"fanout"}, {"reuse"}, {"map"}, {"veth", "ip"}>>

(* No other program has to do with a program's processes, if the fork of   *)
(* packet_mmap makes none but its own.                                     *)
LEMMA OthersLeaveIt ==
  ASSUME [Next]_vars, NEW i \in 1 .. 7, program \notin ProgramsOf[i],
         NEW p \in DOMAIN Start[i], p \in DOMAIN at,
         program = "fanout" /\ ForkChild => <<"fanout", Cardinality(Unborn)>> \in Forked
  PROVE  at'[p] = at[p]
<1> DEFINE Other(q) == \E j \in (1 .. 7) \ {i} : q \in DOMAIN Start[j]
<1>1. ASSUME NEW q, Other(q)
      PROVE  q # p
  <2>1. PICK j \in (1 .. 7) \ {i} : q \in DOMAIN Start[j]
    BY <1>1
  <2>2. DOMAIN Start = 1 .. 7
    BY DEF Start
  <2>3. DOMAIN Start[j] \intersect DOMAIN Start[i] = {}
    BY <2>2, ProgramsAssumption
  <2>4. QED
    BY <2>1, <2>2, <2>3
<1> HIDE DEF Other
<1>a. \A j \in 1 .. 7 : program \in ProgramsOf[j] => j # i
  OBVIOUS
<1>2. program = "lock" => \A r \in Run : Other(Parent(r)) /\ Other(Child(r))
  BY <1>a DEF Other, ProgramsOf, Start, LockStart, Parent, Child
<1>3. program = "pipe" => Other(Server) /\ \A c \in Client : Other(c)
  BY <1>a DEF Other, ProgramsOf, Start, PipeStart
<1>4. program = "echo" => \A q \in EchoServer \union EchoClient : Other(q)
  BY <1>a DEF Other, ProgramsOf, Start, EchoStart
<1>5. program = "fanout" => \A q \in {Main} \union Forked : Other(q)
  BY <1>a DEF Other, ProgramsOf, Start, FanStart
<1>6. /\ program = "reuse" => Other(Experiment)
      /\ program = "map" => Other(Mapper)
      /\ program \in {"veth", "ip"} => Other(Lookup)
  <2>1. program = "reuse" => Other(Experiment)
    <3>1. Start[5] = ReuseStart /\ Experiment \in DOMAIN ReuseStart
      BY DEF Start, ReuseStart
    <3>2. program = "reuse" => 5 # i
      BY <1>a DEF ProgramsOf
    <3>3. QED
      BY <3>1, <3>2 DEF Other
  <2>2. program = "map" => Other(Mapper)
    BY <1>a DEF Other, ProgramsOf, Start, MapStart
  <2>3. program \in {"veth", "ip"} => Other(Lookup)
    BY <1>a DEF Other, ProgramsOf, Start, LookupStart
  <2>4. QED
    BY <2>1, <2>2, <2>3
<1>7. CASE RunLock
  BY <1>1, <1>2, <1>7 DEF RunLock, LockNext, OpenFile, LockFirst, Fork, Wake, Inherit, Share, flock,
                          Fails, ParentExits, Step
<1>8. CASE RunPipe
  BY <1>1, <1>3, <1>8 DEF RunPipe, PipeNext, ServerMain, MakeFifo, OpenForWriting, WriteBlock,
                          BrokenPipe, CloseWriter, ClientMain, OpenForReading, ReadBlock,
                          CloseReader, Fails, Step
<1>9. CASE RunEcho
  BY <1>1, <1>4, <1>9 DEF RunEcho, EchoNext, UnixServer, UnixClient, Bind, Listen, Accept, Read,
                          Write, Unlink, Connect, SendLine, ReadEcho, Fails, Step
<1>10. CASE RunFanout
  BY <1>1, <1>5, <1>10
     DEF RunFanout, FanNext, ForkChild, Wait, setup_socket, ReadPacket, Fails, Step
<1>11. CASE RunReuse
  BY <1>1, <1>6, <1>11 DEF RunReuse, ReuseNext, OpenSocket, BindSocket, CloseSockets, Return, Step
<1>12. CASE RunMap
  BY <1>1, <1>6, <1>12 DEF RunMap, MapNext, EraseAddr, VisitEntry, Step
<1>13. CASE RunVeth
  BY <1>1, <1>6, <1>13 DEF RunVeth, obtain_container_veth, CallVeth, enter_netns, AskIpLink,
                           restore_netns, enter_mntns, ReadIflink, restore_mntns, FindIfindex,
                           Call, Stay, Enter, Restore, Step
<1>14. CASE RunIp
  BY <1>1, <1>6, <1>14 DEF RunIp, obtain_container_ip, CallIp, EnterForIp, RunCommand,
                           RestoreAfterIp, ReturnBuffer, Call, Stay, Enter, Restore, Step
<1>15. CASE RunArray \/ RunSalary \/ UNCHANGED vars
  BY <1>15 DEF RunArray, RunSalary, vars
<1>16. QED
  BY <1>7, <1>8, <1>9, <1>10, <1>11, <1>12, <1>13, <1>14, <1>15 DEF Next

(* There are n numbers from 1 to n.                                        *)
LEMMA NumbersTo ==
  ASSUME NEW n \in Nat
  PROVE  IsFiniteSet(1 .. n) /\ Cardinality(1 .. n) = n
BY FS_Interval

(* Children numbered 1 to n.                                               *)
Children(n) == {"fanout"} \X (1 .. n)

(* As many children as there are numbers for them.                         *)
LEMMA ChildrenCount ==
  ASSUME NEW n \in Nat
  PROVE  IsFiniteSet(Children(n)) /\ Cardinality(Children(n)) = n
<1>1. IsFiniteSet({"fanout"}) /\ Cardinality({"fanout"}) = 1
  BY FS_Singleton
<1>2. IsFiniteSet(1 .. n) /\ Cardinality(1 .. n) = n
  BY NumbersTo
<1>3. /\ IsFiniteSet(Children(n))
      /\ Cardinality(Children(n)) = Cardinality({"fanout"}) * Cardinality(1 .. n)
  BY <1>1, <1>2, FS_Product, Zenon DEF Children
<1>4. QED
  BY <1>1, <1>2, <1>3

(* The children are forked from the last to the first, and when the parent *)
(* returns 0 it has waited for as many as there are.                       *)
UnbornAre(n) == /\ Unborn = Children(n)
                /\ at[Main] \in {"fork", "failed"} <=> n # 0
                /\ at[Main] \in {"fork", "wait", "ended", "failed"}

FanInv ==
  /\ Main \in DOMAIN at /\ Forked \subseteq DOMAIN at
  /\ IF program = "fanout"
       THEN /\ \E n \in 0 .. NumChildren : UnbornAre(n)
            /\ DOMAIN fd = Forked /\ DOMAIN limit = Forked /\ waited \in Nat
            /\ at[Main] = "ended" => \A k \in Forked : at[k] \in Over
            /\ \A k \in Forked :
                 /\ at[k] \in {"unborn", "setup"} => limit[k] = Limit
                 /\ at[k] \in {"read", "ended"} =>
                      \/ fd[k] = "socket" \/ stdoutIsReadable
                      \/ at[k] = "read" /\ limit[k] = Limit
       ELSE at[Main] = "fork" /\ \A k \in Forked : at[k] = "unborn"

(* All children are unborn at the start.                                   *)
LEMMA FanInvInit == Init => FanInv
<1> SUFFICES ASSUME Init PROVE FanInv
  OBVIOUS
<1>1. ASSUME NEW p \in {Main} \union Forked
      PROVE  p \in DOMAIN at /\ at[p] = IF p = Main THEN "fork" ELSE "unborn"
  <2>1. p \in DOMAIN Start[4] /\ Start[4][p] = IF p = Main THEN "fork" ELSE "unborn"
    BY DEF Start, FanStart
  <2>2. QED
    BY <2>1, StartSteps
<1>2. Main \notin Forked
  BY FanoutAssumption DEF Main, Forked
<1>3. NumChildren \in 0 .. NumChildren /\ UnbornAre(NumChildren)
  BY <1>1, <1>2, FanoutAssumption DEF UnbornAre, Unborn, Children, Forked
<1>4. FanInit
  BY DEF Init
<1>5. QED
  BY <1>1, <1>2, <1>3, <1>4 DEF FanInv, FanInit

(* The next child is one of those that are still unborn.                   *)
LEMMA NextChild ==
  ASSUME FanInv, program = "fanout", ForkChild, NEW n \in 0 .. NumChildren, UnbornAre(n)
  PROVE  /\ Cardinality(Unborn) = n /\ n \in 1 .. NumChildren
         /\ <<"fanout", n>> \in Forked /\ <<"fanout", n>> # Main
         /\ at[<<"fanout", n>>] = "unborn"
<1>1. Cardinality(Unborn) = n /\ n # 0
  BY ChildrenCount, FanoutAssumption DEF UnbornAre, ForkChild
<1>2. QED
  BY <1>1, FanoutAssumption DEF UnbornAre, Children, Unborn, Forked, Main

(* Every fork takes the last of the unborn children, and every step of a   *)
(* child leaves the others alone.                                          *)
LEMMA FanInvStep ==
  ASSUME FanInv, [Next]_vars
  PROVE  FanInv'
<1>1. program' = program /\ DOMAIN at' = DOMAIN at /\ Main \notin Forked
  BY LookupSteps, SameProcesses, FanoutAssumption DEF Main, Forked
<1>2. CASE program = "fanout" /\ FanNext
  <2> USE DEF Step, Fails
  <2>1. PICK n \in 0 .. NumChildren : UnbornAre(n)
    BY <1>2 DEF FanInv
  <2>2. CASE ForkChild
    <3>1. Cardinality(Unborn) = n
      BY <1>2, <2>1, <2>2, NextChild
    <3>2. /\ <<"fanout", n>> \in Forked /\ <<"fanout", n>> # Main
          /\ n \in 1 .. NumChildren /\ at[<<"fanout", n>>] = "unborn"
      BY <1>2, <2>1, <2>2, NextChild
    <3>3. CASE at' = [at EXCEPT ![<<"fanout", n>>] = "setup",
                                ![Main] = IF n = 1 THEN "wait" ELSE "fork"]
      <4>1. n - 1 \in 0 .. NumChildren
        BY <3>2, FanoutAssumption
      <4>2. Unborn' = Children(n - 1)
        <5>1. Unborn' = Unborn \ {<<"fanout", n>>}
          BY <1>1, <3>2, <3>3 DEF Unborn, FanInv
        <5>2. Children(n - 1) = Children(n) \ {<<"fanout", n>>}
          BY <3>2, FanoutAssumption DEF Children
        <5>3. QED
          BY <2>1, <5>1, <5>2 DEF UnbornAre
      <4>3. at'[Main] = IF n = 1 THEN "wait" ELSE "fork"
        BY <3>2, <3>3 DEF FanInv
      <4>4. UnbornAre(n - 1)'
        BY <3>2, <4>2, <4>3 DEF UnbornAre
      <4>5. QED
        BY <1>1, <1>2, <2>2, <3>2, <3>3, <4>1, <4>3, <4>4 DEF FanInv, ForkChild, fanVars
    <3>4. CASE at' = [at EXCEPT ![Main] = "failed"]
      <4>1. UnbornAre(n)'
        BY <1>1, <2>1, <3>1, <3>2, <3>4 DEF UnbornAre, Unborn, FanInv
      <4>2. QED
        BY <1>1, <1>2, <2>2, <3>4, <4>1 DEF FanInv, ForkChild, fanVars
    <3>5. QED
      BY <2>2, <3>1, <3>3, <3>4 DEF ForkChild
  <2>3. CASE Wait
    <3>1. n = 0 /\ UnbornAre(0)'
      BY <1>1, <2>1, <2>3 DEF UnbornAre, Unborn, FanInv, Wait
    <3>2. WaitsDone(waited') => \A k \in Forked : at[k] \in Over
      <4>1. DEFINE Overs == { k \in Forked : at[k] \in Over }
      <4>2. IsFiniteSet(Forked) /\ Cardinality(Forked) = NumChildren
        BY ChildrenCount, FanoutAssumption DEF Forked, Children
      <4>3. /\ IsFiniteSet(Overs) /\ Cardinality(Overs) <= NumChildren
            /\ Cardinality(Overs) = NumChildren => Overs = Forked
        BY <4>2, FS_Subset
      <4>4. Cardinality(Overs) \in Nat
        BY <4>3, FS_CardinalityType
      <4>5. waited \in Nat /\ Cardinality(Overs) > waited /\ waited' = waited + 1
        BY <1>2, <2>3 DEF Wait, FanInv
      <4>6. QED
        BY <4>3, <4>4, <4>5, FanoutAssumption DEF WaitsDone
    <3>3. QED
      BY <1>1, <1>2, <2>3, <3>1, <3>2 DEF FanInv, Wait, Over
  <2>4. ASSUME NEW k \in Forked, setup_socket(k)
        PROVE  FanInv'
    <3>1. UnbornAre(n)'
      BY <1>1, <2>1, <2>4 DEF UnbornAre, Unborn, FanInv, setup_socket
    <3>2. QED
      BY <1>1, <1>2, <2>4, <3>1 DEF FanInv, setup_socket, Over
  <2>5. ASSUME NEW k \in Forked, ReadPacket(k)
        PROVE  FanInv'
    <3>1. UnbornAre(n)'
      BY <1>1, <2>1, <2>5 DEF UnbornAre, Unborn, FanInv, ReadPacket
    <3>2. QED
      BY <1>1, <1>2, <2>5, <3>1, FanoutAssumption DEF FanInv, ReadPacket, CanReadFrom, Over
  <2>6. QED
    BY <1>2, <2>2, <2>3, <2>4, <2>5 DEF FanNext
<1>3. CASE program = "fanout" /\ ~FanNext
  <2>1. UNCHANGED <<at, fanVars>>
    BY <1>3 DEF Next, RunLock, RunPipe, RunEcho, RunFanout, RunReuse, RunMap, RunVeth, RunIp,
                RunArray, RunSalary, vars
  <2>2. QED
    BY <1>1, <1>3, <2>1 DEF FanInv, UnbornAre, Unborn, fanVars
<1>4. CASE program # "fanout"
  <2>1. DOMAIN Start[4] = {Main} \union Forked /\ program \notin ProgramsOf[4]
    BY <1>4 DEF Start, FanStart, ProgramsOf
  <2>2. QED
    BY <1>1, <1>4, <2>1, OthersLeaveIt DEF FanInv
<1>5. QED
  BY <1>2, <1>3, <1>4

(* The unborn children are the first n of them, n is 0 once the parent     *)
(* waits, and a parent that returned has none left.                        *)
THEOREM FanInvariant == Spec => []FanInv
<1>1. FanInv /\ [Next]_vars => FanInv'
  BY FanInvStep
<1>2. QED
  BY <1>1, FanInvInit, PTL DEF Spec

(* Whichever calls fail, for any number of children and packets: a parent  *)
(* that returns 0 leaves no child behind, one that failed has left some    *)
(* unborn, and a child that reports its packets had something to read them *)
(* from (packet_mmap.c:37, 46, 55, 62, 73, 80-89, 117-136).                *)
THEOREM NoChildIsForgotten == Spec => []ChildrenAreAccounted
<1>1. FanInv => ChildrenAreAccounted
  <2> SUFFICES ASSUME FanInv, NEW k \in Forked
               PROVE  /\ at[Main] \in Over /\ at[k] \notin Over =>
                            at[Main] = "failed" /\ Unborn # {}
                      /\ at[k] = "ended" => fd[k] = "socket" \/ stdoutIsReadable
    BY DEF ChildrenAreAccounted
  <2>1. CASE program = "fanout"
    <3>1. PICK n \in 0 .. NumChildren : UnbornAre(n)
      BY <2>1 DEF FanInv
    <3>2. at[Main] = "failed" => Unborn # {}
      <4>1. ASSUME at[Main] = "failed"
            PROVE  <<"fanout", 1>> \in Unborn
        BY <3>1, <4>1, FanoutAssumption DEF UnbornAre, Children
      <4>2. QED
        BY <4>1
    <3>3. QED
      BY <2>1, <3>1, <3>2 DEF FanInv, UnbornAre, Over
  <2>2. CASE program # "fanout"
    BY <2>2 DEF FanInv, Over
  <2>3. QED
    BY <2>1, <2>2
<1>2. QED
  BY <1>1, FanInvariant, PTL
-----------------------------------------------------------------------------
(* A program's processes are left alone by all others.                     *)
LEMMA OthersLeaveAll ==
  ASSUME FanInv, [Next]_vars, NEW i \in 1 .. 7, program \notin ProgramsOf[i],
         NEW p \in DOMAIN Start[i], p \in DOMAIN at
  PROVE  at'[p] = at[p]
<1>1. ASSUME program = "fanout", ForkChild
      PROVE  <<"fanout", Cardinality(Unborn)>> \in Forked
  <2>1. PICK n \in 0 .. NumChildren : UnbornAre(n)
    BY <1>1 DEF FanInv
  <2>2. QED
    BY <1>1, <2>1, NextChild
<1>2. QED
  BY <1>1, OthersLeaveIt
-----------------------------------------------------------------------------
(* A server has read the line of the client it serves, or the client has   *)
(* gone.                                                                   *)
HasRead(s) == (buf[s] = partner[s] /\ partner[s] \in wrote) \/ at[partner[s]] \in Over

(* The server still has its client to serve.                               *)
Serving(s) == at[s] \in {"listen", "accept", "read", "write"}

(* The name of a server was removed by another server, or by a client that *)
(* had nothing of this one's to wait for.                                  *)
RemovedByOther(s) ==
  \/ unlinked[s] \in EchoServer \ {s}
  \/ \E c \in EchoClient : unlinked[s] = c /\ at[c] = "ended" /\ (conn[c] # s \/ c \notin wrote)

(* A client is sent its echo by the server it is connected to, which then  *)
(* has it no longer to serve, and goes on to remove the name, if it has    *)
(* sent a line, when it has the echo.                                      *)
EchoRuns ==
  /\ DOMAIN reply = EchoClient /\ DOMAIN buf = EchoServer /\ DOMAIN partner = EchoServer
  /\ DOMAIN conn = EchoClient /\ DOMAIN unlinked = EchoServer
  /\ \A c \in EchoClient :
       /\ at[c] = "connect" => conn[c] = NONE
       /\ at[c] \in {"connect", "write"} => c \notin wrote
       /\ at[c] = "unlink" /\ c \in wrote => reply[c] # NONE
       /\ reply[c] # NONE => \A s \in EchoServer : conn[c] = s => ~Serving(s) /\ at[s] # "bind"
  /\ \A s \in EchoServer :
       /\ at[s] \in {"read", "write"} => partner[s] \in EchoClient /\ conn[partner[s]] = s
       /\ at[s] = "write" => HasRead(s)
       /\ name = s => at[s] \notin {"bind", "ended"}
       /\ Serving(s) => name = s \/ RemovedByOther(s)
  /\ EchoIsOwnLine

EchoInv ==
  /\ EchoServer \union EchoClient \subseteq DOMAIN at
  /\ IF program = "echo"
       THEN EchoRuns
       ELSE /\ name = NONE
            /\ \A c \in EchoClient : reply[c] = NONE
            /\ \A s \in EchoServer : at[s] = "bind"

(* No server has begun, and no client is connected.                        *)
LEMMA EchoInvInit == Init => EchoInv
<1> SUFFICES ASSUME Init PROVE EchoInv
  OBVIOUS
<1>1. ASSUME NEW p \in EchoServer \union EchoClient
      PROVE  p \in DOMAIN at /\ (p \in EchoServer => at[p] = "bind")
  <2>1. p \in DOMAIN Start[3] /\ (p \in EchoServer => Start[3][p] = "bind")
    BY DEF Start, EchoStart
  <2>2. QED
    BY <2>1, StartSteps
<1>2. EchoInit
  BY DEF Init
<1>3. NONE \notin EchoServer
  BY ProgramsAssumption
<1>4. QED
  BY <1>1, <1>2, <1>3 DEF EchoInv, EchoInit, EchoRuns, EchoIsOwnLine, Serving

(* Every step of a server or a client keeps what a server is about to      *)
(* write, and whose the name is.                                           *)
LEMMA EchoRunsStep ==
  ASSUME EchoInv, program = "echo", EchoNext
  PROVE  EchoRuns'
<1> USE DEF Step, Fails, Over
<1>1. /\ EchoRuns /\ EchoServer \intersect EchoClient = {} /\ NONE \notin EchoServer \union EchoClient
      /\ EchoServer \subseteq DOMAIN at /\ EchoClient \subseteq DOMAIN at
  BY ProgramsAssumption DEF EchoInv
<1> USE <1>1 DEF EchoRuns, HasRead, EchoIsOwnLine, RemovedByOther, Serving
<1>2. ASSUME NEW s \in EchoServer, Bind(s)
      PROVE  EchoRuns'
  BY <1>2 DEF Bind, NameIsFree
<1>3. ASSUME NEW s \in EchoServer, Listen(s)
      PROVE  EchoRuns'
  BY <1>3 DEF Listen, echoVars
<1>4. ASSUME NEW s \in EchoServer, Accept(s)
      PROVE  EchoRuns'
  BY <1>4 DEF Accept
<1>5. ASSUME NEW s \in EchoServer, Read(s)
      PROVE  EchoRuns'
  <2>1. PICK line : /\ buf' = [buf EXCEPT ![s] = line]
                    /\ partner[s] \in wrote => line = partner[s]
    BY <1>5, Zenon DEF Read
  <2>2. /\ at[s] = "read" /\ at' = [at EXCEPT ![s] = "write"] /\ CanRead(s)
        /\ UNCHANGED <<name, conn, partner, wrote, reply, unlinked>>
    BY <1>5, Zenon DEF Read
  <2>3. QED
    BY <2>1, <2>2 DEF CanRead
<1>6. ASSUME NEW s \in EchoServer, Write(s)
      PROVE  EchoRuns'
  BY <1>6 DEF Write
<1>7. ASSUME NEW p \in EchoServer \union EchoClient, Unlink(p)
      PROVE  EchoRuns'
  BY <1>7 DEF Unlink, NameAfter
<1>8. ASSUME NEW c \in EchoClient, Connect(c)
      PROVE  EchoRuns'
  BY <1>8 DEF Connect, CanConnect, Listening
<1>9. ASSUME NEW c \in EchoClient, SendLine(c)
      PROVE  EchoRuns'
  BY <1>9 DEF SendLine
<1>10. ASSUME NEW c \in EchoClient, ReadEcho(c)
       PROVE  EchoRuns'
  BY <1>10 DEF ReadEcho, echoVars
<1>11. QED
  BY <1>2, <1>3, <1>4, <1>5, <1>6, <1>7, <1>8, <1>9, <1>10 DEF EchoNext, UnixServer, UnixClient

(* So does every step of another program, which has nothing to do with     *)
(* them.                                                                   *)
LEMMA EchoInvStep ==
  ASSUME FanInv, EchoInv, [Next]_vars
  PROVE  EchoInv'
<1>1. program' = program /\ DOMAIN at' = DOMAIN at
  BY LookupSteps, SameProcesses
<1>2. CASE program = "echo" /\ EchoNext
  BY <1>1, <1>2, EchoRunsStep DEF EchoInv
<1>3. CASE program = "echo" /\ ~EchoNext
  <2>1. UNCHANGED <<at, echoVars>>
    BY <1>3 DEF Next, RunLock, RunPipe, RunEcho, RunFanout, RunReuse, RunMap, RunVeth, RunIp,
                RunArray, RunSalary, vars
  <2>2. QED
    BY <1>1, <1>3, <2>1 DEF EchoInv, EchoRuns, HasRead, RemovedByOther, Serving, EchoIsOwnLine, echoVars
<1>4. CASE program # "echo"
  <2>1. UNCHANGED echoVars
    BY <1>4 DEF Next, RunLock, RunPipe, RunEcho, RunFanout, RunReuse, RunMap, RunVeth, RunIp,
                RunArray, RunSalary, vars
  <2>2. ASSUME NEW s \in EchoServer
        PROVE  at'[s] = "bind"
    <3>1. DOMAIN Start[3] = EchoServer \union EchoClient /\ program \notin ProgramsOf[3]
      BY <1>4 DEF Start, EchoStart, ProgramsOf
    <3>2. s \in DOMAIN Start[3] /\ s \in DOMAIN at /\ at[s] = "bind"
      BY <1>4, <3>1 DEF EchoInv
    <3>3. QED
      BY <3>1, <3>2, OthersLeaveAll
  <2>3. QED
    BY <1>1, <1>4, <2>1, <2>2 DEF EchoInv, echoVars
<1>5. QED
  BY <1>2, <1>3, <1>4

(* Servers write what the client they serve has typed, and keep their name *)
(* until they are served or a run of another server removes it.            *)
THEOREM EchoInvariant == Spec => []EchoInv
<1>1. FanInv /\ EchoInv /\ [Next]_vars => EchoInv'
  BY EchoInvStep
<1>2. QED
  BY <1>1, EchoInvInit, FanInvariant, PTL DEF Spec

(* Whatever other servers and clients there are and whoever fails, a       *)
(* client is sent its own line (unixServer.cpp:45-54,                      *)
(* unixClient.cpp:39-48).                                                  *)
THEOREM EchoesAreOwnLines == Spec => []EchoIsOwnLine
<1>1. EchoInv => EchoIsOwnLine
  BY DEF EchoInv, EchoRuns, EchoIsOwnLine
<1>2. QED
  BY <1>1, EchoInvariant, PTL

(* A server that returned leaves no name, and who takes the name from one  *)
(* that has its client to serve is another server, or a client that had    *)
(* nothing of it to wait for (unixServer.cpp:32-59, unixClient.cpp:34-54). *)
THEOREM NamesAreRight == Spec => []NameIsRight
<1>1. EchoInv => NameIsRight
  BY ProgramsAssumption DEF EchoInv, EchoRuns, NameIsRight, RemovedByOther, Serving
<1>2. QED
  BY <1>1, EchoInvariant, PTL
=============================================================================
