------------------------------ MODULE VethLookup ------------------------------
(***************************************************************************)
(* obtain_container_ip/obtain_container_veth.cpp: the name of the host     *)
(* interface that a container's eth0 is paired with. obtain_container_veth *)
(* asks `ip link' in the container's network namespace for the number of   *)
(* the pair; failing that it reads it from /sys in the container's mount   *)
(* namespace; then it looks for that number in the host's /sys.            *)
(*                                                                         *)
(* What is under /sys goes with the mount namespace.                       *)
(***************************************************************************)
EXTENDS Namespaces

CONSTANTS Peer,             \* the ifindex of the host's end of the pair
          HostIf,           \* the host's interfaces: name |-> ifindex
          ContainerIf       \* the container's

ASSUME VethLookupAssumption ==
  /\ Peer \in Nat \ {0}
  /\ \A n \in DOMAIN HostIf : HostIf[n] \in Nat \ {0}
  /\ {"NULL", ""} \intersect (DOMAIN HostIf \union DOMAIN ContainerIf) = {}

VARIABLES iflink,           \* the number found, -1 when there is none
          answer,           \* what the last call returned
          unreadable        \* history: times the container's iflink was not read

vethVars == <<iflink, answer, unreadable>>

(* A call returns NULL, the empty name, or the name of an interface.       *)
IfName == DOMAIN HostIf \union DOMAIN ContainerIf
Answer == {"NULL", ""} \union IfName

VethInit == iflink = -1 /\ answer = "NULL" /\ unreadable = 0

CallVeth == Call("enterNet") /\ iflink' = -1 /\ UNCHANGED <<answer, unreadable>>

(* enter_netns, or there is no netns to enter.                             *)
enter_netns == Enter("net", "enterNet", "ask", "enterMnt") /\ UNCHANGED vethVars

(* `ip link show eth0' fails or says nothing, names no pair (for which     *)
(* deal_eth0_ifindex makes 0 of no digits), or names the pair.             *)
AskIpLink == /\ Stay("ask", "restoreNet")
             /\ iflink' \in {-1, 0, Peer}
             /\ UNCHANGED <<answer, unreadable>>

restore_netns ==
  /\ Restore("net", "restoreNet", IF iflink = -1 THEN "enterMnt" ELSE "scan")
  /\ UNCHANGED vethVars

(* enter_mntns; when it fails the call returns NULL.                       *)
enter_mntns == /\ Enter("mnt", "enterMnt", "readIflink", "idle")
               /\ answer' = IF at'[Lookup] = "idle" THEN "NULL" ELSE answer
               /\ UNCHANGED <<iflink, unreadable>>

(* eth0's iflink is read, or is not a number above 0 and the call returns. *)
ReadIflink == \/ /\ Stay("readIflink", "restoreMnt")
                 /\ iflink' = Peer
                 /\ UNCHANGED <<answer, unreadable>>
              \/ /\ Stay("readIflink", "idle")
                 /\ iflink' \in {-1, 0}
                 /\ answer' = "NULL"
                 /\ unreadable' = unreadable + 1

restore_mntns == Restore("mnt", "restoreMnt", "scan") /\ UNCHANGED vethVars

(* The interfaces the process sees under /sys/class/net.                   *)
Visible == IF ns["mnt"] = "host" THEN HostIf ELSE ContainerIf

(* Mutant: the first interface with a number as high is taken.             *)
MatchesAny(n) == Visible[n] >= iflink

(* The interface's number is the one looked for.                           *)
Matches(n) == Visible[n] = iflink

(* The search of /sys/class/net: it cannot be opened, or the first name    *)
(* whose number can be read and is the right one is the answer, or none.   *)
FindIfindex == /\ Stay("scan", "idle")
               /\ answer' \in {"NULL", ""} \union { n \in DOMAIN Visible : Matches(n) }
               /\ UNCHANGED <<iflink, unreadable>>

obtain_container_veth ==
  \/ CallVeth \/ enter_netns \/ AskIpLink \/ restore_netns
  \/ enter_mntns \/ ReadIflink \/ restore_mntns \/ FindIfindex
-----------------------------------------------------------------------------
(* Types of the lookup's numbers and names.                                *)
VethTypeOK == /\ iflink \in {-1, 0, Peer}
              /\ answer \in Answer
              /\ unreadable \in 0 .. MaxCalls

(* A call leaves the process in the host's mount namespace, whichever step *)
(* of it fails (obtain_container_veth.cpp:215-230).                        *)
MntnsIsRestored == IsRestored("mnt")

(* Calls, of obtain_container_ip as well, leave no descriptor open but     *)
(* those of the early return after enter_mntns, one each, whichever system *)
(* call failed and where (obtain_container_veth.cpp:21-36, 55-70, 215-230, *)
(* obtain_container_ip.cpp:21-36, 120).                                    *)
DescriptorsAccounted == at[Lookup] = "idle" => open = unreadable

(* A process that has stayed at home does not give the name of an          *)
(* interface that is not the container's pair: neither what it found       *)
(* before nor a failed step of the call makes up a number                  *)
(* (obtain_container_veth.cpp:134, 211-232, 252).                          *)
AnswerIsPeer ==
  answer \in IfName /\ ns["mnt"] = "host" =>
    answer \in DOMAIN HostIf /\ HostIf[answer] = Peer
=============================================================================
