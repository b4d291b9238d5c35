------------------------------ MODULE Namespaces ------------------------------
(***************************************************************************)
(* What obtain_container_ip.cpp and obtain_container_veth.cpp share: one   *)
(* process that enters a namespace of the container, network or mount, and *)
(* goes back to the one it came from. Any system call can fail.            *)
(***************************************************************************)
EXTENDS Integers, Processes

CONSTANTS MaxCalls          \* bound: calls of the program's function

ASSUME NamespacesAssumption == MaxCalls \in Nat

VARIABLES ns,               \* the process's namespaces of either kind
          saved,            \* cur_fd: the namespace it leads back to, or "none"
          open,             \* the number of open descriptors
          calls,
          stuck             \* history: the kinds whose setns back has failed

nsVars == <<ns, saved, open, calls, stuck>>

Kind == {"net", "mnt"}
Lookup == <<"lookup", 0>>

LookupStart == [ p \in {Lookup} |-> "idle" ]
NsInit == /\ ns = [k \in Kind |-> "host"]
          /\ saved = "none"
          /\ open = 0
          /\ calls = 0
          /\ stuck = {}

Call(to) == /\ calls < MaxCalls
            /\ Step(Lookup, "idle", to)
            /\ calls' = calls + 1
            /\ UNCHANGED <<ns, saved, open, stuck>>

(* A step of the function that leaves the namespaces alone.                *)
Stay(from, to) == Step(Lookup, from, to) /\ UNCHANGED nsVars

(* Mutant: cur_fd is opened after the setns.                               *)
PresentAfter(k) == "container"

(* The namespace cur_fd is opened in.                                      *)
Present(k) == ns[k]

(* Mutant: the descriptor of the container's namespace stays open.         *)
LeftOpenTwo == 2

(* The descriptors an enter leaves open: cur_fd.                           *)
LeftOpen == 1

(* Enter: open both namespaces, setns and close the container's, or one of *)
(* the calls fails and what was opened is closed.                          *)
Enter(k, from, to, otherwise) ==
  \/ /\ Step(Lookup, from, to)
     /\ saved' = Present(k)
     /\ ns' = [ns EXCEPT ![k] = "container"]
     /\ open' = open + LeftOpen
     /\ UNCHANGED <<calls, stuck>>
  \/ Stay(from, otherwise)

(* Restore: setns, whose failure is ignored, and close.                    *)
Restore(k, from, to) ==
  /\ Step(Lookup, from, to)
  /\ \/ ns' = [ns EXCEPT ![k] = saved] /\ UNCHANGED stuck
     \/ stuck' = stuck \union {k} /\ UNCHANGED ns
  /\ saved' = "none"
  /\ open' = open - 1
  /\ UNCHANGED calls
-----------------------------------------------------------------------------
(* Types of the process's namespaces and descriptors.                      *)
NsTypeOK == /\ ns \in [Kind -> {"host", "container"}]
            /\ saved \in {"none", "host", "container"}
            /\ open \in 0 .. MaxCalls + 1
            /\ calls \in 0 .. MaxCalls
            /\ stuck \subseteq Kind

(* Between calls the process is in the host's namespace of the kind,       *)
(* unless the kernel refused to let it back.                               *)
IsRestored(k) == at[Lookup] = "idle" /\ ns[k] # "host" => k \in stuck

(* The calls of both programs leave the process in the host's network      *)
(* namespace, whichever step of them fails                                 *)
(* (obtain_container_veth.cpp:147-194, obtain_container_ip.cpp:67-120).    *)
NetnsIsRestored == IsRestored("net")
=============================================================================
