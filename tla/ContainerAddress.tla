--------------------------- MODULE ContainerAddress ---------------------------
(***************************************************************************)
(* obtain_container_ip/obtain_container_ip.cpp: the address of a           *)
(* container's eth0. obtain_container_ip runs up to three commands in the  *)
(* container's network namespace and stops at the first that prints a      *)
(* valid address; main prints and frees what it returns.                   *)
(***************************************************************************)
EXTENDS Namespaces

VARIABLES says,             \* what each of the commands prints
          tried,            \* i: commands run
          buffer,           \* what is in the buffer
          address           \* what the last call returned

ipVars == <<says, tried, buffer, address>>

Command == 1 .. 3

(* A command prints nothing, or cannot be run, or prints a line; what two  *)
(* commands print can be two addresses.                                    *)
Output == {"", "loopback", "no address", "address1", "address2"}

IpInit == /\ says \in [Command -> Output]
          /\ tried = 0
          /\ buffer = "" /\ address = "NULL"

CallIp == /\ Call("enter")
          /\ tried' = 0
          /\ UNCHANGED <<says, buffer, address>>

(* enter_netns; when it fails the call returns NULL.                       *)
EnterForIp == /\ Enter("net", "enter", "command", "idle")
              /\ address' = IF at'[Lookup] = "idle" THEN "NULL" ELSE address
              /\ UNCHANGED <<says, tried, buffer>>

is_valid_ip(ip) == ip \in {"address1", "address2"}

(* Mutant: the loop does not break at an address.                          *)
RunEveryCommand ==
  /\ tried < 3
  /\ tried' = tried + 1
  /\ buffer' = says[tried']
  /\ Stay("command", IF tried' = 3 THEN "restore" ELSE "command")
  /\ UNCHANGED <<says, address>>

(* One round of the loop: the buffer, cleared, takes the command's output. *)
RunCommand ==
  /\ tried < 3
  /\ tried' = tried + 1
  /\ buffer' = says[tried']
  /\ Stay("command", IF is_valid_ip(buffer') \/ tried' = 3 THEN "restore" ELSE "command")
  /\ UNCHANGED <<says, address>>

RestoreAfterIp == Restore("net", "restore", "return") /\ UNCHANGED ipVars

(* A buffer with something in it is returned.                              *)
ReturnBuffer == /\ Stay("return", "idle")
                /\ address' = IF buffer = "" THEN "NULL" ELSE buffer
                /\ UNCHANGED <<says, tried, buffer>>

obtain_container_ip ==
  CallIp \/ EnterForIp \/ RunCommand \/ RestoreAfterIp \/ ReturnBuffer
-----------------------------------------------------------------------------
(* Types of the outputs, the buffer and the answer.                        *)
IpTypeOK == /\ says \in [Command -> Output]
            /\ tried \in 0 .. 3
            /\ buffer \in Output
            /\ address \in {"NULL"} \union (Output \ {""})

(* The command whose output a call returns: the first that prints a valid  *)
(* address, or the last if none does.                                      *)
Returned == CHOOSE c \in Command :
              /\ is_valid_ip(says[c]) \/ c = 3
              /\ \A d \in 1 .. c - 1 : ~is_valid_ip(says[d])

(* A call that returns something returns the first address that any of the *)
(* commands prints; a line that is no address is returned when it is the   *)
(* last command's and no command prints an address, and never a line of an *)
(* earlier command (obtain_container_ip.cpp:81-117, 122-125).              *)
FirstAddressWins ==
  at[Lookup] = "idle" /\ address # "NULL" => address = says[Returned]
=============================================================================
