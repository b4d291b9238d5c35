------------------------------ MODULE MCPrograms ------------------------------
(* Two runs of each program that meet, and a container whose own eth0 has  *)
(* by chance the number of another of the host's interfaces.               *)
EXTENDS Programs

MCHostIf == [ lo |-> 1, vethA |-> 7, vethB |-> 9 ]
MCContainerIf == [ lo |-> 1, eth0 |-> 7 ]
=============================================================================
