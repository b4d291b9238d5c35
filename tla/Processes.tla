------------------------------- MODULE Processes -------------------------------
(* What the models of the small programs share: processes, each at a step  *)
(* of its main function.                                                   *)
VARIABLES at,               \* the processes of the program: where each one is
          faulty            \* system calls can fail for reasons that are none of
                            \*   the program's

(* The process p goes from one step to another.                            *)
Step(p, from, to) == /\ at[p] = from
                     /\ at' = [at EXCEPT ![p] = to]

(* A system call fails and ends the process.                               *)
Fails(p, from) == faulty /\ Step(p, from, "failed")

(* Steps no process leaves: main returned, with or without an error, or a  *)
(* signal ended it.                                                        *)
Over == {"ended", "failed", "killed"}
=============================================================================
