----------------------------- MODULE TimerService -----------------------------
(***************************************************************************)
(* What the timers of ttimer/tdengine_old.c promise to a caller, with no   *)
(* slots, cycles or memory pool: a request names the period in which its   *)
(* callback is to run, it runs in that period and in no other, and the     *)
(* clock does not leave a period while a request of that period waits.     *)
(***************************************************************************)
EXTENDS Integers

CONSTANTS Handle,         \* the handles callers keep their timers in
          Period,         \* the delays a caller may ask for, in periods
          None            \* a handle has no request outstanding

VARIABLES elapsed,        \* the periods that have been processed
          request         \* the period in which the callback is to run

serviceVars == <<elapsed, request>>

Init == /\ elapsed = 0
        /\ request = [h \in Handle |-> None]

(* A caller asks for its callback p periods from now; an earlier request   *)
(* of the same handle is replaced.                                         *)
Reset(h, p) == /\ request' = [request EXCEPT ![h] = elapsed + p]
               /\ UNCHANGED elapsed

(* The callback runs, in the period it was asked for.                      *)
Expire(h) == /\ request[h] = elapsed
             /\ request' = [request EXCEPT ![h] = None]
             /\ UNCHANGED elapsed

(* The period ends: nothing that was asked for in it is left.              *)
Advance == /\ \A h \in Handle : request[h] # elapsed
           /\ elapsed' = elapsed + 1
           /\ UNCHANGED request

Next == \/ \E h \in Handle, p \in Period : Reset(h, p)
        \/ \E h \in Handle : Expire(h)
        \/ Advance

Spec == Init /\ [][Next]_serviceVars
=============================================================================
