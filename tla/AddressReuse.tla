----------------------------- MODULE AddressReuse -----------------------------
(***************************************************************************)
(* networks/reuse_addr_option.c: functions that bind two sockets to one    *)
(* port and print what they take this to show. main calls two of the six,  *)
(* one after the other; here it may call any two. Every call can fail, and *)
(* only test_tcp_udp_same_ports looks at the result of socket().           *)
(***************************************************************************)
EXTENDS Naturals, Sequences, Processes

VARIABLES addr,             \* the address given on the command line
          todo,             \* the functions main has still to call, or to end
          sockets,          \* the open sockets, n telling which of its function's
                            \*   two one is, 0 once the function has returned
          trouble           \* history: a call of the function failed for another
                            \*   reason than another socket of the program

reuseVars == <<addr, todo, sockets, trouble>>

(* Of the six functions: the protocols, addresses and devices of their two *)
(* sockets, whether these have SO_REUSEADDR, and whether a failure of      *)
(* socket() is looked at.                                                  *)
Udp(addresses, devices, reuses) ==
  [proto |-> <<"udp", "udp">>, addr |-> addresses, dev |-> devices, reuse |-> reuses,
   checks |-> FALSE]

test_tcp_udp_same_ports ==
  [Udp(<<addr, addr>>, <<"all", "all">>, FALSE) EXCEPT !.proto[1] = "tcp", !.checks = TRUE]
test_udp_any_addr_same_port_diff_ifs == Udp(<<"any", "any">>, <<"ens33", "ens34">>, FALSE)
test_udp_diff_addr_same_port == Udp(<<addr, "loopback">>, <<"all", "all">>, FALSE)
test_udp_any_addr_same_port == Udp(<<"any", "any">>, <<"all", "all">>, TRUE)
test_udp_local_and_any_addr_same_port == Udp(<<addr, addr>>, <<"all", "all">>, TRUE)
test_udp_local_addr_same_port == Udp(<<addr, addr>>, <<"all", "all">>, TRUE)

Function == [ tcp_udp |-> test_tcp_udp_same_ports,
              any_diff_ifs |-> test_udp_any_addr_same_port_diff_ifs,
              diff_addr |-> test_udp_diff_addr_same_port,
              any |-> test_udp_any_addr_same_port,
              local_and_any |-> test_udp_local_and_any_addr_same_port,
              local |-> test_udp_local_addr_same_port ]

TestNames == {"tcp_udp", "any_diff_ifs", "diff_addr", "any", "local_and_any", "local"}

Experiment == <<"reuse", 0>>
ReuseStart == [ p \in {Experiment} |-> "socket1" ]
ReuseInit == /\ addr \in {"loopback", "any", "host"}
             /\ todo \in TestNames \X TestNames
             /\ sockets = {}
             /\ trouble = FALSE

Test == Function[Head(todo)]
Own(n) == { s \in sockets : s.n = n }
-----------------------------------------------------------------------------
(* The kernel's rule: sockets of one protocol and port conflict when their *)
(* addresses overlap, unless both may reuse them or they are bound to      *)
(* different devices.                                                      *)
Conflict(s, t) == /\ s.proto = t.proto
                  /\ s.addr = t.addr \/ "any" \in {s.addr, t.addr}
                  /\ ~(s.reuse /\ t.reuse)
                  /\ s.dev = t.dev \/ "all" \in {s.dev, t.dev}

IsInUse(s) == \E t \in sockets : t.bound /\ Conflict(s, t)

(* Mutant: the second socket is not closed.                                *)
KeepsSecond(s) == s.n = 2

(* Sockets a function leaves open when it returns at its end.              *)
Keeps(s) == s.n = 0

(* The function returns, and the next one is called.                       *)
Return(from, kept) ==
  /\ Step(Experiment, from, IF Len(todo) = 1 THEN "ended" ELSE "socket1")
  /\ sockets' = { [s EXCEPT !.n = 0] : s \in kept }
  /\ todo' = Tail(todo)
  /\ trouble' = FALSE
  /\ UNCHANGED addr

(* The n-th socket() and, which may fail, the socket's options.            *)
OpenSocket(n, from, to) ==
  /\ at[Experiment] = from
  /\ \/ /\ Step(Experiment, from, to)
        /\ \E optionsSet \in {TRUE, ~faulty} :
             /\ sockets' = sockets \union
                  {[ n |-> n, proto |-> Test.proto[n], addr |-> Test.addr[n], bound |-> FALSE,
                     dev |-> IF optionsSet THEN Test.dev[n] ELSE "all",
                     reuse |-> optionsSet /\ Test.reuse ]}
             /\ trouble' = (trouble \/ ~optionsSet)
        /\ UNCHANGED <<addr, todo>>
     \/ /\ faulty
        /\ IF Test.checks
             THEN Return(from, sockets)
             ELSE /\ Step(Experiment, from, to)
                  /\ trouble' = TRUE
                  /\ UNCHANGED <<addr, todo, sockets>>

(* The n-th bind, whose failure is reported, no more.                      *)
BindSocket(n, from, to) ==
  /\ Step(Experiment, from, to)
  /\ \/ \E s \in Own(n) : /\ ~IsInUse(s)
                          /\ sockets' = (sockets \ {s}) \union {[s EXCEPT !.bound = TRUE]}
                          /\ UNCHANGED trouble
     \/ /\ UNCHANGED sockets
        /\ faulty \/ \E s \in Own(n) : IsInUse(s)
        /\ trouble' = (trouble \/ \A s \in Own(n) : ~IsInUse(s))
  /\ UNCHANGED <<addr, todo>>

(* Both sockets are closed, and the function says that both were bound.    *)
CloseSockets == Return("close", { s \in sockets : Keeps(s) })

ReuseNext == \/ OpenSocket(1, "socket1", "socket2")
             \/ OpenSocket(2, "socket2", "bind1")
             \/ BindSocket(1, "bind1", "bind2")
             \/ BindSocket(2, "bind2", "close")
             \/ CloseSockets
-----------------------------------------------------------------------------
(* Types of the sockets and of what is left to do.                         *)
ReuseTypeOK == /\ addr \in {"loopback", "any", "host"}
               /\ \A k \in DOMAIN todo : todo[k] \in TestNames
               /\ trouble \in BOOLEAN
               /\ sockets \subseteq
                    [n : 0 .. 2, proto : {"tcp", "udp"}, addr : {"loopback", "any", "host"},
                     dev : {"all", "ens33", "ens34"}, reuse : BOOLEAN, bound : BOOLEAN]
               /\ at[Experiment] \in {"socket1", "socket2", "bind1", "bind2", "close",
                                      "ended"}

(* When no call of a function failed but for a socket of the program, both *)
(* its sockets are bound when it says so, whatever was called before it,   *)
(* failed and left open, but for                                           *)
(* test_udp_diff_addr_same_port with the loopback or any address           *)
(* (reuse_addr_option.c:39-42, 62-70, 184-187, 210-214).                   *)
MessageIsTrue ==
  at[Experiment] = "close" /\ ~trouble =>
    \/ \A n \in 1 .. 2 : \E s \in Own(n) : s.bound
    \/ Head(todo) = "diff_addr" /\ addr # "host"
=============================================================================
