------------------------------- MODULE UnixEcho -------------------------------
(***************************************************************************)
(* unix_client_server/unixServer.cpp and unixClient.cpp: a server that     *)
(* takes one connection on the socket UNIX_SOCKET_PATH, echoes what it     *)
(* reads and removes the socket's name; clients that send a line, read the *)
(* echo and remove the name as well. Any number of runs of either, in any  *)
(* order; every call can fail. The name stays when a server ends without   *)
(* having removed it; what is bound to it then refuses connections.        *)
(***************************************************************************)
EXTENDS Processes

CONSTANTS EchoServer, EchoClient,   \* the runs of either program
          NONE

VARIABLES name,             \* the server whose socket has the name, or NONE
          conn,             \* the server each client is connected to, or NONE
          partner,          \* the client whose connection a server accepted, or NONE
          wrote,            \* the clients that have sent their line
          buf,              \* what a server has read: whose line, or "" for nothing
          reply,            \* what a client was sent, or NONE
          unlinked          \* history: the run that removed a server's name, or NONE

echoVars == <<name, conn, partner, wrote, buf, reply, unlinked>>

EchoStart == [ p \in EchoServer \union EchoClient |->
                 IF p \in EchoServer THEN "bind" ELSE "connect" ]
EchoInit == /\ name = NONE
            /\ conn = [c \in EchoClient |-> NONE]
            /\ partner = [s \in EchoServer |-> NONE]
            /\ wrote = {}
            /\ buf = [s \in EchoServer |-> ""]
            /\ reply = [c \in EchoClient |-> NONE]
            /\ unlinked = [s \in EchoServer |-> NONE]

(* Connections to a server can be made, and last, while it is listening.   *)
Listening(s) == at[s] \in {"accept", "read", "write", "unlink"}
-----------------------------------------------------------------------------
(* bind fails when the name exists, whoever left it.                       *)
NameIsFree(s) == name = NONE

(* The server's socket and bind, and its listen, which leaves the name     *)
(* when it fails, as accept does.                                          *)
Bind(s) == /\ \/ NameIsFree(s) /\ Step(s, "bind", "listen") /\ name' = s
              \/ /\ Fails(s, "bind") \/ (~NameIsFree(s) /\ Step(s, "bind", "failed"))
                 /\ UNCHANGED name
           /\ UNCHANGED <<conn, partner, wrote, buf, reply, unlinked>>

Listen(s) == /\ Step(s, "listen", "accept") \/ Fails(s, "listen")
             /\ UNCHANGED echoVars

Accept(s) == /\ \/ \E c \in EchoClient : /\ conn[c] = s
                                        /\ Step(s, "accept", "read")
                                        /\ partner' = [partner EXCEPT ![s] = c]
                \/ Fails(s, "accept") /\ UNCHANGED partner
             /\ UNCHANGED <<name, conn, wrote, buf, reply, unlinked>>

(* Mutant: the server does not wait for the line.                          *)
ReadsAtOnce(s) == TRUE

(* The server's read waits for the line, or finds the client gone.         *)
CanRead(s) == partner[s] \in wrote \/ at[partner[s]] \in Over

Read(s) == /\ at[s] = "read" /\ CanRead(s)
           /\ Step(s, "read", "write")
           /\ buf' = [buf EXCEPT ![s] = IF partner[s] \in wrote THEN partner[s] ELSE ""]
           /\ UNCHANGED <<name, conn, partner, wrote, reply, unlinked>>

(* The server's write; when the client is gone it ends the server          *)
(* (SIGPIPE), and the name stays.                                          *)
Write(s) == /\ at[s] = "write"
            /\ IF at[partner[s]] \in Over
                 THEN Step(s, "write", "killed") /\ UNCHANGED reply
                 ELSE /\ Step(s, "write", "unlink")
                      /\ reply' = [reply EXCEPT ![partner[s]] = buf[s]]
            /\ UNCHANGED <<name, conn, partner, wrote, buf, unlinked>>

(* unlink removes the name, whosever it is.                                *)
NameAfter(p) == NONE

Unlink(p) == /\ Step(p, "unlink", "ended")
             /\ name' = NameAfter(p)
             /\ unlinked' = [s \in EchoServer |-> IF s = name THEN p ELSE unlinked[s]]
             /\ UNCHANGED <<conn, partner, wrote, buf, reply>>

CanConnect == name # NONE /\ Listening(name)

(* The client's socket and connect.                                        *)
Connect(c) == /\ \/ /\ CanConnect
                    /\ Step(c, "connect", "write")
                    /\ conn' = [conn EXCEPT ![c] = name]
                 \/ /\ \/ Fails(c, "connect")
                       \/ ~CanConnect /\ Step(c, "connect", "failed")
                    /\ UNCHANGED conn
              /\ UNCHANGED <<name, partner, wrote, buf, reply, unlinked>>

(* The client sends a line, or nothing at the end of its input, and then   *)
(* reads nothing; without the server the write ends it (SIGPIPE).          *)
SendLine(c) == /\ \/ /\ at[c] = "write" /\ Listening(conn[c])
                     /\ \/ Step(c, "write", "read") /\ wrote' = wrote \union {c}
                        \/ Step(c, "write", "unlink") /\ UNCHANGED wrote
                  \/ /\ at[c] = "write" /\ ~Listening(conn[c])
                     /\ Step(c, "write", "killed") /\ UNCHANGED wrote
               /\ UNCHANGED <<name, conn, partner, buf, reply, unlinked>>

(* Mutant: the client does not wait for the echo.                          *)
LeavesAtOnce(c) == Step(c, "read", "unlink") /\ UNCHANGED echoVars

(* The client's read gets as much as it sent, or finds the server gone,    *)
(* and then the name stays.                                                *)
ReadEcho(c) == /\ \/ reply[c] # NONE /\ Step(c, "read", "unlink")
                  \/ reply[c] = NONE /\ at[c] = "read" /\ ~Listening(conn[c])
                     /\ Step(c, "read", "failed")
               /\ UNCHANGED echoVars

UnixServer(s) == Bind(s) \/ Listen(s) \/ Accept(s) \/ Read(s) \/ Write(s) \/ Unlink(s)
UnixClient(c) == Connect(c) \/ SendLine(c) \/ ReadEcho(c) \/ Unlink(c)
EchoNext == \/ \E s \in EchoServer : UnixServer(s)
            \/ \E c \in EchoClient : UnixClient(c)
-----------------------------------------------------------------------------
(* Types of the name, the connections, what they carry and the steps.      *)
EchoTypeOK ==
  /\ name \in EchoServer \union {NONE}
  /\ conn \in [EchoClient -> EchoServer \union {NONE}]
  /\ partner \in [EchoServer -> EchoClient \union {NONE}]
  /\ wrote \subseteq EchoClient
  /\ buf \in [EchoServer -> EchoClient \union {""}]
  /\ reply \in [EchoClient -> EchoClient \union {"", NONE}]
  /\ unlinked \in [EchoServer -> EchoServer \union EchoClient \union {NONE}]
  /\ \A s \in EchoServer :
       at[s] \in {"bind", "listen", "accept", "read", "write", "unlink"} \union Over
  /\ \A c \in EchoClient : at[c] \in {"connect", "write", "read", "unlink"} \union Over

(* A client is sent its own line and nothing else, whatever other clients  *)
(* and servers use the name (unixServer.cpp:45-54, unixClient.cpp:39-48).  *)
EchoIsOwnLine == \A c \in EchoClient : reply[c] # NONE => reply[c] = c /\ c \in wrote

(* A server that returned 0 leaves no name: only one that failed or was    *)
(* killed does. One that still has its client to serve can be found under  *)
(* its name, unless the run that removed the name was another server, a    *)
(* client that is not connected to this one, or one that is and sent it    *)
(* nothing (unixServer.cpp:32-59, unixClient.cpp:34-54).                   *)
NameIsRight ==
  \A s \in EchoServer :
    /\ at[s] = "ended" => name # s
    /\ at[s] \in {"listen", "accept", "read", "write"} /\ name # s =>
         \/ unlinked[s] \in EchoServer \ {s}
         \/ \E c \in EchoClient : unlinked[s] = c /\ (conn[c] # s \/ c \notin wrote)

(* A client that is connected comes to an end, also when the server takes  *)
(* another connection than its own (unixServer.cpp:44-57).                 *)
ClientsEnd == \A c \in EchoClient : at[c] = "write" ~> at[c] \in Over
=============================================================================
