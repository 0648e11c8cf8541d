------------------------------ MODULE Listener ------------------------------
(***************************************************************************)
(* The serving loops of the two DNS servers: AuthServer::run (auth/src/    *)
(* server.rs) and RecursorServer::run (recursor/src/lib.rs).               *)
(*                                                                         *)
(* Each server is a UDP loop and a spawned TCP accept loop.  A connection  *)
(* takes a permit or is closed at once; its task is bounded by a timeout   *)
(* and gives the permit back.  The recursor limits its UDP queries the     *)
(* same way, the authoritative server answers them in the loop itself.     *)
(* An error of the UDP socket ends run with the TCP task left detached; at *)
(* a shutdown the TCP loop may end by itself or be aborted by run.         *)
(* Answers are in modules Resolver and ZoneTransfer; here a task reads,    *)
(* then answers.  A client may fall silent, or go, at any point.           *)
(***************************************************************************)
EXTENDS Integers, FiniteSets

CONSTANTS Servers,     \* "auth", "recursor"
          Clients,
          Limit        \* MAX_TCP_CONNECTIONS, MAX_UDP_QUERIES

ASSUME LimitAssumption == Limit \in Nat \ {0}

VARIABLES udpLoop,     \* server -> "up", "failed" or "ended"
          tcpLoop,     \* server -> "up" or "ended"
          permits,     \* server and transport -> permits left
          task,        \* server and client -> the task that serves it
          shutdown     \* main has told the tasks to stop

listenVars == <<udpLoop, tcpLoop, permits, task, shutdown>>

NoTask == [via |-> "none", at |-> "none"]
Serving(s, via) == {c \in Clients : task[s][c].via = via}

ListenInit ==
    /\ udpLoop = [s \in Servers |-> "up"] /\ tcpLoop = [s \in Servers |-> "up"]
    /\ permits = [s \in Servers |-> [via \in {"tcp", "udp"} |-> Limit]]
    /\ task = [s \in Servers |-> [c \in Clients |-> NoTask]] /\ shutdown = FALSE

\* Types; and the permits that are out are exactly the tasks that run, so no
\* error, timeout or refusal ever loses one or gives one back twice.
ListenTypeOK ==
    /\ udpLoop \in [Servers -> {"up", "failed", "ended"}]
    /\ tcpLoop \in [Servers -> {"up", "ended"}] /\ shutdown \in BOOLEAN
    /\ \A s \in Servers, via \in {"tcp", "udp"} : permits[s][via] = Limit - Cardinality(Serving(s, via))

Spawned(s, c, via) ==
    /\ permits[s][via] > 0
    /\ permits' = [permits EXCEPT ![s][via] = @ - 1]
    /\ task' = [task EXCEPT ![s][c] = [via |-> via, at |-> "read"]]

Dropped(s, c) ==
    /\ permits' = [permits EXCEPT ![s][task[s][c].via] = @ + 1]
    /\ task' = [task EXCEPT ![s][c] = NoTask]

-----------------------------------------------------------------------------
(* The accept loop; with no permit left the connection is closed. *)

Accept(s, c) ==
    /\ tcpLoop[s] = "up" /\ task[s][c] = NoTask
    /\ Spawned(s, c, "tcp")
    /\ UNCHANGED <<udpLoop, tcpLoop, shutdown>>

\* handle_tcp_connection, handle_tcp_query: the length, the message, the answer.
TcpRead(s, c) ==
    /\ task[s][c] = [via |-> "tcp", at |-> "read"]
    /\ task' = [task EXCEPT ![s][c].at = "answer"]
    /\ UNCHANGED <<udpLoop, tcpLoop, permits, shutdown>>

\* Answered, the peer is gone, the message is no good: the handler returns.
TcpDone(s, c) ==
    /\ task[s][c].via = "tcp"
    /\ Dropped(s, c)
    /\ UNCHANGED <<udpLoop, tcpLoop, shutdown>>

TcpTimeout(s, c) ==
    /\ task[s][c].via = "tcp"
    /\ Dropped(s, c)
    /\ UNCHANGED <<udpLoop, tcpLoop, shutdown>>

-----------------------------------------------------------------------------
(* The UDP loop.  The authoritative server answers within the step. *)

UdpQuery(s, c) ==
    /\ s # "auth" /\ udpLoop[s] = "up" /\ task[s][c] = NoTask
    /\ Spawned(s, c, "udp")
    /\ UNCHANGED <<udpLoop, tcpLoop, shutdown>>

\* Resolved, or not: every upstream request has a timeout of its own.
UdpDone(s, c) ==
    /\ task[s][c].via = "udp"
    /\ Dropped(s, c)
    /\ UNCHANGED <<udpLoop, tcpLoop, shutdown>>

UdpError(s) ==
    /\ udpLoop[s] = "up"
    /\ udpLoop' = [udpLoop EXCEPT ![s] = "failed"]
    /\ UNCHANGED <<tcpLoop, permits, task, shutdown>>

-----------------------------------------------------------------------------
(* Shutdown. *)

Shutdown ==
    /\ ~shutdown /\ shutdown' = TRUE
    /\ UNCHANGED <<udpLoop, tcpLoop, permits, task>>

\* run returns, and the TCP loop is aborted where it stands.
UdpStop(s) ==
    /\ shutdown /\ udpLoop[s] = "up"
    /\ udpLoop' = [udpLoop EXCEPT ![s] = "ended"] /\ tcpLoop' = [tcpLoop EXCEPT ![s] = "ended"]
    /\ UNCHANGED <<permits, task, shutdown>>

\* Mutant: the TCP loop leaves its end to run.
TcpStop_byRun(s) ==
    /\ shutdown /\ tcpLoop[s] = "up" /\ udpLoop[s] = "ended"
    /\ tcpLoop' = [tcpLoop EXCEPT ![s] = "ended"]
    /\ UNCHANGED <<udpLoop, permits, task, shutdown>>

TcpStop(s) ==
    /\ shutdown /\ tcpLoop[s] = "up"
    /\ tcpLoop' = [tcpLoop EXCEPT ![s] = "ended"]
    /\ UNCHANGED <<udpLoop, permits, task, shutdown>>

\* main waits for the loops, not for the tasks they spawned, and exits.
NewProcess ==
    /\ shutdown /\ \A s \in Servers : udpLoop[s] # "up" /\ tcpLoop[s] = "ended"
    /\ udpLoop' = [s \in Servers |-> "up"] /\ tcpLoop' = [s \in Servers |-> "up"]
    /\ permits' = [s \in Servers |-> [via \in {"tcp", "udp"} |-> Limit]]
    /\ task' = [s \in Servers |-> [c \in Clients |-> NoTask]] /\ shutdown' = FALSE

ListenNext ==
    \/ Shutdown \/ NewProcess
    \/ \E s \in Servers : UdpError(s) \/ UdpStop(s) \/ TcpStop(s)
    \/ \E s \in Servers, c \in Clients :
          Accept(s, c) \/ TcpRead(s, c) \/ TcpDone(s, c) \/ TcpTimeout(s, c) \/ UdpQuery(s, c) \/ UdpDone(s, c)

-----------------------------------------------------------------------------
(* Properties. *)

\* However silent the clients are, a server that is full gets room again.
RoomAgain == \A s \in Servers, via \in {"tcp", "udp"} : permits[s][via] = 0 ~> permits[s][via] > 0

\* A shutdown ends both loops of a server, also when its UDP loop failed before
\* and nobody is left to abort the TCP loop.
BothStop == \A s \in Servers : shutdown ~> (udpLoop[s] # "up" /\ tcpLoop[s] = "ended")

\* Permits are never lost and nothing waits for ever, neither a full server nor
\* a shutdown.
ListenersLive == []ListenTypeOK /\ RoomAgain /\ BothStop

=============================================================================
