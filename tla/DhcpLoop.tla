------------------------------ MODULE DhcpLoop ------------------------------
(***************************************************************************)
(* The receive loops of the DHCPv4 server (dhcp/src/v4/server.rs): one     *)
(* socket for the life of the process in normal mode; in gateway mode a    *)
(* socket that is dropped, with what waits in it, for each relayed packet  *)
(* and by a timer 30 seconds after the last one.                           *)
(*                                                                         *)
(* A host asks until it is answered.  What the handlers do is Dhcpv4; here *)
(* they answer or do not.  The pool rebuild of the same loop is Dhcpv4's   *)
(* sync_pool.                                                              *)
(***************************************************************************)
EXTENDS Sequences, Integers, Nothing

CONSTANTS Hosts,
          Steadfast,   \* hosts that keep asking until they are answered
          Buffer       \* packets a socket holds

VARIABLES mode,      \* "normal" or "gateway"
          relayed,   \* hosts whose packets a relay forwards
          socket,    \* is the receive socket bound
          waiting,   \* packets in it
          handling,  \* the host of the packet in hand
          quiet,     \* 30 s have passed since last_relay_packet
          wants,     \* hosts that wait for an answer
          holding    \* hosts that have an address

loopVars == <<mode, relayed, socket, waiting, handling, quiet, wants, holding>>

LoopInit ==
    /\ mode \in {"normal", "gateway"} /\ relayed \in SUBSET Hosts /\ socket = FALSE /\ waiting = <<>> /\ handling = None
    /\ quiet = FALSE /\ wants = {} /\ holding = {}

\* Environment: a host needs an address or renews; it may have lost its own.
Ask(h) ==
    /\ h \notin wants /\ wants' = wants \cup {h}
    /\ holding' \in {holding, holding \ {h}}
    /\ UNCHANGED <<mode, relayed, socket, waiting, handling, quiet>>

\* Environment: it sends, and the packet gets through.
Transmit(h) ==
    /\ h \in wants /\ socket /\ Len(waiting) < Buffer
    /\ waiting' = Append(waiting, h)
    /\ UNCHANGED <<mode, relayed, socket, handling, quiet, wants, holding>>

\* A failed bind is tried again after 5 s.
bind_recv_socket ==
    /\ ~socket /\ handling = None /\ socket' = TRUE
    /\ UNCHANGED <<mode, relayed, waiting, handling, quiet, wants, holding>>

recv_normal ==
    /\ mode = "normal" /\ handling = None /\ waiting # <<>>
    /\ handling' = Head(waiting) /\ waiting' = Tail(waiting)
    /\ UNCHANGED <<mode, relayed, socket, quiet, wants, holding>>

\* A packet that did not come by a relay is left alone; for one that did the
\* socket goes before the packet is handled.
recv_gateway ==
    /\ mode = "gateway" /\ handling = None /\ waiting # <<>>
    /\ IF Head(waiting) \in relayed
       THEN handling' = Head(waiting) /\ socket' = FALSE /\ waiting' = <<>> /\ quiet' = FALSE
       ELSE waiting' = Tail(waiting) /\ UNCHANGED <<handling, socket, quiet>>
    /\ UNCHANGED <<mode, relayed, wants, holding>>

HalfMinute ==
    /\ mode = "gateway" /\ ~quiet /\ handling = None /\ waiting = <<>> /\ quiet' = TRUE
    /\ UNCHANGED <<mode, relayed, socket, waiting, handling, wants, holding>>

\* The deadman timer; it may win against a packet that has just come.
Deadman ==
    /\ mode = "gateway" /\ socket /\ quiet /\ handling = None
    /\ socket' = FALSE /\ waiting' = <<>> /\ quiet' = FALSE
    /\ UNCHANGED <<mode, relayed, handling, wants, holding>>

\* Mutant: an answer to a host without an address goes to the address it gets.
Dest_unicast(h) == IF h \in relayed THEN "relay" ELSE "unicast"

\* Where the answer goes: a host without an address is reached by broadcast only.
Dest(h) == IF h \in relayed THEN "relay" ELSE IF h \notin holding THEN "broadcast" ELSE "unicast"

\* The packet is handled and its answer sent.
Answer ==
    /\ handling # None /\ handling' = None
    /\ IF Dest(handling) # "unicast" \/ handling \in holding
       THEN wants' = wants \ {handling} /\ holding' = holding \cup {handling}
       ELSE UNCHANGED <<wants, holding>>
    /\ UNCHANGED <<mode, relayed, socket, waiting, quiet>>

\* No answer: nothing to offer, an error, or the send failed.
NoAnswer ==
    /\ handling # None /\ handling' = None
    /\ UNCHANGED <<mode, relayed, socket, waiting, quiet, wants, holding>>

\* Shutdown or a crash, and the next process.
LoopRestart ==
    /\ socket' = FALSE /\ waiting' = <<>> /\ handling' = None /\ quiet' = FALSE
    /\ UNCHANGED <<mode, relayed, wants, holding>>

LoopNext ==
    \/ \E h \in Hosts : Ask(h) \/ Transmit(h)
    \/ bind_recv_socket \/ recv_normal \/ recv_gateway \/ HalfMinute \/ Deadman
    \/ Answer \/ NoAnswer \/ LoopRestart

-----------------------------------------------------------------------------
(* Properties. *)

Served(h) == mode = "normal" \/ h \in relayed

\* While a packet of gateway mode is handled there is no socket, so no packet
\* waits that the next recycling would lose unseen; and only relayed packets are
\* handled there.
NoSocketWhileHandling ==
    mode = "gateway" /\ handling # None => ~socket /\ waiting = <<>> /\ handling \in relayed

\* A host that keeps asking is answered, in either mode and through any number of
\* recycled sockets, once the other hosts the server answers have stopped asking:
\* each relayed packet empties the socket, so a crowd may keep one host waiting.
LastOneServed ==
    \A h \in Steadfast : ~<>[](h \in wants /\ Served(h) /\ \A g \in wants \ {h} : ~Served(g))

\* Recycling the socket costs packets, never a host its answer.
LoopServes == []NoSocketWhileHandling /\ LastOneServed

=============================================================================
