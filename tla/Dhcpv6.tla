------------------------------- MODULE Dhcpv6 -------------------------------
(***************************************************************************)
(* The DHCPv6 server (crates/microdns-dhcp/src/v6/server.rs).              *)
(*                                                                         *)
(* One task handles one packet after the other.  Solicit and Request each  *)
(* take the next address of a counter that starts at the same number at    *)
(* every start; Request writes it as the lease of the client, and answers  *)
(* whether or not that worked.  The lease rows are those of LeaseManager:  *)
(* one row per client, overwritten in place.  An address is the prefix of  *)
(* the configuration OR the counter; the prefix length is not looked at.   *)
(* Expiry and the cleanup of rows are in module LeaseManager.              *)
(***************************************************************************)
EXTENDS Integers, Nothing
LOCAL INSTANCE Bitwise

CONSTANTS Duids,       \* clients
          Prefixes,    \* the addresses a configuration may give as prefix
          First,       \* 0x100, where the counter starts
          Span        \* the counter stays below First + Span, Span + First a power of 2

ASSUME SpanAssumption == First \in Nat /\ Span \in Nat \ {0} /\ Prefixes \subseteq Nat

VARIABLES prefix,      \* of the configuration
          counter,     \* addr_counter
          leased,      \* the lease row of a client: address and state
          told,        \* the address of the last Reply to a client, and in which run of the server
          starts       \* history: runs of the server, 0 or 1 restarts

v6Vars == <<prefix, counter, leased, told, starts>>

Dhcpv6Init ==
    /\ prefix \in Prefixes /\ counter = First /\ starts = 0
    /\ leased = [d \in Duids |-> None] /\ told = [d \in Duids |-> None]

\* Mutant: the counter is read and not moved on.
allocate_address_stays == counter' = counter

allocate_address == counter' = counter + 1

NextAddress == prefix | counter

handle_solicit ==
    /\ counter < First + Span
    /\ allocate_address
    /\ UNCHANGED <<prefix, leased, told, starts>>

\* ok: create_lease succeeded; heard: the Reply reached the client.
handle_request(d, ok, heard) ==
    /\ counter < First + Span
    /\ allocate_address
    /\ leased' = IF ok THEN [leased EXCEPT ![d] = [addr |-> NextAddress, active |-> TRUE]] ELSE leased
    /\ told' = IF heard THEN [told EXCEPT ![d] = [addr |-> NextAddress, run |-> starts, kept |-> ok]]
               ELSE IF told[d] = None THEN told ELSE [told EXCEPT ![d].kept = @ /\ ~ok]
    /\ UNCHANGED <<prefix, starts>>

handle_release(d) ==
    /\ leased' = IF leased[d] = None THEN leased ELSE [leased EXCEPT ![d].active = FALSE]
    /\ told' = [told EXCEPT ![d] = None]
    /\ UNCHANGED <<prefix, counter, starts>>

\* Dhcpv6Server::new
V6Restart ==
    /\ starts = 0 /\ starts' = 1 /\ counter' = First
    /\ UNCHANGED <<prefix, leased, told>>

Dhcpv6Next ==
    \/ handle_solicit \/ V6Restart
    \/ \E d \in Duids : handle_release(d) \/ \E ok, heard \in BOOLEAN : handle_request(d, ok, heard)

-----------------------------------------------------------------------------
(* Properties. *)

\* Types; and the row of a client says what the client was last told, unless
\* writing it failed or the client missed the Reply.
V6RowIsTold ==
    /\ counter \in First .. (First + Span)
    /\ \A d \in Duids : told[d] # None /\ told[d].kept
                            => leased[d] = [addr |-> told[d].addr, active |-> TRUE]

Aligned == prefix % (First + Span) = 0

\* In one run of the server two clients are never told the same address, when
\* the prefix leaves the bits of the counter clear.  After a restart, or with
\* a prefix that has some of them set, they may be.
V6OwnAddress ==
    \A c, d \in Duids : c # d /\ told[c] # None /\ told[d] # None /\ told[c].addr = told[d].addr
                            => told[c].run # told[d].run \/ ~Aligned

\* What a client was told is its own, and is on record.
V6Told == V6RowIsTold /\ V6OwnAddress

=============================================================================
