------------------------------- MODULE Dhcpv4 -------------------------------
(***************************************************************************)
(* The DHCPv4 server (crates/microdns-dhcp/src/v4/server.rs, pool.rs) on   *)
(* top of the lease tables, with its clients, the REST handlers that edit  *)
(* pools and reservations, the lease cleanup task, time, and crashes.      *)
(*                                                                         *)
(* One task runs the server: it takes a packet or the pool-sync tick and   *)
(* finishes it before the next, so pools change only in its steps.  The    *)
(* cleanup task, the REST handlers and time interleave with it.  A         *)
(* handler is one step when all it reads before its only write is read     *)
(* once; REQUEST looks the reservation up again after validating it, and   *)
(* is two steps.                                                           *)
(*                                                                         *)
(* Clients behave as RFC 2131 has them: they request an address they were  *)
(* offered or one they hold, and release the one they hold.  A reply may   *)
(* be lost.  DNS registration is in module DnsRegister; the reply's        *)
(* options (build_response) and the event bus are left out.                *)
(***************************************************************************)
EXTENDS LeaseManager

CONSTANTS PoolIds,     \* rows of the dhcp_pools table, numbered in key order
          lo, hi,      \* lo[p]..hi[p] is the range of pool p
          Editable,    \* the pools an operator adds and removes
          Reservable   \* the <<mac, ip>> pairs an operator may reserve

ASSUME PoolAssumption ==
    /\ PoolIds \subseteq Nat
    /\ lo \in [PoolIds -> Nat] /\ hi \in [PoolIds -> Nat]
    /\ Editable \subseteq PoolIds /\ Reservable \subseteq Macs \X Ips

VARIABLES dbPools,       \* pools in the database
          reservations,  \* reservation per client in the database
          pools,         \* in memory: the pools loaded
          allocated,     \* in memory: Ipv4Pool.allocated of each pool
          pending,       \* the REQUEST being handled, after validation
          offer,         \* client: the address last offered
          bound          \* client: the address last acknowledged

vars == <<leases, macIdx, ipIdx, purge, dbPools, reservations, pools, allocated,
          pending, offer, bound>>

contains(p, ip) == lo[p] <= ip /\ ip <= hi[p]

InSomePool(ip) == \E p \in pools : contains(p, ip)

mark_allocated(ps, alloc, marked) ==
    [p \in PoolIds |-> IF p \in ps THEN alloc[p] \cup {a \in marked : contains(p, a)}
                                   ELSE {}]

Free(p) == {a \in Ips : contains(p, a)} \ allocated[p]

Lowest(S) == {x \in S : \A y \in S : x <= y}

Reserved == {reservations[m] : m \in Macs} \ {None}

Requestable(m) == {offer[m], bound[m]} \ {None}

Init ==
    /\ LeaseInit
    /\ dbPools = PoolIds /\ pools = PoolIds
    /\ reservations = [m \in Macs |-> None]
    /\ allocated = [p \in PoolIds |-> {}]
    /\ pending = None
    /\ offer = [m \in Macs |-> None]
    /\ bound = [m \in Macs |-> None]

-----------------------------------------------------------------------------
(* DISCOVER.  heard: whether the OFFER reaches the client. *)

Offered(mac, ip, heard) ==
    /\ offer' = IF heard THEN [offer EXCEPT ![mac] = ip] ELSE offer
    /\ UNCHANGED <<leases, macIdx, ipIdx, purge, dbPools, reservations, pools, pending, bound>>

OfferReserved(mac, heard) ==
    /\ reservations[mac] # None
    /\ allocated' = mark_allocated(pools, allocated, {reservations[mac]})
    /\ Offered(mac, reservations[mac], heard)

OfferExisting(mac, heard) ==
    /\ reservations[mac] = None
    /\ find_lease_by_mac(mac) # NoRow
    /\ UNCHANGED allocated
    /\ Offered(mac, find_lease_by_mac(mac).ip, heard)

\* pool.allocate_specific of the first pool that has the address free
OfferRequested(mac, ip, heard) ==
    /\ reservations[mac] = None
    /\ find_lease_by_mac(mac) = NoRow
    /\ \E p \in Lowest({q \in pools : ip \in Free(q)}) :
          allocated' = [allocated EXCEPT ![p] = @ \cup {ip}]
    /\ Offered(mac, ip, heard)

\* pool.allocate of the first pool with a free address: its lowest.  Taken
\* when the client suggested no address, or one no pool has free.
OfferNext(mac, suggested, heard) ==
    /\ reservations[mac] = None
    /\ find_lease_by_mac(mac) = NoRow
    /\ \A p \in pools : suggested \notin Free(p)
    /\ \E p \in Lowest({q \in pools : Free(q) # {}}) : \E ip \in Lowest(Free(p)) :
          /\ allocated' = [allocated EXCEPT ![p] = @ \cup {ip}]
          /\ Offered(mac, ip, heard)

\* suggested: option 50 of the DISCOVER, absent or the address last held
handle_discover(mac, suggested, heard) ==
    /\ pending = None
    /\ \/ OfferReserved(mac, heard)
       \/ OfferExisting(mac, heard)
       \/ OfferRequested(mac, suggested, heard)
       \/ OfferNext(mac, suggested, heard)

-----------------------------------------------------------------------------
(* REQUEST, in two steps. *)

Nak(mac, heard) ==
    /\ pending' = None
    /\ offer' = IF heard THEN [offer EXCEPT ![mac] = None] ELSE offer
    /\ bound' = IF heard THEN [bound EXCEPT ![mac] = None] ELSE bound
    /\ UNCHANGED <<leases, macIdx, ipIdx, purge, dbPools, reservations, pools, allocated>>

\* A client with a reservation may only have the reserved address.
NakReservation(mac, ip, heard) ==
    /\ pending = None
    /\ reservations[mac] \notin {None, ip}
    /\ Nak(mac, heard)

ValidateRequest(mac, ip) ==
    /\ pending = None
    /\ reservations[mac] \in {None, ip}
    /\ pending' = [mac |-> mac, ip |-> ip]
    /\ UNCHANGED <<leases, macIdx, ipIdx, purge, dbPools, reservations, pools,
                   allocated, offer, bound>>

\* Outside every pool, and by now no reservation.
NakNoPool(heard) ==
    /\ pending # None
    /\ ~InSomePool(pending.ip) /\ reservations[pending.mac] = None
    /\ Nak(pending.mac, heard)

AckRequest(heard) ==
    /\ pending # None
    /\ InSomePool(pending.ip) \/ reservations[pending.mac] # None
    /\ create_lease(pending.ip, pending.mac)
    /\ pending' = None
    /\ bound' = IF heard THEN [bound EXCEPT ![pending.mac] = pending.ip] ELSE bound
    /\ offer' = IF heard THEN [offer EXCEPT ![pending.mac] = None] ELSE offer
    /\ UNCHANGED <<purge, dbPools, reservations, pools, allocated>>

-----------------------------------------------------------------------------
(* RELEASE.  There is no reply; the client starts over. *)

\* Mutant: the row is deleted, its index entries are not.
handle_release_deletes(mac) ==
    /\ pending = None
    /\ bound[mac] # None
    /\ allocated' = [p \in PoolIds |-> allocated[p] \ {bound[mac]}]
    /\ leases' = [id \in LeaseIds |-> IF id = macIdx[mac] THEN NoRow ELSE leases[id]]
    /\ bound' = [bound EXCEPT ![mac] = None]
    /\ offer' = [offer EXCEPT ![mac] = None]
    /\ UNCHANGED <<macIdx, ipIdx, purge, dbPools, reservations, pools, pending>>

handle_release(mac) ==
    /\ pending = None
    /\ bound[mac] # None
    /\ allocated' = IF reservations[mac] = None
                    THEN [p \in PoolIds |-> allocated[p] \ {bound[mac]}]
                    ELSE allocated
    /\ release_lease_by_mac(mac)
    /\ bound' = [bound EXCEPT ![mac] = None]
    /\ offer' = [offer EXCEPT ![mac] = None]
    /\ UNCHANGED <<purge, dbPools, reservations, pools, pending>>

-----------------------------------------------------------------------------
(* The pools in memory are rebuilt from the database: at startup, and by   *)
(* the 60 second tick.                                                     *)

\* Mutant: what was marked before is not cleared.
RebuildPools_keepsMarks ==
    /\ pools' = dbPools
    /\ allocated' = mark_allocated(dbPools, allocated,
                                   {l.ip : l \in list_active_leases} \cup Reserved)

\* Mutant: only the reservations are marked again.
RebuildPools_forgetsLeases ==
    /\ pools' = dbPools
    /\ allocated' = mark_allocated(dbPools, [p \in PoolIds |-> {}], Reserved)

RebuildPools ==
    /\ pools' = dbPools
    /\ allocated' = mark_allocated(dbPools, [p \in PoolIds |-> {}],
                                   {l.ip : l \in list_active_leases} \cup Reserved)

sync_pool ==
    /\ pending = None
    /\ RebuildPools
    /\ UNCHANGED <<leases, macIdx, ipIdx, purge, dbPools, reservations, pending, offer, bound>>

\* The process dies, at any point between two transactions, and starts again:
\* Dhcpv4Server::new and restore_leases.
Restart ==
    /\ RebuildPools
    /\ PurgeRestart
    /\ pending' = None
    /\ UNCHANGED <<dbPools, reservations, offer, bound>>

-----------------------------------------------------------------------------
(* REST: pools and reservations. *)

ApiPool(p) ==
    /\ dbPools' = IF p \in dbPools THEN dbPools \ {p} ELSE dbPools \cup {p}
    /\ UNCHANGED <<leases, macIdx, ipIdx, purge, reservations, pools, allocated,
                   pending, offer, bound>>

ApiReserve(mac, ip) ==
    /\ <<mac, ip>> \in Reservable
    /\ reservations' = [reservations EXCEPT ![mac] = ip]
    /\ UNCHANGED <<leases, macIdx, ipIdx, purge, dbPools, pools, allocated,
                   pending, offer, bound>>

ApiUnreserve(mac) ==
    /\ reservations[mac] # None
    /\ reservations' = [reservations EXCEPT ![mac] = None]
    /\ UNCHANGED <<leases, macIdx, ipIdx, purge, dbPools, pools, allocated,
                   pending, offer, bound>>

-----------------------------------------------------------------------------
others == <<dbPools, reservations, pools, allocated, pending, offer, bound>>

Cleanup == (PurgeFirst \/ PurgeSecond) /\ UNCHANGED others

Time == Tick /\ UNCHANGED others

handle_packet ==
    \/ \E m \in Macs, heard \in BOOLEAN : \E a \in {None, bound[m]} : handle_discover(m, a, heard)
    \/ \E m \in Macs, heard \in BOOLEAN : \E a \in Requestable(m) : NakReservation(m, a, heard)
    \/ \E m \in Macs : \E a \in Requestable(m) : ValidateRequest(m, a)
    \/ \E heard \in BOOLEAN : NakNoPool(heard)
    \/ \E heard \in BOOLEAN : AckRequest(heard)
    \/ \E m \in Macs : handle_release(m)

Api ==
    \/ \E p \in Editable : ApiPool(p)
    \/ \E m \in Macs, a \in Ips : ApiReserve(m, a)
    \/ \E m \in Macs : ApiUnreserve(m)

Next == handle_packet \/ sync_pool \/ Restart \/ Cleanup \/ Time \/ Api

Spec == Init /\ [][Next]_vars

\* The runtime keeps polling every task, so the cleanup task goes on and a
\* handler that was started finishes.  The select! of the server loop chooses
\* among its ready branches at random, so the sync tick is taken in the end
\* however many packets there are (strong fairness: a REQUEST being handled
\* disables it).  And the process does not crash for ever.
Fairness ==
    /\ WF_vars(Cleanup) /\ WF_vars(Time)
    /\ SF_vars(sync_pool)
    /\ WF_vars(\E heard \in BOOLEAN : NakNoPool(heard) \/ AckRequest(heard))
    /\ <>[][~Restart]_vars

\* A database the release before the upsert wrote: one client has two rows.
LegacyStart ==
    /\ \E m \in Macs, a \in Ips, old, new \in LeaseIds : old # new /\ LegacyInit(m, a, old, new)
    /\ dbPools = PoolIds /\ pools = PoolIds
    /\ reservations = [m \in Macs |-> None]
    /\ allocated = mark_allocated(PoolIds, [p \in PoolIds |-> {}],
                                  {l.ip : l \in list_active_leases})
    /\ pending = None
    /\ offer = [m \in Macs |-> None]
    /\ bound = [m \in Macs |-> None]

LegacySpec == LegacyStart /\ [][Next]_vars

\* Either start, with fairness.
UpgradeSpec == (Init \/ LegacyStart) /\ [][Next]_vars /\ Fairness

\* Every address a client may still ask for is leased to it: no OFFER is
\* waiting for its REQUEST, and no client remembers a lease that ran out.
Settled ==
    \A m \in Macs : \A a \in Requestable(m) :
        find_lease_by_mac(m) # NoRow /\ find_lease_by_mac(m).ip = a

\* The server as long as its pools are rebuilt only when that is so.
SettledSpec ==
    Init /\ [][ \/ handle_packet \/ Cleanup \/ Time
                \/ Settled /\ (sync_pool \/ Restart) ]_vars

-----------------------------------------------------------------------------
(* Properties. *)

\* Every variable holds a value of its type; in particular allocated never
\* leaves the range of its pool, on which available_count's subtraction depends.
TypeOK ==
    /\ LeaseTypeOK
    /\ dbPools \subseteq PoolIds /\ pools \subseteq PoolIds
    /\ reservations \in [Macs -> Ips \cup {None}]
    /\ allocated \in [PoolIds -> SUBSET Ips]
    /\ \A p \in PoolIds : \A a \in allocated[p] : contains(p, a)
    /\ pending \in [mac : Macs, ip : Ips] \cup {None}
    /\ offer \in [Macs -> Ips \cup {None}]
    /\ bound \in [Macs -> Ips \cup {None}]

\* A lease past its retention is removed or renewed: the table does not keep
\* the rows of clients that left.
ExpiredGo ==
    \A m \in Macs : []<>(macIdx[m] = None \/ leases[macIdx[m]].left >= -Retention)

\* Addresses set aside for an OFFER the client never took up, and those of
\* leases that ran out, return to the pool (the pool exhaustion that sync_pool
\* was added for).
AbandonedReclaimed ==
    \A p \in PoolIds : \A a \in Ips :
        []<>(a \in allocated[p] => a \in Reserved \/ \E l \in list_active_leases : l.ip = a)

\* No two clients hold running leases on one address.  handle_request asks
\* neither the lease table nor the pool whether the address is free; what keeps
\* clients apart is that only one of them was told about it, as long as the
\* pools are not rebuilt in between.
OneHolder ==
    \A r, s \in Rows :
        IsActive(leases[r]) /\ IsActive(leases[s]) /\ leases[r].ip = leases[s].ip => r = s

\* An address with a running lease counts as allocated in every pool loaded
\* that contains it ("Addresses currently allocated", pool.rs).
AllocatedCoversLeases ==
    \A r \in Rows : \A p \in pools :
        IsActive(leases[r]) /\ contains(p, leases[r].ip) => leases[r].ip \in allocated[p]

=============================================================================
