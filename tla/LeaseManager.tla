---------------------------- MODULE LeaseManager ----------------------------
(***************************************************************************)
(* The lease tables of microdns (crates/microdns-dhcp/src/lease.rs) and    *)
(* the background task of main.rs that cleans them.                        *)
(*                                                                         *)
(* Every method of LeaseManager is one redb write transaction, so it is    *)
(* one atomic step here.  Time is kept relative to now: a lease carries    *)
(* left = lease_end - now, which Tick decreases for every lease at once.   *)
(* Below -Retention the cleanup cuts the lease off whatever the value is,  *)
(* so left stops at -Retention - 1.                                        *)
(*                                                                         *)
(* Left out: hostname and pool_id (no table operation reads them),         *)
(* transactions that fail for I/O, and the LeaseReleased notifications.    *)
(***************************************************************************)
EXTENDS Integers, FiniteSets

CONSTANTS Macs,        \* client identities (MAC for v4, DUID for v6)
          Ips,         \* addresses, as numbers
          LeaseIds,    \* row keys (UUIDs); at least one more than rows ever held
          LeaseTime,   \* lease_time_secs of the pools
          Retention,   \* how long an expired lease is kept (2400 s in main.rs)
          None         \* no entry

ASSUME TimeAssumption == LeaseTime \in Nat \ {0} /\ Retention \in Nat
ASSUME IpAssumption == Ips \subseteq Nat
ASSUME NoneAssumption == None \notin LeaseIds /\ None \notin Ips /\ None \notin Macs

VARIABLES leases,      \* LEASES_TABLE
          macIdx,      \* MAC_LEASE_INDEX
          ipIdx,       \* IP_LEASE_INDEX
          purge        \* where the cleanup task is: between ticks, or between its two calls

leaseVars == <<leases, macIdx, ipIdx, purge>>

Lease == [mac : Macs, ip : Ips, state : {"Active", "Released"},
          left : (-Retention - 1)..LeaseTime]

NoRow == [mac |-> None]

Rows == {id \in LeaseIds : leases[id] # NoRow}

Indexed == {macIdx[m] : m \in Macs}

Orphans == Rows \ Indexed

IsActive(l) == l.state = "Active" /\ l.left > 0

\* A v4 UUID has never been used before: no row, no index entry.
Fresh(id) ==
    /\ leases[id] = NoRow
    /\ \A m \in Macs : macIdx[m] # id
    /\ \A a \in Ips : ipIdx[a] # id

new_lease(ip, mac) ==
    [mac |-> mac, ip |-> ip, state |-> "Active", left |-> LeaseTime]

LeaseInit ==
    /\ leases = [id \in LeaseIds |-> NoRow]
    /\ macIdx = [m \in Macs |-> None]
    /\ ipIdx = [a \in Ips |-> None]
    /\ purge = "idle"

\* Rows the earlier release left behind: it added a row on every ACK and moved
\* both index entries to it (the comment on purge_orphaned_leases).
LegacyInit(mac, ip, old, new) ==
    /\ \E oldLeft \in (-Retention - 1)..LeaseTime, newLeft \in 1..LeaseTime :
        /\ oldLeft < newLeft
        /\ leases = [id \in LeaseIds |->
                        CASE id = old -> [new_lease(ip, mac) EXCEPT !.left = oldLeft]
                          [] id = new -> [new_lease(ip, mac) EXCEPT !.left = newLeft]
                          [] OTHER -> NoRow]
    /\ macIdx = [m \in Macs |-> IF m = mac THEN new ELSE None]
    /\ ipIdx = [a \in Ips |-> IF a = ip THEN new ELSE None]
    /\ purge = "idle"

-----------------------------------------------------------------------------
(* Operations called by the DHCP servers. *)

find_lease_by_mac(mac) ==
    IF macIdx[mac] \in Rows /\ IsActive(leases[macIdx[mac]])
    THEN leases[macIdx[mac]]
    ELSE NoRow

list_active_leases == {leases[id] : id \in {r \in Rows : IsActive(leases[r])}}

\* The client has a row: overwrite it, and move its ip index entry if the
\* address changed.
UpdateLease(ip, mac) ==
    LET id == macIdx[mac]
        oldIp == leases[id].ip
    IN  /\ id \in Rows
        /\ leases' = [leases EXCEPT ![id] = new_lease(ip, mac)]
        /\ ipIdx' = IF oldIp = ip THEN ipIdx
                    ELSE [ipIdx EXCEPT ![oldIp] = None, ![ip] = id]
        /\ UNCHANGED macIdx

\* No index entry, or one whose row is missing: a new row.
InsertLease(ip, mac) ==
    /\ macIdx[mac] \notin Rows
    /\ \E id \in LeaseIds :
        /\ Fresh(id)
        /\ leases' = [leases EXCEPT ![id] = new_lease(ip, mac)]
        /\ macIdx' = [macIdx EXCEPT ![mac] = id]
        /\ ipIdx' = [ipIdx EXCEPT ![ip] = id]

\* Mutant: a new row on every ACK, as before the upsert.
create_lease_alwaysInserts(ip, mac) ==
    \E id \in LeaseIds :
        /\ Fresh(id)
        /\ leases' = [leases EXCEPT ![id] = new_lease(ip, mac)]
        /\ macIdx' = [macIdx EXCEPT ![mac] = id]
        /\ ipIdx' = [ipIdx EXCEPT ![ip] = id]

create_lease(ip, mac) == UpdateLease(ip, mac) \/ InsertLease(ip, mac)

release_lease_by_mac(mac) ==
    /\ leases' = IF macIdx[mac] \in Rows
                 THEN [leases EXCEPT ![macIdx[mac]].state = "Released"]
                 ELSE leases
    /\ UNCHANGED <<macIdx, ipIdx>>

-----------------------------------------------------------------------------
(* The cleanup task: every minute, orphans first, then expired rows. *)

purge_orphaned_leases ==
    /\ leases' = [id \in LeaseIds |-> IF id \in Orphans THEN NoRow ELSE leases[id]]
    /\ ipIdx' = [a \in Ips |-> IF ipIdx[a] \in Orphans /\ leases[ipIdx[a]].ip = a
                               THEN None ELSE ipIdx[a]]
    /\ UNCHANGED macIdx

\* Mutant: only rows still Active are looked at.
Expired_activeOnly ==
    {id \in Rows : leases[id].state = "Active" /\ leases[id].left < -Retention}

Expired == {id \in Rows : leases[id].left < -Retention}

purge_expired_leases ==
    /\ leases' = [id \in LeaseIds |-> IF id \in Expired THEN NoRow ELSE leases[id]]
    /\ macIdx' = [m \in Macs |-> IF \E id \in Expired : leases[id].mac = m
                                 THEN None ELSE macIdx[m]]
    /\ ipIdx' = [a \in Ips |-> IF \E id \in Expired : leases[id].ip = a
                               THEN None ELSE ipIdx[a]]

\* Mutant: the orphans are not dealt with first.
PurgeFirst_expiredFirst == purge = "idle" /\ purge' = "expired" /\ purge_expired_leases

PurgeFirst == purge = "idle" /\ purge' = "expired" /\ purge_orphaned_leases

PurgeSecond == purge = "expired" /\ purge' = "idle" /\ purge_expired_leases

Aged(l) == [l EXCEPT !.left = IF l.left < -Retention THEN l.left ELSE l.left - 1]

Tick ==
    /\ leases' = [id \in LeaseIds |-> IF id \in Rows THEN Aged(leases[id]) ELSE NoRow]
    /\ UNCHANGED <<macIdx, ipIdx, purge>>

\* A crash loses where the cleanup was; its first call comes again.
PurgeRestart == purge' = "idle" /\ UNCHANGED <<leases, macIdx, ipIdx>>

LeaseNext ==
    \/ \E ip \in Ips, mac \in Macs : create_lease(ip, mac) /\ UNCHANGED purge
    \/ \E mac \in Macs : release_lease_by_mac(mac) /\ UNCHANGED purge
    \/ PurgeFirst \/ PurgeSecond \/ PurgeRestart \/ Tick

\* What every server that keeps its leases here does to the tables.
LeaseSpec == LeaseInit /\ [][LeaseNext]_leaseVars

-----------------------------------------------------------------------------
(* Properties of the tables, under any server. *)

\* Every row is a whole lease and every index entry a row key.
LeaseTypeOK ==
    /\ leases \in [LeaseIds -> Lease \cup {NoRow}]
    /\ macIdx \in [Macs -> LeaseIds \cup {None}]
    /\ ipIdx \in [Ips -> LeaseIds \cup {None}]
    /\ purge \in {"idle", "expired"}

\* The MAC index and the lease table agree under every interleaving of the
\* server with the cleanup task: an entry leads to a row of that client.
MacIndexOK ==
    \A m \in Macs : macIdx[m] # None =>
        macIdx[m] \in Rows /\ leases[macIdx[m]].mac = m

\* A client has at most one row (create_lease upserts), so list_active_leases
\* never returns two leases of one client.
OneRowPerClient ==
    \A r, s \in Rows : leases[r].mac = leases[s].mac => r = s

\* An IP index entry leads to a row with that address, though several clients
\* may have held it and the tables drop entries by address, not by owner.
IpIndexOK ==
    \A a \in Ips : ipIdx[a] # None =>
        ipIdx[a] \in Rows /\ leases[ipIdx[a]].ip = a

\* When the cleanup comes to the expired rows no row is unreachable from the
\* MAC index, though the server ran since its first call.
NoOrphansAtSecondPurge == purge = "expired" => Orphans = {}

\* No step takes a lease that is still running away from its client: the
\* cleanup calls, between which the server may run, remove rows and index
\* entries by address and by MAC, yet never those of an active lease.
LiveLeaseNeverPurged ==
    [][\A m \in Macs : find_lease_by_mac(m) # NoRow =>
            macIdx'[m] = macIdx[m] /\ leases'[macIdx[m]] # NoRow]_leaseVars

\* No step makes a row unreachable from the MAC index.
NoNewOrphans == [][Orphans' \subseteq Orphans]_leaseVars

\* The three tables agree under every interleaving of the server with the
\* cleanup task: both indexes lead to rows of their client and their address,
\* and no client has two rows.
TablesAgree == LeaseTypeOK /\ MacIndexOK /\ IpIndexOK /\ OneRowPerClient

=============================================================================
