---------------------------- MODULE Dhcpv4Proofs ----------------------------
(***************************************************************************)
(* Proofs about the lease tables and the DHCPv4 server, for any number of  *)
(* clients, addresses, pools and rows.                                     *)
(*                                                                         *)
(* First the tables alone.  Their invariant is inductive as the            *)
(* conjunction TablesOK: that no running lease is purged needs             *)
(* NoOrphansAtSecondPurge, which needs both indexes sound.  Then the       *)
(* server, which uses the tables only through the operations of            *)
(* LeaseManager, so what is shown of them holds of it.                     *)
(***************************************************************************)
EXTENDS Dhcpv4, TLAPS

TablesOK == LeaseTypeOK /\ MacIndexOK /\ IpIndexOK /\ NoOrphansAtSecondPurge

\* A lease is a row: the record that stands for an empty slot is none.
LEMMA LeaseIsRow == \A l \in Lease : l # NoRow
BY NoneAssumption DEF Lease, NoRow

\* The rows are the keys that hold a lease.
LEMMA RowsAreLeases ==
    ASSUME LeaseTypeOK
    PROVE  /\ \A id \in LeaseIds : id \in Rows <=> leases[id] \in Lease
           /\ Rows \subseteq LeaseIds
           /\ None \notin Rows
BY Zenon, LeaseIsRow, NoneAssumption DEF LeaseTypeOK, Rows

\* A lease as create_lease writes it is well formed.
LEMMA NewLeaseType == \A ip \in Ips, mac \in Macs : new_lease(ip, mac) \in Lease
BY TimeAssumption DEF new_lease, Lease

\* Letting time pass keeps a lease well formed, with its client and address.
LEMMA AgedType ==
    \A l \in Lease : /\ Aged(l) \in Lease
                     /\ Aged(l).mac = l.mac
                     /\ Aged(l).ip = l.ip
BY TimeAssumption DEF Aged, Lease

\* create_lease on a client's own row keeps the tables consistent: the only
\* address entries it moves are the row's.
LEMMA UpdateLeaseOK ==
    ASSUME TablesOK, NEW ip \in Ips, NEW mac \in Macs,
           UpdateLease(ip, mac), UNCHANGED purge
    PROVE  TablesOK' /\ Orphans' = Orphans
<1> DEFINE id == macIdx[mac]
<1>1. id \in Rows /\ id \in LeaseIds /\ leases[id] \in Lease /\ id # None
  BY Zenon, RowsAreLeases DEF UpdateLease, TablesOK
<1>2. leases[id].ip \in Ips
  BY Zenon, <1>1 DEF Lease
<1>3. leases' = [leases EXCEPT ![id] = new_lease(ip, mac)] /\ macIdx' = macIdx
  BY Zenon DEF UpdateLease
<1>4. LeaseTypeOK'
  BY Zenon, <1>1, <1>2, <1>3, NewLeaseType DEF TablesOK, LeaseTypeOK, UpdateLease
<1>5. Rows' = Rows /\ Orphans' = Orphans
  BY <1>1, <1>3, NewLeaseType, LeaseIsRow DEF Rows, Orphans, Indexed, TablesOK, LeaseTypeOK
<1>6. MacIndexOK'
  BY Zenon, <1>1, <1>3, <1>5 DEF MacIndexOK, TablesOK, LeaseTypeOK, new_lease, Rows
<1>7. IpIndexOK'
  <2> SUFFICES ASSUME NEW a \in Ips, ipIdx'[a] # None
               PROVE  ipIdx'[a] \in Rows' /\ leases'[ipIdx'[a]].ip = a
    BY Zenon DEF IpIndexOK
  <2>1. CASE leases[id].ip = ip
    BY <2>1, <1>1, <1>3, <1>5 DEF UpdateLease, TablesOK, IpIndexOK, LeaseTypeOK, new_lease, Rows
  <2>2. CASE leases[id].ip # ip /\ a = ip
    BY <2>2, <1>1, <1>2, <1>3, <1>5 DEF UpdateLease, TablesOK, LeaseTypeOK, new_lease
  <2>3. CASE leases[id].ip # ip /\ a # ip
    <3>1. ipIdx'[a] = ipIdx[a] /\ a # leases[id].ip
      BY Zenon, <2>3, <1>1, <1>2 DEF UpdateLease, TablesOK, LeaseTypeOK
    <3>2. ipIdx[a] \in Rows /\ leases[ipIdx[a]].ip = a
      BY Zenon, <3>1 DEF TablesOK, IpIndexOK
    <3> QED
      BY Zenon, <3>1, <3>2, <1>1, <1>3, <1>5 DEF TablesOK, LeaseTypeOK, Rows
  <2> QED
    BY Zenon, <2>1, <2>2, <2>3
<1>8. NoOrphansAtSecondPurge'
  BY Zenon, <1>5 DEF NoOrphansAtSecondPurge, TablesOK
<1> QED
  BY Zenon, <1>4, <1>5, <1>6, <1>7, <1>8 DEF TablesOK

\* create_lease with a new row keeps the tables consistent: the row is indexed
\* and its key was in no table before.
LEMMA InsertLeaseOK ==
    ASSUME TablesOK, NEW ip \in Ips, NEW mac \in Macs,
           InsertLease(ip, mac), UNCHANGED purge
    PROVE  TablesOK' /\ Orphans' \subseteq Orphans
<1>1. PICK id \in LeaseIds :
          /\ Fresh(id)
          /\ leases' = [leases EXCEPT ![id] = new_lease(ip, mac)]
          /\ macIdx' = [macIdx EXCEPT ![mac] = id]
          /\ ipIdx' = [ipIdx EXCEPT ![ip] = id]
  BY Zenon DEF InsertLease
<1>2. macIdx[mac] \notin Rows
  BY Zenon DEF InsertLease
<1>3. macIdx[mac] = None
  BY Zenon, <1>2 DEF TablesOK, MacIndexOK
<1>4. LeaseTypeOK'
  BY Zenon, <1>1, NewLeaseType DEF TablesOK, LeaseTypeOK
<1>5. Rows' = Rows \cup {id} /\ id \notin Rows
  BY Zenon, <1>1, NewLeaseType, LeaseIsRow DEF Rows, Fresh, TablesOK, LeaseTypeOK
<1>6. Orphans' \subseteq Orphans
  <2> SUFFICES ASSUME NEW r \in Rows', \A m \in Macs : macIdx'[m] # r
               PROVE  r \in Rows /\ \A m \in Macs : macIdx[m] # r
    BY Zenon DEF Orphans, Indexed
  <2>1. r # id
    BY Zenon, <1>1 DEF TablesOK, LeaseTypeOK
  <2>2. r \in Rows /\ r # None
    BY Zenon, <2>1, <1>5, RowsAreLeases DEF TablesOK
  <2> QED
    BY Zenon, <2>2, <1>1, <1>3 DEF TablesOK, LeaseTypeOK
<1>7. MacIndexOK'
  BY Zenon, <1>1, <1>5 DEF MacIndexOK, TablesOK, LeaseTypeOK, new_lease, Fresh, Rows
<1>8. IpIndexOK'
  BY Zenon, <1>1, <1>5 DEF IpIndexOK, TablesOK, LeaseTypeOK, new_lease, Fresh, Rows
<1>9. NoOrphansAtSecondPurge'
  BY Zenon, <1>6 DEF NoOrphansAtSecondPurge, TablesOK
<1> QED
  BY Zenon, <1>4, <1>6, <1>7, <1>8, <1>9 DEF TablesOK

\* release_lease_by_mac changes the state of one row and nothing else.
LEMMA ReleaseLeaseOK ==
    ASSUME TablesOK, NEW mac \in Macs, release_lease_by_mac(mac), UNCHANGED purge
    PROVE  TablesOK' /\ Orphans' = Orphans
<1> DEFINE id == macIdx[mac]
<1>1. CASE id \notin Rows
  BY <1>1 DEF release_lease_by_mac, TablesOK, LeaseTypeOK, MacIndexOK, IpIndexOK,
              NoOrphansAtSecondPurge, Orphans, Indexed, Rows
<1>2. CASE id \in Rows
  <2>1. id \in LeaseIds /\ leases[id] \in Lease
    BY Zenon, <1>2, RowsAreLeases DEF TablesOK
  <2> DEFINE l == [leases[id] EXCEPT !.state = "Released"]
  <2>2. l \in Lease /\ l.mac = leases[id].mac /\ l.ip = leases[id].ip
    BY Zenon, <2>1 DEF Lease
  <2>3. leases' = [leases EXCEPT ![id] = l] /\ macIdx' = macIdx /\ ipIdx' = ipIdx
    BY Zenon, <1>2 DEF release_lease_by_mac
  <2> HIDE DEF l
  <2>4. LeaseTypeOK'
    BY Zenon, <2>1, <2>2, <2>3 DEF TablesOK, LeaseTypeOK
  <2>5. Rows' = Rows /\ Orphans' = Orphans
    BY <2>1, <2>2, <2>3, LeaseIsRow DEF Rows, Orphans, Indexed, TablesOK, LeaseTypeOK
  <2>6. MacIndexOK' /\ IpIndexOK'
    BY <2>1, <2>2, <2>3, <2>5 DEF MacIndexOK, IpIndexOK, TablesOK, LeaseTypeOK, Rows
  <2> QED
    BY Zenon, <2>4, <2>5, <2>6 DEF TablesOK, NoOrphansAtSecondPurge
<1> QED
  BY Zenon, <1>1, <1>2

\* The first cleanup call leaves no orphan, and no index entry to one.
LEMMA PurgeFirstOK ==
    ASSUME TablesOK, PurgeFirst
    PROVE  TablesOK' /\ Orphans' = {}
<1>1. /\ leases' = [id \in LeaseIds |-> IF id \in Orphans THEN NoRow ELSE leases[id]]
      /\ ipIdx' = [a \in Ips |-> IF ipIdx[a] \in Orphans /\ leases[ipIdx[a]].ip = a
                                 THEN None ELSE ipIdx[a]]
      /\ macIdx' = macIdx /\ purge' = "expired"
  BY Zenon DEF PurgeFirst, purge_orphaned_leases
<1>2. LeaseTypeOK'
  BY Zenon, <1>1 DEF TablesOK, LeaseTypeOK
<1>3. Rows' = Rows \ Orphans /\ \A id \in Rows' : leases'[id] = leases[id]
  BY Zenon, <1>1 DEF Rows, Orphans
<1>4. Orphans' = {}
  BY <1>1, <1>3 DEF Orphans, Indexed
<1>5. MacIndexOK'
  BY <1>1, <1>3 DEF MacIndexOK, TablesOK, Orphans, Indexed
<1>6. IpIndexOK'
  BY Zenon, <1>1, <1>3 DEF IpIndexOK, TablesOK, LeaseTypeOK
<1> QED
  BY Zenon, <1>2, <1>4, <1>5, <1>6 DEF TablesOK, NoOrphansAtSecondPurge

\* With no orphan, two rows of one client are the same row.
LEMMA NoOrphansOneRow ==
    ASSUME MacIndexOK, Orphans = {}, LeaseTypeOK
    PROVE  OneRowPerClient
<1> SUFFICES ASSUME NEW r \in Rows, NEW s \in Rows, leases[r].mac = leases[s].mac
             PROVE  r = s
  BY Zenon DEF OneRowPerClient
<1>1. PICK m \in Macs : macIdx[m] = r
  BY Zenon DEF Orphans, Indexed
<1>2. PICK n \in Macs : macIdx[n] = s
  BY Zenon DEF Orphans, Indexed
<1>3. r # None /\ s # None
  BY Zenon, RowsAreLeases
<1>4. m = leases[r].mac /\ n = leases[s].mac
  BY Zenon, <1>1, <1>2, <1>3 DEF MacIndexOK
<1> QED
  BY Zenon, <1>1, <1>2, <1>4

\* The second cleanup call removes by MAC and by address.  As no client has a
\* second row by then, what it removes is exactly what belongs to the rows.
LEMMA PurgeSecondOK ==
    ASSUME TablesOK, PurgeSecond
    PROVE  TablesOK' /\ Orphans' = {} /\ OneRowPerClient
<1>1. /\ leases' = [id \in LeaseIds |-> IF id \in Expired THEN NoRow ELSE leases[id]]
      /\ macIdx' = [m \in Macs |-> IF \E id \in Expired : leases[id].mac = m
                                   THEN None ELSE macIdx[m]]
      /\ ipIdx' = [a \in Ips |-> IF \E id \in Expired : leases[id].ip = a
                                 THEN None ELSE ipIdx[a]]
      /\ purge' = "idle" /\ purge = "expired"
  BY Zenon DEF PurgeSecond, purge_expired_leases
<1>2. Orphans = {} /\ OneRowPerClient
  BY Zenon, <1>1, NoOrphansOneRow DEF TablesOK, NoOrphansAtSecondPurge
<1>3. LeaseTypeOK'
  BY Zenon, <1>1 DEF TablesOK, LeaseTypeOK
<1>4. Rows' = Rows \ Expired /\ \A id \in Rows' : leases'[id] = leases[id]
  BY Zenon, <1>1 DEF Rows, Expired
<1>5. Orphans' = {}
  <2> SUFFICES ASSUME NEW r \in Rows' PROVE \E m \in Macs : macIdx'[m] = r
    BY Zenon DEF Orphans, Indexed
  <2>1. PICK m \in Macs : macIdx[m] = r
    BY <1>2, <1>4 DEF Orphans, Indexed
  <2>2. leases[r].mac = m /\ r \in Rows
    BY Zenon, <2>1, <1>4, RowsAreLeases DEF TablesOK, MacIndexOK
  <2>3. \A id \in Expired : leases[id].mac # m
    BY Zenon, <2>2, <1>2, <1>4 DEF OneRowPerClient, Expired
  <2> QED
    BY Zenon, <2>1, <2>3, <1>1
<1>6. MacIndexOK'
  BY <1>1, <1>4 DEF MacIndexOK, TablesOK, Expired
<1>7. IpIndexOK'
  BY <1>1, <1>4 DEF IpIndexOK, TablesOK, Expired
<1> QED
  BY Zenon, <1>1, <1>2, <1>3, <1>5, <1>6, <1>7 DEF TablesOK, NoOrphansAtSecondPurge

\* Time changes no row's client or address.
LEMMA TickOK ==
    ASSUME TablesOK, Tick
    PROVE  TablesOK' /\ Orphans' = Orphans
<1>1. /\ leases' = [id \in LeaseIds |-> IF id \in Rows THEN Aged(leases[id]) ELSE NoRow]
      /\ macIdx' = macIdx /\ ipIdx' = ipIdx /\ purge' = purge
  BY Zenon DEF Tick
<1>2. \A id \in Rows : /\ id \in LeaseIds
                       /\ Aged(leases[id]) \in Lease
                       /\ Aged(leases[id]).mac = leases[id].mac
                       /\ Aged(leases[id]).ip = leases[id].ip
  BY Zenon, RowsAreLeases, AgedType DEF TablesOK
<1>3. LeaseTypeOK'
  BY Zenon, <1>1, <1>2 DEF TablesOK, LeaseTypeOK
<1>4. Rows' = Rows /\ Orphans' = Orphans
  BY Zenon, <1>1, <1>2, LeaseIsRow DEF Rows, Orphans, Indexed
<1>5. MacIndexOK' /\ IpIndexOK'
  BY Zenon, <1>1, <1>2, <1>4 DEF MacIndexOK, IpIndexOK, TablesOK
<1> QED
  BY Zenon, <1>1, <1>3, <1>4, <1>5 DEF TablesOK, NoOrphansAtSecondPurge

\* Every operation of the lease manager keeps the tables consistent and makes
\* no row unreachable.
LEMMA TablesStep ==
    ASSUME TablesOK, [LeaseNext]_leaseVars
    PROVE  TablesOK' /\ Orphans' \subseteq Orphans
<1>1. CASE UNCHANGED leaseVars
  BY <1>1 DEF leaseVars, TablesOK, LeaseTypeOK, MacIndexOK, IpIndexOK,
              NoOrphansAtSecondPurge, Orphans, Indexed, Rows
<1>2. ASSUME NEW ip \in Ips, NEW mac \in Macs, create_lease(ip, mac), UNCHANGED purge
      PROVE  TablesOK' /\ Orphans' \subseteq Orphans
  BY Zenon, <1>2, UpdateLeaseOK, InsertLeaseOK DEF create_lease
<1>3. ASSUME NEW mac \in Macs, release_lease_by_mac(mac), UNCHANGED purge
      PROVE  TablesOK' /\ Orphans' \subseteq Orphans
  BY Zenon, <1>3, ReleaseLeaseOK
<1>4. CASE PurgeFirst
  BY Zenon, <1>4, PurgeFirstOK
<1>5. CASE PurgeSecond
  BY Zenon, <1>5, PurgeSecondOK
<1>6. CASE PurgeRestart
  BY <1>6 DEF PurgeRestart, TablesOK, LeaseTypeOK, MacIndexOK, IpIndexOK,
              NoOrphansAtSecondPurge, Orphans, Indexed, Rows
<1>7. CASE Tick
  BY Zenon, <1>7, TickOK
<1> QED
  BY Zenon, <1>1, <1>2, <1>3, <1>4, <1>5, <1>6, <1>7 DEF LeaseNext

\* No operation takes a running lease from its client.
LEMMA LiveLeaseStep ==
    ASSUME TablesOK, [LeaseNext]_leaseVars,
           NEW m \in Macs, find_lease_by_mac(m) # NoRow
    PROVE  macIdx'[m] = macIdx[m] /\ leases'[macIdx[m]] # NoRow
<1> DEFINE id == macIdx[m]
<1>1. /\ id \in Rows /\ id \in LeaseIds /\ id # None /\ leases[id] \in Lease
      /\ leases[id].mac = m /\ leases[id].left > 0
  BY Zenon, RowsAreLeases DEF find_lease_by_mac, IsActive, TablesOK, MacIndexOK
<1>2. CASE UNCHANGED leaseVars
  BY Zenon, <1>1, <1>2 DEF leaseVars, Rows
<1>3. ASSUME NEW ip \in Ips, NEW mac \in Macs, create_lease(ip, mac)
      PROVE  macIdx'[m] = id /\ leases'[id] # NoRow
  <2>1. \A r \in LeaseIds : [leases EXCEPT ![r] = new_lease(ip, mac)][id] # NoRow
    BY Zenon, <1>1, NewLeaseType, LeaseIsRow DEF TablesOK, LeaseTypeOK
  <2>2. CASE UpdateLease(ip, mac)
    BY Zenon, <2>1, <2>2, RowsAreLeases DEF UpdateLease, TablesOK
  <2>3. CASE InsertLease(ip, mac)
    BY Zenon, <2>1, <2>3, <1>1 DEF InsertLease, TablesOK, LeaseTypeOK
  <2> QED
    BY Zenon, <1>3, <2>2, <2>3 DEF create_lease
<1>4. ASSUME NEW mac \in Macs, release_lease_by_mac(mac)
      PROVE  macIdx'[m] = id /\ leases'[id] # NoRow
  <2>1. CASE macIdx[mac] \notin Rows
    BY Zenon, <2>1, <1>1, <1>4 DEF release_lease_by_mac, Rows
  <2>2. CASE macIdx[mac] \in Rows
    <3>1. leases[macIdx[mac]] \in Lease /\ macIdx[mac] \in LeaseIds
      BY Zenon, <2>2, RowsAreLeases DEF TablesOK
    <3>2. [leases[macIdx[mac]] EXCEPT !.state = "Released"] \in Lease
      BY Zenon, <3>1 DEF Lease
    <3> QED
      BY Zenon, <2>2, <3>1, <3>2, <1>1, <1>4, LeaseIsRow
         DEF release_lease_by_mac, TablesOK, LeaseTypeOK
  <2> QED
    BY Zenon, <2>1, <2>2
<1>5. CASE PurgeFirst
  BY Zenon, <1>1, <1>5 DEF PurgeFirst, purge_orphaned_leases, Orphans, Indexed, Rows
<1>6. CASE PurgeSecond
  <2>1. OneRowPerClient
    BY Zenon, <1>6, PurgeSecondOK
  <2>2. id \notin Expired
    BY <1>1, TimeAssumption DEF Expired, Lease
  <2>3. \A r \in Expired : leases[r].mac # m
    BY Zenon, <2>1, <2>2, <1>1 DEF OneRowPerClient, Expired
  <2> QED
    BY Zenon, <2>2, <2>3, <1>1, <1>6 DEF PurgeSecond, purge_expired_leases, Rows
<1>7. CASE PurgeRestart
  BY Zenon, <1>1, <1>7 DEF PurgeRestart, Rows
<1>8. CASE Tick
  BY Zenon, <1>1, <1>8, AgedType, LeaseIsRow DEF Tick
<1> QED
  BY Zenon, <1>2, <1>3, <1>4, <1>5, <1>6, <1>7, <1>8 DEF LeaseNext

\* The empty tables are consistent.
LEMMA TablesInit ==
    ASSUME LeaseInit
    PROVE  TablesOK /\ Orphans = {}
BY Zenon DEF LeaseInit, TablesOK, LeaseTypeOK, MacIndexOK, IpIndexOK, NoOrphansAtSecondPurge,
       Orphans, Rows

\* The lease tables stay consistent whatever the server, the cleanup task,
\* crashes and the clock do: both indexes lead to rows of their client and
\* their address, and no client has two rows.
THEOREM TablesConsistent == LeaseSpec => []TablesAgree
<1> DEFINE IInv == TablesOK /\ Orphans = {}
<1>1. LeaseInit => IInv
  BY Zenon, TablesInit
<1>2. IInv /\ [LeaseNext]_leaseVars => IInv'
  BY Zenon, TablesStep
<1>3. IInv => TablesAgree
  BY Zenon, NoOrphansOneRow DEF TablesOK, TablesAgree
<1> HIDE DEF IInv
<1> QED
  BY <1>1, <1>2, <1>3, PTL DEF LeaseSpec

\* A running lease is never purged, from consistent tables on, orphans of an
\* earlier release included.
THEOREM LiveLeasesKept ==
    TablesOK /\ [][LeaseNext]_leaseVars => LiveLeaseNeverPurged
<1>1. TablesOK /\ [LeaseNext]_leaseVars => TablesOK'
  BY Zenon, TablesStep
<1>2. TablesOK /\ [LeaseNext]_leaseVars =>
        [\A m \in Macs : find_lease_by_mac(m) # NoRow =>
            macIdx'[m] = macIdx[m] /\ leases'[macIdx[m]] # NoRow]_leaseVars
  BY Zenon, LiveLeaseStep
<1> QED
  BY <1>1, <1>2, PTL DEF LiveLeaseNeverPurged

\* No operation makes a row unreachable from the MAC index.
THEOREM OrphansOnlyShrink ==
    TablesOK /\ [][LeaseNext]_leaseVars => NoNewOrphans
<1>1. TablesOK /\ [LeaseNext]_leaseVars => TablesOK' /\ [Orphans' \subseteq Orphans]_leaseVars
  BY Zenon, TablesStep
<1> QED
  BY <1>1, PTL DEF NoNewOrphans

-----------------------------------------------------------------------------
(* The server. *)

\* Rebuilding or marking leaves every allocated address inside its pool.
LEMMA MarkType ==
    ASSUME NEW ps \in SUBSET PoolIds, NEW alloc \in [PoolIds -> SUBSET Ips],
           \A p \in PoolIds : \A a \in alloc[p] : contains(p, a),
           NEW marked \in SUBSET Ips
    PROVE  /\ mark_allocated(ps, alloc, marked) \in [PoolIds -> SUBSET Ips]
           /\ \A p \in PoolIds : \A a \in mark_allocated(ps, alloc, marked)[p] : contains(p, a)
BY Zenon DEF mark_allocated

\* What list_active_leases and the reservations name are addresses.
LEMMA MarkedAddresses ==
    ASSUME TypeOK
    PROVE  {l.ip : l \in list_active_leases} \cup Reserved \subseteq Ips
<1>1. \A id \in Rows : leases[id].ip \in Ips
  BY Zenon, RowsAreLeases DEF TypeOK, Lease
<1> QED
  BY <1>1 DEF list_active_leases, Reserved, TypeOK

\* What a step of the server, of its clients or of the API does to the lease
\* tables is an operation of LeaseManager, or nothing.
LEMMA StepIsLeaseStep ==
    ASSUME TypeOK, [Next]_vars
    PROVE  [LeaseNext]_leaseVars
<1>1. ASSUME NEW m \in Macs, NEW a, NEW heard, handle_discover(m, a, heard)
      PROVE  UNCHANGED leaseVars
  BY <1>1, Zenon DEF handle_discover, OfferReserved, OfferExisting, OfferRequested, OfferNext,
              Offered, leaseVars
<1>2. ASSUME NEW m, NEW a, NEW heard, NakReservation(m, a, heard) \/ NakNoPool(heard)
      PROVE  UNCHANGED leaseVars
  BY Zenon, <1>2 DEF NakReservation, NakNoPool, Nak, leaseVars
<1>3. ASSUME NEW m \in Macs, NEW a, ValidateRequest(m, a)
      PROVE  UNCHANGED leaseVars
  BY Zenon, <1>3 DEF ValidateRequest, leaseVars
<1>4. ASSUME NEW heard, AckRequest(heard)
      PROVE  LeaseNext
  <2>1. pending.ip \in Ips /\ pending.mac \in Macs
    BY Zenon, <1>4 DEF AckRequest, TypeOK
  <2> QED
    BY Zenon, <2>1, <1>4 DEF AckRequest, LeaseNext
<1>5. ASSUME NEW m \in Macs, handle_release(m)
      PROVE  LeaseNext
  BY Zenon, <1>5 DEF handle_release, LeaseNext
<1>6. CASE handle_packet
  BY Zenon, <1>1, <1>2, <1>3, <1>4, <1>5, <1>6 DEF handle_packet
<1>7. CASE sync_pool
  BY Zenon, <1>7 DEF sync_pool, leaseVars
<1>8. CASE Restart \/ Cleanup \/ Time
  BY Zenon, <1>8 DEF Restart, Cleanup, Time, LeaseNext
<1>9. CASE Api
  BY <1>9, Zenon DEF Api, ApiPool, ApiReserve, ApiUnreserve, leaseVars
<1>10. CASE UNCHANGED vars
  BY Zenon, <1>10 DEF vars, leaseVars
<1> QED
  BY Zenon, <1>6, <1>7, <1>8, <1>9, <1>10 DEF Next

\* The part of TypeOK about the server's own variables.
ServerTypeOK ==
    /\ dbPools \subseteq PoolIds /\ pools \subseteq PoolIds
    /\ reservations \in [Macs -> Ips \cup {None}]
    /\ allocated \in [PoolIds -> SUBSET Ips]
    /\ \A p \in PoolIds : \A a \in allocated[p] : contains(p, a)
    /\ pending \in [mac : Macs, ip : Ips] \cup {None}
    /\ offer \in [Macs -> Ips \cup {None}]
    /\ bound \in [Macs -> Ips \cup {None}]

\* DISCOVER marks addresses inside the pool they are marked in, and offers one.
LEMMA DiscoverTypes ==
    ASSUME TypeOK, NEW m \in Macs, NEW a \in Ips \cup {None}, NEW heard \in BOOLEAN,
           handle_discover(m, a, heard)
    PROVE  ServerTypeOK'
<1>1. ASSUME NEW ip \in Ips, Offered(m, ip, heard),
             allocated' \in [PoolIds -> SUBSET Ips],
             \A p \in PoolIds : \A b \in allocated'[p] : contains(p, b)
      PROVE  ServerTypeOK'
  BY Zenon, <1>1 DEF Offered, TypeOK, ServerTypeOK
<1>2. ASSUME NEW p \in PoolIds, NEW ip \in Free(p),
             allocated' = [allocated EXCEPT ![p] = @ \cup {ip}]
      PROVE  /\ ip \in Ips
             /\ allocated' \in [PoolIds -> SUBSET Ips]
             /\ \A q \in PoolIds : \A b \in allocated'[q] : contains(q, b)
  BY Zenon, <1>2 DEF Free, TypeOK
<1>3. CASE OfferReserved(m, heard)
  <2>1. reservations[m] \in Ips
    BY Zenon, <1>3 DEF OfferReserved, TypeOK
  <2>2. /\ allocated' \in [PoolIds -> SUBSET Ips]
        /\ \A p \in PoolIds : \A b \in allocated'[p] : contains(p, b)
    BY Zenon, <1>3, <2>1 DEF OfferReserved, TypeOK, mark_allocated
  <2> QED
    BY Zenon, <1>1, <1>3, <2>1, <2>2 DEF OfferReserved
<1>4. CASE OfferExisting(m, heard)
  <2>1. find_lease_by_mac(m).ip \in Ips
    BY Zenon, <1>4, RowsAreLeases DEF OfferExisting, find_lease_by_mac, TypeOK, Lease
  <2> QED
    BY Zenon, <1>1, <1>4, <2>1 DEF OfferExisting, TypeOK
<1>5. CASE OfferRequested(m, a, heard)
  <2>1. PICK p \in Lowest({q \in pools : a \in Free(q)}) :
            allocated' = [allocated EXCEPT ![p] = @ \cup {a}]
    BY <1>5, Zenon DEF OfferRequested
  <2>2. p \in PoolIds /\ a \in Free(p)
    BY Zenon, <2>1 DEF Lowest, TypeOK
  <2> QED
    BY <1>1, <1>2, <1>5, <2>1, <2>2, Zenon DEF OfferRequested
<1>6. CASE OfferNext(m, a, heard)
  <2>1. PICK p \in Lowest({q \in pools : Free(q) # {}}) : \E ip \in Lowest(Free(p)) :
            /\ allocated' = [allocated EXCEPT ![p] = @ \cup {ip}]
            /\ Offered(m, ip, heard)
    BY <1>6, Zenon DEF OfferNext
  <2>2. p \in PoolIds
    BY Zenon, <2>1 DEF Lowest, TypeOK
  <2> QED
    BY <1>1, <1>2, <2>1, <2>2, Zenon DEF Lowest
<1> QED
  BY Zenon, <1>3, <1>4, <1>5, <1>6 DEF handle_discover

\* Every step of the server keeps its variables in their types.
LEMMA ServerTypeStep ==
    ASSUME TypeOK, [Next]_vars
    PROVE  ServerTypeOK'
<1> USE DEF TypeOK, ServerTypeOK
<1>1. ASSUME NEW m \in Macs, NEW heard \in BOOLEAN, NEW a \in {None, bound[m]},
             handle_discover(m, a, heard)
      PROVE  ServerTypeOK'
  BY Zenon, <1>1, DiscoverTypes
<1>2. ASSUME NEW m \in Macs, NEW heard \in BOOLEAN, Nak(m, heard)
      PROVE  ServerTypeOK'
  BY Zenon, <1>2 DEF Nak
<1>3. ASSUME NEW m \in Macs, NEW a \in Requestable(m), ValidateRequest(m, a)
      PROVE  ServerTypeOK'
  BY Zenon, <1>3 DEF ValidateRequest, Requestable
<1>4. ASSUME NEW heard \in BOOLEAN, AckRequest(heard)
      PROVE  ServerTypeOK'
  BY Zenon, <1>4 DEF AckRequest
<1>5. ASSUME NEW m \in Macs, handle_release(m)
      PROVE  ServerTypeOK'
  BY Zenon, <1>5 DEF handle_release
<1>6. CASE handle_packet
  <2>1. ASSUME NEW heard \in BOOLEAN, NakNoPool(heard)
        PROVE  ServerTypeOK'
    BY Zenon, <2>1, <1>2 DEF NakNoPool
  <2>2. ASSUME NEW m \in Macs, NEW heard \in BOOLEAN, NEW a, NakReservation(m, a, heard)
        PROVE  ServerTypeOK'
    BY Zenon, <2>2, <1>2 DEF NakReservation
  <2> QED
    BY Zenon, <1>1, <1>3, <1>4, <1>5, <1>6, <2>1, <2>2 DEF handle_packet
<1>7. ASSUME RebuildPools
      PROVE  /\ pools' \subseteq PoolIds
             /\ allocated' \in [PoolIds -> SUBSET Ips]
             /\ \A p \in PoolIds : \A a \in allocated'[p] : contains(p, a)
  <2> DEFINE none == [p \in PoolIds |-> {}]
  <2>1. none \in [PoolIds -> SUBSET Ips] /\ \A p \in PoolIds : \A a \in none[p] : contains(p, a)
    BY Zenon
  <2> QED
    BY <1>7, <2>1, MarkType, MarkedAddresses, Zenon DEF RebuildPools
<1>8. CASE sync_pool
  BY Zenon, <1>7, <1>8 DEF sync_pool
<1>9. CASE Restart
  BY Zenon, <1>7, <1>9 DEF Restart
<1>10. CASE Cleanup \/ Time
  BY Zenon, <1>10 DEF Cleanup, Time, others
<1>11. CASE Api
  BY <1>11, PoolAssumption, Zenon DEF Api, ApiPool, ApiReserve, ApiUnreserve
<1>12. CASE UNCHANGED vars
  BY Zenon, <1>12 DEF vars
<1> QED
  BY Zenon, <1>6, <1>8, <1>9, <1>10, <1>11, <1>12 DEF Next

\* Both starting states, an empty database and one an earlier release wrote,
\* are well typed and their tables consistent.
LEMMA Starts ==
    ASSUME Init \/ LegacyStart
    PROVE  TypeOK /\ TablesOK
<1>1. CASE Init
  BY Zenon, <1>1, TablesInit DEF Init, TypeOK, TablesOK
<1>2. CASE LegacyStart
  <2>1. PICK m \in Macs, a \in Ips, old, new \in LeaseIds :
            old # new /\ LegacyInit(m, a, old, new)
    BY Zenon, <1>2 DEF LegacyStart
  <2>2. PICK ol \in (-Retention - 1)..LeaseTime, nl \in 1..LeaseTime :
            leases = [id \in LeaseIds |->
                        CASE id = old -> [new_lease(a, m) EXCEPT !.left = ol]
                          [] id = new -> [new_lease(a, m) EXCEPT !.left = nl]
                          [] OTHER -> NoRow]
    BY Zenon, <2>1 DEF LegacyInit
  <2> DEFINE lo1 == [new_lease(a, m) EXCEPT !.left = ol]
             ln1 == [new_lease(a, m) EXCEPT !.left = nl]
  <2>3. lo1 \in Lease /\ ln1 \in Lease /\ ln1.mac = m /\ ln1.ip = a
    BY TimeAssumption DEF new_lease, Lease
  <2>4. leases[new] = ln1 /\ leases[old] = lo1 /\ leases \in [LeaseIds -> Lease \cup {NoRow}]
    BY Zenon, <2>1, <2>2, <2>3
  <2> HIDE DEF lo1, ln1
  <2>5. macIdx = [x \in Macs |-> IF x = m THEN new ELSE None]
        /\ ipIdx = [x \in Ips |-> IF x = a THEN new ELSE None] /\ purge = "idle"
    BY Zenon, <2>1 DEF LegacyInit
  <2>6. TablesOK
    BY Zenon, <2>3, <2>4, <2>5, LeaseIsRow, NoneAssumption
       DEF TablesOK, LeaseTypeOK, MacIndexOK, IpIndexOK, NoOrphansAtSecondPurge, Rows
  <2>7. {l.ip : l \in list_active_leases} \subseteq Ips
    BY <2>6, RowsAreLeases DEF TablesOK, list_active_leases, Lease
  <2> DEFINE none == [p \in PoolIds |-> {}]
  <2>8. none \in [PoolIds -> SUBSET Ips] /\ \A p \in PoolIds : \A b \in none[p] : contains(p, b)
    BY Zenon
  <2>9. /\ allocated \in [PoolIds -> SUBSET Ips]
        /\ \A p \in PoolIds : \A b \in allocated[p] : contains(p, b)
    BY <1>2, <2>7, <2>8, MarkType, Zenon DEF LegacyStart
  <2> QED
    BY <1>2, <2>6, <2>9, Zenon DEF LegacyStart, TypeOK, TablesOK
<1> QED
  BY Zenon, <1>1, <1>2

\* The invariant of the whole server: typed, with consistent tables.
LEMMA ServerStep ==
    ASSUME TypeOK, TablesOK, [Next]_vars
    PROVE  TypeOK' /\ TablesOK'
<1>1. TablesOK'
  BY Zenon, StepIsLeaseStep, TablesStep
<1> QED
  BY Zenon, <1>1, ServerTypeStep DEF TypeOK, TablesOK, ServerTypeOK

\* The DHCPv4 server keeps every variable in its type, whatever clients, the
\* API, crashes and the clock do; allocated stays inside the pool's range.
THEOREM TypeCorrect == Spec => []TypeOK
<1>1. Init => TypeOK /\ TablesOK
  BY Zenon, Starts
<1>2. TypeOK /\ TablesOK /\ [Next]_vars => (TypeOK /\ TablesOK)'
  BY Zenon, ServerStep
<1> QED
  BY <1>1, <1>2, PTL DEF Spec

\* The server implements the lease tables' own specification: all it does to
\* them, crashes included, is what LeaseManager's operations do.
THEOREM ImplementsLeaseManager == Spec => LeaseSpec
<1>1. Init => LeaseInit
  BY Zenon DEF Init
<1>2. TypeOK /\ [Next]_vars => [LeaseNext]_leaseVars
  BY Zenon, StepIsLeaseStep
<1> QED
  BY <1>1, <1>2, TypeCorrect, PTL DEF Spec, LeaseSpec

\* In every behaviour of the server the two indexes agree with the lease table
\* and a client has at most one row.
THEOREM ServerTables == Spec => []TablesAgree
BY ImplementsLeaseManager, TablesConsistent, PTL

\* On a database an earlier release filled with duplicate rows, no running
\* lease is ever taken from its client by the cleanup, and the expired-rows
\* call never meets an orphan.
THEOREM UpgradeKeepsLeases ==
    LegacySpec => LiveLeaseNeverPurged /\ []NoOrphansAtSecondPurge
<1>1. LegacyStart => TypeOK /\ TablesOK
  BY Zenon, Starts
<1>2. TypeOK /\ TablesOK /\ [Next]_vars => (TypeOK /\ TablesOK)'
  BY Zenon, ServerStep
<1>3. TypeOK /\ TablesOK /\ [Next]_vars => [LeaseNext]_leaseVars
  BY Zenon, StepIsLeaseStep
<1>4. TablesOK => NoOrphansAtSecondPurge
  BY Zenon DEF TablesOK
<1> QED
  BY <1>1, <1>2, <1>3, <1>4, LiveLeasesKept, PTL DEF LegacySpec

-----------------------------------------------------------------------------
(* No two clients hold one address while the pools are rebuilt only in     *)
(* settled states.  OneHolder is not inductive: a lease comes from a       *)
(* request, which comes from an offer, so the invariant is about every     *)
(* address a client may come to hold, its claims.  Claims of two clients   *)
(* are disjoint because each is marked in the pool it was taken from.      *)

PoolsDisjoint ==
    \A p, q \in PoolIds : \A a \in Ips : contains(p, a) /\ contains(q, a) => p = q

LeasedTo(m) == {a \in Ips : \E r \in Rows :
                    IsActive(leases[r]) /\ leases[r].mac = m /\ leases[r].ip = a}

PendingOf(m) == {a \in Ips : pending # None /\ pending.mac = m /\ pending.ip = a}

Claims(m) == Requestable(m) \cup PendingOf(m) \cup LeasedTo(m)

Marked(a) == \E p \in PoolIds : contains(p, a) /\ a \in allocated[p]

KeptApart ==
    /\ dbPools = PoolIds /\ pools = PoolIds
    /\ reservations = [m \in Macs |-> None]
    /\ \A m \in Macs : \A a \in Claims(m) : Marked(a)
    /\ \A m, n \in Macs : m # n => Claims(m) \cap Claims(n) = {}

\* Claims are addresses.
LEMMA ClaimsAreIps == ASSUME TypeOK, NEW m \in Macs PROVE Claims(m) \subseteq Ips
BY Zenon DEF Claims, Requestable, PendingOf, LeasedTo, TypeOK

\* A step after which every client claims at most what it did, and which
\* unmarks nothing, keeps clients apart.
LEMMA ApartIfShrinking ==
    ASSUME KeptApart, UNCHANGED <<dbPools, reservations, pools>>,
           \A p \in PoolIds : allocated[p] \subseteq allocated'[p],
           \A m \in Macs : Claims(m)' \subseteq Claims(m)
    PROVE  KeptApart'
<1>1. \A a : Marked(a) => Marked(a)'
  BY Zenon DEF Marked
<1> HIDE DEF Marked, Claims
<1> QED
  BY Zenon, <1>1 DEF KeptApart

\* A client may be offered an address that was free.
LEMMA FreeIsUnclaimed ==
    ASSUME PoolsDisjoint, TypeOK, KeptApart, NEW p \in PoolIds, NEW a \in Free(p), NEW m \in Macs
    PROVE  a \notin Claims(m)
BY Zenon DEF KeptApart, Marked, PoolsDisjoint, Free

\* The server and its clients keep clients apart in a DISCOVER.
LEMMA DiscoverApart ==
    ASSUME PoolsDisjoint, TypeOK, TablesOK, KeptApart,
           NEW m \in Macs, NEW s, NEW heard \in BOOLEAN, handle_discover(m, s, heard)
    PROVE  KeptApart'
<1>1. UNCHANGED <<leases, macIdx, dbPools, reservations, pools, pending, bound>>
  BY Zenon DEF handle_discover, OfferReserved, OfferExisting, OfferRequested, OfferNext, Offered
<1>2. ASSUME NEW a \in Ips, Offered(m, a, heard)
      PROVE  /\ \A n \in Macs : n # m => Claims(n)' = Claims(n)
             /\ Claims(m)' \subseteq Claims(m) \cup {a}
  <2>1. \A n \in Macs : PendingOf(n)' = PendingOf(n) /\ LeasedTo(n)' = LeasedTo(n)
    BY Zenon, <1>1 DEF PendingOf, LeasedTo, Rows
  <2>2. /\ \A n \in Macs : n # m => Requestable(n)' = Requestable(n)
        /\ Requestable(m)' \subseteq Requestable(m) \cup {a}
    BY Zenon, <1>1, <1>2 DEF Offered, Requestable, TypeOK
  <2> QED
    BY Zenon, <2>1, <2>2 DEF Claims
<1>3. ASSUME NEW p \in PoolIds, NEW a \in Free(p), Offered(m, a, heard),
             allocated' = [allocated EXCEPT ![p] = @ \cup {a}]
      PROVE  KeptApart'
  <2>1. a \in Ips /\ contains(p, a)
    BY Zenon DEF Free
  <2>2. Marked(a)' /\ \A b : Marked(b) => Marked(b)'
    BY Zenon, <1>3, <2>1 DEF Marked, TypeOK
  <2>3. \A n \in Macs : a \notin Claims(n)
    BY Zenon, FreeIsUnclaimed
  <2> HIDE DEF Marked, Claims
  <2> QED
    BY <1>1, <1>2, <1>3, <2>1, <2>2, <2>3 DEF KeptApart
<1>4. CASE OfferReserved(m, heard)
  BY Zenon, <1>4 DEF OfferReserved, KeptApart
<1>5. CASE OfferExisting(m, heard)
  <2> DEFINE a == find_lease_by_mac(m).ip
  <2>1. a \in Ips /\ a \in Claims(m)
    BY Zenon, <1>5, RowsAreLeases
       DEF OfferExisting, find_lease_by_mac, TypeOK, TablesOK, MacIndexOK, Lease, Claims, LeasedTo
  <2>2. \A n \in Macs : Claims(n)' \subseteq Claims(n)
    BY Zenon, <1>2, <1>5, <2>1 DEF OfferExisting
  <2> QED
    BY Zenon, <1>1, <1>5, <2>2, ApartIfShrinking DEF OfferExisting
<1>6. CASE OfferRequested(m, s, heard)
  <2>1. PICK p \in Lowest({q \in pools : s \in Free(q)}) :
            allocated' = [allocated EXCEPT ![p] = @ \cup {s}]
    BY <1>6, Zenon DEF OfferRequested
  <2>2. p \in PoolIds /\ s \in Free(p)
    BY Zenon, <2>1 DEF Lowest, TypeOK
  <2> QED
    BY <1>3, <1>6, <2>1, <2>2, Zenon DEF OfferRequested
<1>7. CASE OfferNext(m, s, heard)
  <2>1. PICK p \in Lowest({q \in pools : Free(q) # {}}) : \E ip \in Lowest(Free(p)) :
            /\ allocated' = [allocated EXCEPT ![p] = @ \cup {ip}]
            /\ Offered(m, ip, heard)
    BY <1>7, Zenon DEF OfferNext
  <2>2. p \in PoolIds
    BY Zenon, <2>1 DEF Lowest, TypeOK
  <2> QED
    BY <1>3, <2>1, <2>2, Zenon DEF Lowest
<1> QED
  BY Zenon, <1>4, <1>5, <1>6, <1>7 DEF handle_discover

\* Handling a REQUEST turns an offer into a request and a request into a
\* lease, or drops them: no client claims more than before.
LEMMA RequestApart ==
    ASSUME TypeOK, TablesOK, KeptApart,
           \/ \E m \in Macs, heard \in BOOLEAN : \E a \in Requestable(m) : NakReservation(m, a, heard)
           \/ \E m \in Macs : \E a \in Requestable(m) : ValidateRequest(m, a)
           \/ \E heard \in BOOLEAN : NakNoPool(heard)
           \/ \E heard \in BOOLEAN : AckRequest(heard)
    PROVE  KeptApart'
<1>1. ASSUME NEW m \in Macs, NEW heard \in BOOLEAN, Nak(m, heard)
      PROVE  KeptApart'
  <2>1. \A n \in Macs : /\ LeasedTo(n)' = LeasedTo(n) /\ PendingOf(n)' = {}
                        /\ Requestable(n)' \subseteq Requestable(n)
    BY <1>1, Zenon DEF Nak, LeasedTo, PendingOf, Requestable, Rows, TypeOK
  <2>2. \A n \in Macs : Claims(n)' \subseteq Claims(n)
    BY Zenon, <2>1 DEF Claims
  <2> QED
    BY Zenon, <1>1, <2>2, ApartIfShrinking DEF Nak
<1>2. ASSUME NEW m \in Macs, NEW a \in Requestable(m), ValidateRequest(m, a)
      PROVE  KeptApart'
  <2>1. \A n \in Macs : /\ LeasedTo(n)' = LeasedTo(n) /\ Requestable(n)' = Requestable(n)
                        /\ PendingOf(n)' \subseteq Requestable(n)
    BY Zenon, <1>2 DEF ValidateRequest, LeasedTo, PendingOf, Requestable, Rows, TypeOK
  <2>2. \A n \in Macs : Claims(n)' \subseteq Claims(n)
    BY Zenon, <2>1 DEF Claims
  <2> QED
    BY <1>2, <2>2, ApartIfShrinking, Zenon DEF ValidateRequest
<1>3. ASSUME NEW heard \in BOOLEAN, AckRequest(heard)
      PROVE  KeptApart'
  <2> DEFINE m == pending.mac
             a == pending.ip
  <2>1. m \in Macs /\ a \in Ips /\ a \in PendingOf(m)
    BY <1>3, Zenon DEF AckRequest, TypeOK, PendingOf
  <2>2. PICK id \in LeaseIds : /\ leases' = [leases EXCEPT ![id] = new_lease(a, m)]
                               /\ \A r \in Rows : r = id => leases[r].mac = m
    <3>1. create_lease(a, m)
      BY Zenon, <1>3 DEF AckRequest
    <3>2. CASE UpdateLease(a, m)
      BY <2>1, <3>2, RowsAreLeases, NoneAssumption, Zenon DEF UpdateLease, TablesOK, MacIndexOK
    <3>3. CASE InsertLease(a, m)
      BY <3>3, Zenon DEF InsertLease, Fresh, Rows
    <3> QED
      BY Zenon, <3>1, <3>2, <3>3 DEF create_lease
  <2>3. \A n \in Macs : LeasedTo(n)' \subseteq LeasedTo(n) \cup (IF n = m THEN {a} ELSE {})
    <3> SUFFICES ASSUME NEW n \in Macs, NEW b \in Ips, NEW r \in Rows',
                        IsActive(leases'[r]), leases'[r].mac = n, leases'[r].ip = b
                 PROVE  b \in LeasedTo(n) \cup (IF n = m THEN {a} ELSE {})
      BY Zenon DEF LeasedTo, IsActive
    <3>1. CASE r = id
      BY <2>2, <3>1, Zenon DEF new_lease, TypeOK, LeaseTypeOK
    <3>2. CASE r # id
      BY Zenon, <2>2, <3>2 DEF LeasedTo, Rows, TypeOK, LeaseTypeOK
    <3> QED
      BY Zenon, <3>1, <3>2
  <2>4. \A n \in Macs : /\ PendingOf(n)' = {}
                        /\ Requestable(n)' \subseteq Requestable(n) \cup (IF n = m THEN {a} ELSE {})
    BY Zenon, <1>3, <2>1 DEF AckRequest, PendingOf, Requestable, TypeOK
  <2>5. \A n \in Macs : Claims(n)' \subseteq Claims(n)
    BY Zenon, <2>1, <2>3, <2>4 DEF Claims
  <2> QED
    BY <1>3, <2>5, ApartIfShrinking, Zenon DEF AckRequest
<1>4. ASSUME NEW heard \in BOOLEAN, NakNoPool(heard)
      PROVE  KeptApart'
  BY Zenon, <1>1, <1>4 DEF NakNoPool, TypeOK
<1> QED
  BY Zenon, <1>1, <1>2, <1>3, <1>4 DEF NakReservation

\* After its RELEASE a client claims nothing, so the address it gives back is
\* nobody's: the others' claims stay marked.
LEMMA ReleaseApart ==
    ASSUME TypeOK, TablesOK, Orphans = {}, KeptApart, NEW m \in Macs, handle_release(m)
    PROVE  KeptApart'
<1>1. /\ pending = None /\ pending' = None /\ bound[m] # None
      /\ allocated' = [p \in PoolIds |-> allocated[p] \ {bound[m]}]
      /\ UNCHANGED <<dbPools, reservations, pools, macIdx>>
  BY Zenon DEF handle_release, KeptApart, release_lease_by_mac
<1>2. \A r \in Rows' : /\ r \in Rows /\ leases'[r].mac = leases[r].mac
                       /\ leases'[r].ip = leases[r].ip
                       /\ IsActive(leases'[r]) => leases'[r] = leases[r] /\ macIdx[m] # r
  <2>1. CASE macIdx[m] \in Rows
    <3>1. leases[macIdx[m]] \in Lease /\ macIdx[m] \in LeaseIds
      BY Zenon, <2>1, RowsAreLeases DEF TablesOK
    <3> DEFINE l == [leases[macIdx[m]] EXCEPT !.state = "Released"]
    <3>2. l.mac = leases[macIdx[m]].mac /\ l.ip = leases[macIdx[m]].ip /\ ~IsActive(l)
      BY Zenon, <3>1 DEF Lease, IsActive
    <3>3. leases' = [leases EXCEPT ![macIdx[m]] = l]
      BY Zenon, <2>1 DEF handle_release, release_lease_by_mac
    <3> HIDE DEF l
    <3> QED
      BY Zenon, <2>1, <3>1, <3>2, <3>3 DEF Rows, TypeOK, LeaseTypeOK
  <2>2. CASE macIdx[m] \notin Rows
    BY Zenon, <2>2 DEF handle_release, release_lease_by_mac, Rows
  <2> QED
    BY Zenon, <2>1, <2>2
<1>3. LeasedTo(m)' = {}
  <2> SUFFICES ASSUME NEW r \in Rows', IsActive(leases'[r]), leases'[r].mac = m
               PROVE  FALSE
    BY Zenon DEF LeasedTo, IsActive
  <2>1. r \in Rows /\ leases[r].mac = m /\ macIdx[m] # r
    BY Zenon, <1>2
  <2>2. PICK n \in Macs : macIdx[n] = r
    BY Zenon, <2>1 DEF Orphans, Indexed
  <2>3. leases[r].mac = n
    BY Zenon, <2>1, <2>2, RowsAreLeases DEF TablesOK, MacIndexOK
  <2> QED
    BY Zenon, <2>1, <2>2, <2>3
<1>4. \A n \in Macs : LeasedTo(n)' \subseteq LeasedTo(n)
  BY Zenon, <1>2 DEF LeasedTo, IsActive
<1>5. /\ Requestable(m)' = {} /\ \A n \in Macs : Requestable(n)' \subseteq Requestable(n)
      /\ \A n \in Macs : PendingOf(n)' = {}
  BY Zenon, <1>1 DEF handle_release, Requestable, PendingOf, TypeOK
<1>6. Claims(m)' = {} /\ \A n \in Macs : Claims(n)' \subseteq Claims(n)
  BY Zenon, <1>3, <1>4, <1>5 DEF Claims
<1>7. bound[m] \in Claims(m)
  BY Zenon, <1>1 DEF Claims, Requestable
<1>8. \A a : a # bound[m] /\ Marked(a) => Marked(a)'
  BY Zenon, <1>1 DEF Marked
<1> HIDE DEF Claims, Marked
<1>9. \A n \in Macs : \A a \in Claims(n)' : Marked(a)'
  BY Zenon, <1>6, <1>7, <1>8 DEF KeptApart
<1> QED
  BY Zenon, <1>1, <1>6, <1>9 DEF KeptApart

\* Rebuilding the pools in a settled state marks every claim: each is leased.
LEMMA RebuildApart ==
    ASSUME TypeOK, TablesOK, KeptApart, Settled, sync_pool \/ Restart
    PROVE  KeptApart'
<1>1. /\ UNCHANGED <<leases, macIdx, dbPools, reservations, offer, bound>>
      /\ pending' = None /\ pools' = PoolIds
      /\ allocated' = mark_allocated(PoolIds, [p \in PoolIds |-> {}],
                                     {l.ip : l \in list_active_leases} \cup Reserved)
  BY Zenon DEF sync_pool, Restart, PurgeRestart, RebuildPools, KeptApart
<1>2. \A n \in Macs : Claims(n)' \subseteq LeasedTo(n) /\ Claims(n)' \subseteq Claims(n)
  <2>1. \A n \in Macs : Requestable(n)' = Requestable(n) /\ LeasedTo(n)' = LeasedTo(n)
                        /\ PendingOf(n)' = {}
    BY Zenon, <1>1 DEF Requestable, LeasedTo, PendingOf, Rows
  <2>2. \A n \in Macs : Requestable(n) \subseteq LeasedTo(n)
    <3> SUFFICES ASSUME NEW n \in Macs, NEW a \in Requestable(n)
                 PROVE  a \in LeasedTo(n)
      BY Zenon
    <3>1. find_lease_by_mac(n) # NoRow /\ find_lease_by_mac(n).ip = a
      BY Zenon DEF Settled
    <3> QED
      BY Zenon, <3>1, RowsAreLeases
         DEF find_lease_by_mac, TypeOK, TablesOK, MacIndexOK, LeasedTo, Lease
  <2> QED
    BY Zenon, <2>1, <2>2 DEF Claims
<1>3. \A n \in Macs : \A a \in LeasedTo(n) : Marked(a) => Marked(a)'
  <2> SUFFICES ASSUME NEW n \in Macs, NEW a \in LeasedTo(n), NEW p \in PoolIds, contains(p, a)
               PROVE  a \in allocated'[p]
    BY Zenon DEF Marked
  <2>1. a \in {l.ip : l \in list_active_leases}
    BY Zenon DEF LeasedTo, list_active_leases
  <2> QED
    BY Zenon, <1>1, <2>1 DEF mark_allocated
<1> HIDE DEF Claims, Marked
<1>4. \A n \in Macs : \A a \in Claims(n)' : Marked(a)'
  BY Zenon, <1>2, <1>3 DEF KeptApart
<1> QED
  BY Zenon, <1>1, <1>2, <1>4 DEF KeptApart

\* The cleanup and the clock only take leases away.
LEMMA BackgroundApart ==
    ASSUME TypeOK, KeptApart, Cleanup \/ Time
    PROVE  KeptApart'
<1>1. UNCHANGED others
  BY Zenon DEF Cleanup, Time
<1>2. \A r \in Rows' : /\ r \in Rows /\ leases'[r].mac = leases[r].mac
                       /\ leases'[r].ip = leases[r].ip
                       /\ IsActive(leases'[r]) => IsActive(leases[r])
  <2>1. CASE PurgeFirst \/ PurgeSecond
    BY <2>1 DEF PurgeFirst, PurgeSecond, purge_orphaned_leases, purge_expired_leases, Rows
  <2>2. CASE Tick
    <3>1. \A l \in Lease : /\ Aged(l).mac = l.mac /\ Aged(l).ip = l.ip
                           /\ IsActive(Aged(l)) => IsActive(l)
      BY TimeAssumption DEF Aged, Lease, IsActive
    <3> HIDE DEF IsActive
    <3> QED
      BY Zenon, <2>2, <3>1, RowsAreLeases DEF Tick, Rows, TypeOK
  <2> QED
    BY Zenon, <2>1, <2>2 DEF Cleanup, Time
<1>3. \A n \in Macs : LeasedTo(n)' \subseteq LeasedTo(n)
  BY Zenon, <1>2 DEF LeasedTo, IsActive
<1>4. \A n \in Macs : Claims(n)' \subseteq Claims(n)
  BY Zenon, <1>1, <1>3 DEF Claims, Requestable, PendingOf, others
<1> QED
  BY Zenon, <1>1, <1>4, ApartIfShrinking DEF others

\* While the pools are rebuilt only in settled states, and pools do not
\* overlap, no two clients hold running leases on one address, and every
\* leased address is marked in its pool, however many clients and addresses.
THEOREM ClientsKeptApart ==
    PoolsDisjoint => (SettledSpec => [](OneHolder /\ AllocatedCoversLeases))
<1> SUFFICES ASSUME PoolsDisjoint
             PROVE  SettledSpec => [](OneHolder /\ AllocatedCoversLeases)
  BY Zenon
<1> DEFINE SNext == \/ handle_packet \/ Cleanup \/ Time
                    \/ Settled /\ (sync_pool \/ Restart)
           IInv == TypeOK /\ TablesOK /\ Orphans = {} /\ KeptApart
<1>1. Init => IInv
  <2> SUFFICES ASSUME Init PROVE IInv
    BY Zenon
  <2>1. \A m \in Macs : Claims(m) = {}
    BY Zenon DEF Init, LeaseInit, Claims, Requestable, PendingOf, LeasedTo, Rows
  <2>2. KeptApart
    BY Zenon, <2>1 DEF Init, KeptApart
  <2> QED
    BY Zenon, <2>2, Starts, TablesInit DEF Init
<1>2. IInv /\ [SNext]_vars => IInv'
  <2> SUFFICES ASSUME IInv, [SNext]_vars PROVE IInv'
    BY Zenon
  <2>1. [Next]_vars
    BY Zenon DEF Next
  <2>2. TypeOK' /\ TablesOK' /\ Orphans' = {}
    BY Zenon, <2>1, ServerStep, StepIsLeaseStep, TablesStep
  <2>3. CASE handle_packet
    BY Zenon, <2>2, <2>3, DiscoverApart, RequestApart, ReleaseApart DEF handle_packet
  <2>4. CASE Cleanup \/ Time
    BY Zenon, <2>2, <2>4, BackgroundApart
  <2>5. CASE Settled /\ (sync_pool \/ Restart)
    BY Zenon, <2>2, <2>5, RebuildApart
  <2>6. CASE UNCHANGED vars
    <3>1. \A n \in Macs : Claims(n)' \subseteq Claims(n)
      BY Zenon, <2>6 DEF vars, Claims, Requestable, PendingOf, LeasedTo, Rows
    <3> QED
      BY Zenon, <2>2, <2>6, <3>1, ApartIfShrinking DEF vars
  <2> QED
    BY Zenon, <2>2, <2>3, <2>4, <2>5, <2>6
<1>3. IInv => OneHolder /\ AllocatedCoversLeases
  <2> SUFFICES ASSUME IInv PROVE OneHolder /\ AllocatedCoversLeases
    BY Zenon
  <2>1. OneRowPerClient
    BY Zenon, NoOrphansOneRow DEF TablesOK
  <2>2. \A r \in Rows : /\ leases[r].mac \in Macs /\ leases[r].ip \in Ips
                        /\ IsActive(leases[r]) => leases[r].ip \in Claims(leases[r].mac)
    BY Zenon, RowsAreLeases DEF TypeOK, Lease, Claims, LeasedTo
  <2>3. OneHolder
    BY Zenon, <2>1, <2>2 DEF OneHolder, OneRowPerClient, KeptApart
  <2>4. AllocatedCoversLeases
    BY <2>2 DEF AllocatedCoversLeases, KeptApart, Marked, PoolsDisjoint
  <2> QED
    BY Zenon, <2>3, <2>4
<1> HIDE DEF IInv
<1> QED
  BY <1>1, <1>2, <1>3, PTL DEF SettledSpec

=============================================================================
