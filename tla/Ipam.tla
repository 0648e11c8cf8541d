-------------------------------- MODULE Ipam --------------------------------
(***************************************************************************)
(* Two groups of REST handlers that read a table, decide, and write it in  *)
(* a second transaction: address allocation for containers                 *)
(* (api/src/rest/ipam.rs) and the static routes of a DHCP pool             *)
(* (api/src/rest/dhcp_routes.rs).                                          *)
(*                                                                         *)
(* Requests run concurrently.  A request that answers without a write (an  *)
(* allocation that exists, an exhausted pool, a route that is there or is  *)
(* not found) changes nothing and is no step.  The two groups share no     *)
(* table.  The routes of one pool are modelled; a route is its destination *)
(* and gateway with a random id.                                           *)
(***************************************************************************)
EXTENDS Integers, FiniteSets, Nothing

CONSTANTS AllocIds,      \* random ids of allocations
          Containers,
          IpamPools,     \* pool -> its range of addresses, pools of the configuration
          RouteIds,      \* random ids of routes
          Targets,       \* destination and gateway of a route
          Requests

\* A row of the IPAM table.
Allocations == [pool : DOMAIN IpamPools, ip : Nat, container : Containers, seen : SUBSET AllocIds]

ASSUME IpamAssumption ==
    /\ \A p \in DOMAIN IpamPools : IpamPools[p] \subseteq Nat /\ IsFiniteSet(IpamPools[p])
    /\ None \notin Allocations

VARIABLES allocs,        \* the IPAM table; a row has the ids its maker saw (history)
          routes,        \* static_routes of the pool; None when the pool is gone
          request        \* what a request has read and is to write

ipamVars == <<allocs, routes, request>>

AllocRows == {i \in AllocIds : allocs[i] # None}
Done == [at |-> "none"]

IpamInit ==
    /\ allocs = [i \in AllocIds |-> None] /\ routes = {}
    /\ request = [r \in Requests |-> Done]

-----------------------------------------------------------------------------
(* Allocation. *)

used_ips(p) == {allocs[i].ip : i \in {j \in AllocRows : allocs[j].pool = p}}

ip_range(p) == IpamPools[p]

\* list_ipam_allocations and the choice: an address no row of the pool has.
Choose(r, c, p) ==
    /\ request[r] = Done
    /\ \A i \in AllocRows : ~(allocs[i].container = c /\ allocs[i].pool = p)
    /\ \E ip \in ip_range(p) \ used_ips(p) :
          /\ \A other \in ip_range(p) \ used_ips(p) : ip <= other
          /\ request' = [request EXCEPT ![r] = [at |-> "create", pool |-> p, ip |-> ip,
                                                container |-> c, seen |-> AllocRows]]
    /\ UNCHANGED <<allocs, routes>>

create_ipam_allocation(r) ==
    /\ request[r].at = "create"
    /\ \E i \in AllocIds \ AllocRows :
          allocs' = [allocs EXCEPT ![i] = [pool |-> request[r].pool, ip |-> request[r].ip,
                                           container |-> request[r].container, seen |-> request[r].seen]]
    /\ request' = [request EXCEPT ![r] = Done] /\ UNCHANGED routes

\* A deleted id is forgotten by the history as well, since it is not used again.
deallocate(i) ==
    /\ i \in AllocRows
    /\ allocs' = [j \in AllocIds |-> IF j = i \/ allocs[j] = None THEN None
                                     ELSE [allocs[j] EXCEPT !.seen = @ \ {i}]]
    /\ request' = [r \in Requests |-> IF request[r].at = "create"
                                      THEN [request[r] EXCEPT !.seen = @ \ {i}] ELSE request[r]]
    /\ UNCHANGED routes

\* list_pools: range size less the rows, not below zero.
available(p) ==
    LET total == Cardinality(ip_range(p))
        rows == Cardinality({i \in AllocRows : allocs[i].pool = p})
    IN  IF rows > total THEN 0 ELSE total - rows

-----------------------------------------------------------------------------
(* Static routes: the whole pool is read, and the whole pool is written. *)

SameRoute(x, t) == x.target = t

add_route(r, t) ==
    /\ request[r] = Done /\ routes # None
    /\ \A x \in routes : ~SameRoute(x, t)
    /\ \E i \in RouteIds :
          /\ \A x \in routes : x.id # i
          /\ request' = [request EXCEPT ![r] = [at |-> "update", read |-> routes,
                                                write |-> routes \cup {[id |-> i, target |-> t]}]]
    /\ UNCHANGED <<allocs, routes>>

delete_route(r, x) ==
    /\ request[r] = Done /\ routes # None /\ x \in routes
    /\ request' = [request EXCEPT ![r] = [at |-> "update", read |-> routes, write |-> routes \ {x}]]
    /\ UNCHANGED <<allocs, routes>>

\* Mutant: the stored routes are replaced by the route of the request.
update_dhcp_pool_one(r) ==
    /\ request[r].at = "update"
    /\ routes' = IF routes = None THEN None ELSE request[r].write \ request[r].read
    /\ request' = [request EXCEPT ![r] = Done] /\ UNCHANGED allocs

\* Fails when the pool was deleted meanwhile.
update_dhcp_pool(r) ==
    /\ request[r].at = "update"
    /\ routes' = IF routes = None THEN None ELSE request[r].write
    /\ request' = [request EXCEPT ![r] = Done] /\ UNCHANGED allocs

\* delete_pool, and a new pool with an id of its own that no request has read.
DeletePool ==
    /\ routes' = IF routes = None THEN {} ELSE None
    /\ routes = None => \A r \in Requests : request[r].at # "update"
    /\ UNCHANGED <<allocs, request>>

AllocNext ==
    \/ \E r \in Requests : \/ create_ipam_allocation(r)
                           \/ \E c \in Containers, p \in DOMAIN IpamPools : Choose(r, c, p)
    \/ \E i \in AllocIds : deallocate(i)

RouteNext ==
    \/ \E r \in Requests : \/ update_dhcp_pool(r)
                           \/ \E t \in Targets : add_route(r, t)
                           \/ routes # None /\ \E x \in routes : delete_route(r, x)
    \/ DeletePool

IpamSpec == IpamInit /\ [][AllocNext \/ RouteNext]_ipamVars

-----------------------------------------------------------------------------
(* Properties. *)

\* Allocations lie in their pool, and two that share an address, or a container,
\* were made by requests of which neither saw the other's row: only overlapping
\* requests can do it.  The free addresses reported are right when none share.
SharedByRaceOnly ==
    /\ \A i \in AllocRows : allocs[i].ip \in IpamPools[allocs[i].pool]
    /\ \A i, j \in AllocRows :
          i # j /\ allocs[i].pool = allocs[j].pool
                /\ (allocs[i].ip = allocs[j].ip \/ allocs[i].container = allocs[j].container)
              => i \notin allocs[j].seen /\ j \notin allocs[i].seen
    /\ \A p \in DOMAIN IpamPools :
          (\A i, j \in AllocRows : i # j => <<allocs[i].pool, allocs[i].ip>> # <<allocs[j].pool, allocs[j].ip>>)
              => available(p) = Cardinality(IpamPools[p] \ used_ips(p))

\* A pool never has the same route twice, even when two requests add it at once.
RoutesDiffer ==
    routes # None => \A x, y \in routes : x.target = y.target => x = y

\* A route goes from the pool only when it is deleted, with the pool, or when a
\* request that read the pool before the route was there writes the pool back.
RouteLostByRaceOnly ==
    [][routes # None /\ routes' # None =>
          \A x \in routes \ routes' :
              \E r \in Requests : /\ request[r].at = "update" /\ request'[r] = Done
                                  /\ x \in request[r].read => request[r].write = request[r].read \ {x}]_ipamVars

\* Handlers that read, decide and write go wrong only when two overlap, and then
\* only in these ways.
RaceOnly == [](SharedByRaceOnly /\ RoutesDiffer) /\ RouteLostByRaceOnly

=============================================================================
