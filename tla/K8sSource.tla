----------------------------- MODULE K8sSource ------------------------------
(***************************************************************************)
(* The Kubernetes source (crates/microdns-k8s): four watches keep stores   *)
(* of Services, EndpointSlices, Endpoints and Pods, each event wakes the   *)
(* reconcile loop, and after a debounce the loop replaces the records of   *)
(* the cluster zone by what the stores say and brings the PTR records of   *)
(* the addresses in line.                                                  *)
(*                                                                         *)
(* A service is a cluster address, external, or headless, with or without  *)
(* publishNotReadyAddresses; one slice stands for all the slices of a      *)
(* service.  The four watches run each at its own pace, an object at a     *)
(* time; a store is empty until its list has arrived.  The wake-up is a    *)
(* permit that is kept while the loop is busy (tokio Notify).  The zone is *)
(* replaced in one transaction; its serial and each PTR follow in others.  *)
(* An error on a watch ends the source: the loop of the watch returns at   *)
(* the first error item, and nothing starts the source again.  Left out:   *)
(* ports and SRV, the fixed records of the apex, database errors, names    *)
(* that do not parse.                                                      *)
(***************************************************************************)
EXTENDS FiniteSets, Integers, Nothing

CONSTANTS Svcs, ClusterIps, PodIps,
          EndpointSource,     \* "auto", "slices" or "endpoints"
          Watched,            \* the kinds the cluster has objects of
          Shapes             \* kind -> what an object of it may be

Ips == ClusterIps \cup PodIps
Watches == {"services", "slices", "endpoints", "pods"}
Headless == {"headless", "headlessAll"}

\* The objects of a kind by name, and all that an object may be.
Objects == [k \in Watches |-> IF k = "pods" THEN PodIps ELSE Svcs]
Values == [k \in Watches |-> CASE k = "services" -> {None, "external"} \cup Headless \cup ClusterIps
                             [] k = "pods" -> {None, "running"}
                             [] OTHER -> {None} \cup SUBSET [ip : PodIps, ready : BOOLEAN]]

\* The names of the records of the zone, and the records.
ClusterNames == {<<s>> : s \in Svcs} \cup {<<ip, s>> : ip \in PodIps, s \in Svcs} \cup {<<ip, "pod">> : ip \in PodIps}
ClusterRecs == [name : ClusterNames, data : Ips \cup {"cname"}]

ASSUME K8sAssumption ==
    /\ EndpointSource \in {"auto", "slices", "endpoints"} /\ Watched \subseteq Watches
    /\ \A k \in Watched : None \in Shapes[k] /\ Shapes[k] \subseteq Values[k]
    /\ None \notin {"external"} \cup Headless \cup ClusterIps /\ \A recs \in SUBSET ClusterRecs : recs # None

VARIABLES cluster,   \* the objects of the apiserver
          stores,    \* the reflector stores
          listed,    \* kinds whose list has arrived
          notify,    \* a wake-up is due
          loop,      \* the reconcile loop
          zone,      \* the records of the cluster zone, None before it is created
          ptr,       \* the PTR record of an address
          kept       \* the source has not been restarted

db == <<zone, ptr>>
k8sVars == <<cluster, stores, listed, notify, loop, zone, ptr, kept>>

NoObjects == [k \in Watches |-> [n \in Objects[k] |-> None]]
Loop == [at |-> "wait", want |-> {}, ptrs |-> << >>, todo |-> {}, synced |-> << >>]
Starting == [Loop EXCEPT !.at = "connect"]

A(name, ip) == [name |-> name, data |-> ip]

-----------------------------------------------------------------------------
(* Translation. *)

aggregate_endpoints(st, s) ==
    IF EndpointSource # "endpoints" /\ st["slices"][s] # None THEN st["slices"][s]
    ELSE IF EndpointSource # "slices" THEN st["endpoints"][s]
    ELSE None

service_records(st, s) ==
    LET kind == st["services"][s]
        ep == aggregate_endpoints(st, s)
        include == IF ep = None THEN {} ELSE {a \in ep : a.ready \/ kind = "headlessAll"}
    IN  CASE kind = None -> {}
          [] kind = "external" -> {[name |-> <<s>>, data |-> "cname"]}
          [] kind \in Headless -> {A(<<s>>, a.ip) : a \in include} \cup {A(<<a.ip, s>>, a.ip) : a \in include}
          [] OTHER -> {A(<<s>>, kind)}

pod_records(st) == {A(<<ip, "pod">>, ip) : ip \in {p \in PodIps : st["pods"][p] # None}}

desired(st) == pod_records(st) \cup UNION {service_records(st, s) : s \in Svcs}

Addressed(recs) == {ip \in Ips : \E r \in recs : r.data = ip}

-----------------------------------------------------------------------------
(* Types and the start. *)

K8sTypeOK ==
    /\ \A k \in Watches : cluster[k] \in [Objects[k] -> Values[k]]
                     /\ stores[k] \in [Objects[k] -> Values[k]]
    /\ listed \subseteq Watches /\ notify \in BOOLEAN /\ kept \in BOOLEAN
    /\ loop.at \in {"connect", "begin", "wait", "debounce", "replace", "serial", "sync", "prune", "ended"}
    /\ loop.at \notin {"connect", "begin", "ended"} => zone # None
    /\ \A r \in loop.want \cup (IF zone = None THEN {} ELSE zone) : r.data \in Ips \cup {"cname"}
    /\ loop.at \in {"sync", "prune"} => DOMAIN loop.ptrs = Addressed(zone)

K8sInit ==
    /\ cluster = NoObjects /\ stores = NoObjects /\ listed = {} /\ notify = FALSE
    /\ loop = Starting /\ zone = None /\ ptr = [ip \in Ips |-> None] /\ kept = TRUE

-----------------------------------------------------------------------------
(* The watches; they start once there is a client, which is tried for ever. *)

connect_with_retry ==
    /\ loop.at = "connect" /\ loop' = [loop EXCEPT !.at = "begin"]
    /\ UNCHANGED <<cluster, stores, listed, notify, db, kept>>

\* The first answer of a watch fills its store, later ones change an object.
watch_loop(k) ==
    /\ loop.at \notin {"connect", "ended"}
    /\ \/ k \notin listed /\ stores' = [stores EXCEPT ![k] = cluster[k]]
       \/ \E n \in Objects[k] :
            /\ k \in listed /\ stores[k][n] # cluster[k][n]
            /\ stores' = [stores EXCEPT ![k][n] = cluster[k][n]]
    /\ listed' = listed \cup {k} /\ notify' = TRUE
    /\ UNCHANGED <<cluster, loop, db, kept>>

\* run: a task has returned, the others are stopped.
WatchError ==
    /\ loop.at \notin {"connect", "ended"} /\ loop' = [Loop EXCEPT !.at = "ended"]
    /\ UNCHANGED <<cluster, stores, listed, notify, db, kept>>

-----------------------------------------------------------------------------
(* The reconcile loop. *)

\* Reconciler::new; without the zone the loop returns, as a watch does.
ensure_cluster_zone ==
    /\ loop.at = "begin" /\ loop' = [loop EXCEPT !.at = "wait"]
    /\ zone' = IF zone = None THEN {} ELSE zone
    /\ UNCHANGED <<cluster, stores, listed, notify, ptr, kept>>

Notified ==
    /\ loop.at = "wait" /\ notify
    /\ notify' = FALSE /\ loop' = [loop EXCEPT !.at = "debounce"]
    /\ UNCHANGED <<cluster, stores, listed, db, kept>>

Compute ==
    /\ loop.at = "debounce"
    /\ loop' = [loop EXCEPT !.at = "replace", !.want = desired(stores)]
    /\ UNCHANGED <<cluster, stores, listed, notify, db, kept>>

\* Mutant: what woke the loop while it was busy is taken for seen.
apply_clears ==
    /\ \/ /\ loop.at = "replace"
          /\ zone' = loop.want /\ loop' = [loop EXCEPT !.at = "serial"]
       \/ \E owner \in [Addressed(loop.want) -> {r.name : r \in loop.want}] :
          /\ loop.at = "serial"
          /\ \A ip \in DOMAIN owner : A(owner[ip], ip) \in loop.want
          /\ loop' = [loop EXCEPT !.at = "sync", !.want = {}, !.ptrs = owner, !.todo = DOMAIN owner]
          /\ UNCHANGED zone
    /\ notify' = FALSE /\ UNCHANGED <<cluster, stores, listed, ptr, kept>>

apply ==
    /\ \/ /\ loop.at = "replace"
          /\ zone' = loop.want /\ loop' = [loop EXCEPT !.at = "serial"]
       \/ \E owner \in [Addressed(loop.want) -> {r.name : r \in loop.want}] :
          /\ loop.at = "serial"
          /\ \A ip \in DOMAIN owner : A(owner[ip], ip) \in loop.want
          /\ loop' = [loop EXCEPT !.at = "sync", !.want = {}, !.ptrs = owner, !.todo = DOMAIN owner]
          /\ UNCHANGED zone
    /\ UNCHANGED <<cluster, stores, listed, notify, ptr, kept>>

\* One PTR per wanted address, then the ones of addresses no longer wanted; a
\* PTR that names someone else by now is left.
reconcile_ptrs ==
    /\ \/ \E ip \in loop.todo :
          /\ loop.at = "sync"
          /\ ptr' = [ptr EXCEPT ![ip] = loop.ptrs[ip]] /\ loop' = [loop EXCEPT !.todo = @ \ {ip}]
       \/ /\ loop.at = "sync" /\ loop.todo = {}
          /\ loop' = [loop EXCEPT !.at = "prune", !.todo = DOMAIN loop.synced \ DOMAIN loop.ptrs]
          /\ UNCHANGED ptr
       \/ \E ip \in loop.todo :
          /\ loop.at = "prune"
          /\ ptr' = [ptr EXCEPT ![ip] = IF @ = loop.synced[ip] THEN None ELSE @]
          /\ loop' = [loop EXCEPT !.todo = @ \ {ip}]
       \/ /\ loop.at = "prune" /\ loop.todo = {}
          /\ loop' = [Loop EXCEPT !.synced = loop.ptrs] /\ UNCHANGED ptr
    /\ UNCHANGED <<cluster, stores, listed, notify, zone, kept>>

-----------------------------------------------------------------------------
(* The environment. *)

Change ==
    /\ \E k \in Watched : \E n \in Objects[k] : \E v \in Shapes[k] : cluster' = [cluster EXCEPT ![k][n] = v]
    /\ UNCHANGED <<stores, listed, notify, loop, db, kept>>

K8sRestart ==
    /\ stores' = NoObjects /\ listed' = {} /\ notify' = FALSE /\ loop' = Starting /\ kept' = FALSE
    /\ UNCHANGED <<cluster, db>>

Reconcile == ensure_cluster_zone \/ Notified \/ Compute \/ apply \/ reconcile_ptrs

K8sNext ==
    \/ connect_with_retry \/ \E k \in Watched : watch_loop(k)
    \/ Reconcile \/ WatchError \/ Change \/ K8sRestart

-----------------------------------------------------------------------------
(* Properties. *)

\* When the cluster comes to rest the zone says what the cluster is, and no
\* wake-up was lost on the way, however the watches and the loop interleave.
ZoneConverges ==
    <>[](loop.at # "ended" /\ listed = Watched /\ stores = cluster)
        => <>[](zone = desired(cluster))

\* In a source that was never restarted, the PTR records follow: one for each
\* address of the zone, naming a record that has it, and none for others.
PtrsFollow ==
    ([]kept /\ <>[](loop.at # "ended" /\ listed = Watched /\ stores = cluster))
        => <>[](\A ip \in Ips : IF ip \in Addressed(desired(cluster)) THEN A(ptr[ip], ip) \in desired(cluster)
                                ELSE ptr[ip] = None)

\* A PTR record, once the loop is at rest, names a record of the zone or is left
\* from before a restart.
PtrsTrue ==
    kept /\ loop.at \in {"wait", "debounce", "replace"} =>
        \A ip \in Ips : ptr[ip] # None => A(ptr[ip], ip) \in zone

\* The zone and its PTR records follow the cluster, and PTRs are true on the way.
ClusterServed == [](K8sTypeOK /\ PtrsTrue) /\ ZoneConverges /\ PtrsFollow

=============================================================================
