----------------------------- MODULE RecordApi -----------------------------
(***************************************************************************)
(* The writers of forward and reverse zones: the REST handlers             *)
(* (rest/records.rs, rest/zones.rs), the gRPC handlers (grpc/service.rs),  *)
(* DHCP registration (dns_register.rs), and the PTR upkeep they share      *)
(* (core/reverse.rs), on the tables of ZoneStore.                          *)
(*                                                                         *)
(* A request is a process that makes one transaction per step, so requests *)
(* interleave between any two and a crash cuts them anywhere.  There is    *)
(* one forward and one reverse zone name; an A record has a host as key    *)
(* and an address as data, its PTR the other way round.                    *)
(*                                                                         *)
(* Operators edit A records under the zone they are in and leave PTRs to   *)
(* the server.  Left out: the recursor cache that a handler clears at its  *)
(* end, dashboard and bus events, the AAAA twins of the PTR functions.     *)
(***************************************************************************)
EXTENDS ZoneStore

CONSTANTS Hosts, Ips,
          Clients,     \* API requests that may be in flight
          Ops          \* what they may ask for

Forward == "fwd"
Reverse == "rev"

ASSUME ApiAssumption ==
    /\ ZoneNames = {Forward, Reverse}
    /\ Keys = Hosts \cup Ips /\ Data = Hosts \cup Ips
    /\ Hosts \cap Ips = {}
    /\ "dhcp" \notin Clients
    /\ None \notin Ids

VARIABLES proc,        \* where each request is
          dirty        \* zones changed since their serial was last bumped

vars == <<storeVars, proc, dirty>>

Procs == Clients \cup {"dhcp"}

Idle == [op |-> None, at |-> "idle", id |-> None, rec |-> None, old |-> None,
         rev |-> None, gone |-> {}, todo |-> {}]

Stages == {"idle", "dedupe", "insert", "write", "remove", "bump", "stale", "next",
           "unptr", "unptrDelete", "unptrBump",
           "sync", "ensure", "query", "clear", "syncBump"}

Link == [host : Hosts, ip : Ips]

LinkOf(rec) == [host |-> rec.key, ip |-> rec.data]

TypeOK ==
    /\ StoreTypeOK
    /\ dirty \subseteq ZoneIds
    /\ proc \in [Procs -> [op : Ops \cup {None}, at : Stages, id : Ids \cup {None},
                           rec : Record \cup {None}, old : Link \cup {None},
                           rev : ZoneIds \cup {None}, gone : SUBSET Ids,
                           todo : SUBSET [id : Ids, link : Link]]]

Init == StoreInit /\ proc = [p \in Procs |-> Idle] /\ dirty = {}

FreshIds == {r \in Ids : FreshId(r) /\ \A p \in Procs :
                             proc[p].id # r /\ r \notin proc[p].gone
                             /\ \A t \in proc[p].todo : t.id # r}

FreshZones == {z \in ZoneIds : FreshZone(z) /\ \A p \in Procs :
                   proc[p].rev # z /\ (proc[p].rec = None \/ proc[p].rec.zone # z)}

A(z, h, ip, on) == [zone |-> z, key |-> h, data |-> ip, enabled |-> on]

\* Process p goes on with q.
Goto(p, q) == proc' = [proc EXCEPT ![p] = q]
At(p, s) == proc[p].at = s

Take(p, op) == At(p, "idle") /\ op \in Ops

increment_soa_serial(z) == dirty' = IF zones[z] = None THEN dirty ELSE dirty \ {z}

-----------------------------------------------------------------------------
(* REST: zones. *)

rest_create_zone(n) ==
    /\ "zone" \in Ops
    /\ \E z \in FreshZones : create_zone(z, n)
    /\ UNCHANGED <<proc, dirty>>

rest_delete_zone(z) ==
    /\ "drop" \in Ops
    /\ delete_zone(z)
    /\ dirty' = dirty \ {z}
    /\ UNCHANGED proc

-----------------------------------------------------------------------------
(* REST: records. *)

\* get_zone
rest_create_record(c, z, h, ip, on) ==
    /\ on \/ "disable" \in Ops
    /\ Take(c, "create")
    /\ zones[z] = Forward
    /\ Goto(c, [Idle EXCEPT !.op = "create", !.at = "dedupe",
                            !.rec = A(z, h, ip, on)])
    /\ UNCHANGED <<storeVars, dirty>>

\* An identical record that is enabled ends the request.
dedupe(c) ==
    LET q == proc[c] IN
    /\ At(c, "dedupe")
    /\ Goto(c, IF \E r \in query_records(q.rec.zone, q.rec.key) : records[r].data = q.rec.data
               THEN Idle ELSE [q EXCEPT !.at = "insert"])
    /\ UNCHANGED <<storeVars, dirty>>

insert(c) ==
    LET q == proc[c] IN
    /\ At(c, "insert")
    /\ \E r \in FreshIds : create_record(r, q.rec)
    /\ dirty' = dirty \cup {q.rec.zone}
    /\ Goto(c, [q EXCEPT !.at = "bump"])

\* get_record, and the changes applied to the copy
update_record_begins(c, op, r, h, ip, on) ==
    /\ on \/ "disable" \in Ops
    /\ Take(c, op)
    /\ records[r] # None /\ records[r].key \in Hosts
    /\ h = records[r].key \/ "rename" \in Ops
    /\ Goto(c, [Idle EXCEPT !.op = op, !.at = "write", !.id = r,
                  !.rec = [records[r] EXCEPT !.key = h, !.data = ip, !.enabled = on],
                  !.old = LinkOf(records[r])])
    /\ UNCHANGED <<storeVars, dirty>>

\* update_record, an error if the row is gone by now. gRPC ends here.
write(c) ==
    LET q == proc[c] IN
    /\ At(c, "write")
    /\ IF records[q.id] = None
       THEN Goto(c, Idle) /\ UNCHANGED <<storeVars, dirty>>
       ELSE /\ update_record(q.id, q.rec)
            /\ dirty' = dirty \cup {q.rec.zone}
            /\ Goto(c, IF q.op = "update" THEN [q EXCEPT !.at = "bump"] ELSE Idle)

\* get_record
rest_delete_record(c, r) ==
    /\ Take(c, "delete")
    /\ records[r] # None /\ records[r].key \in Hosts
    /\ Goto(c, [Idle EXCEPT !.op = "delete", !.at = "remove", !.id = r,
                            !.rec = records[r], !.old = LinkOf(records[r])])
    /\ UNCHANGED <<storeVars, dirty>>

\* delete_record, an error if the row is gone by now: of the REST handler, and
\* of unregister, which gives up and otherwise goes on to its next row.
remove(c) ==
    LET q == proc[c] IN
    /\ At(c, "remove")
    /\ IF records[q.id] = None
       THEN Goto(c, Idle) /\ UNCHANGED <<storeVars, dirty>>
       ELSE /\ delete_record(q.id)
            /\ dirty' = dirty \cup {records[q.id].zone}
            /\ Goto(c, [q EXCEPT !.at = IF q.op = "delete" THEN "bump" ELSE "next"])

\* Mutant: an update leaves the old PTR where it is.
bump_keepsOldPtr(c) ==
    LET q == proc[c] IN
    /\ At(c, "bump")
    /\ increment_soa_serial(q.rec.zone)
    /\ Goto(c, CASE q.op \in {"create", "update"} -> [q EXCEPT !.at = "sync"]
                 [] q.op = "delete" /\ zones[q.rec.zone] # None -> [q EXCEPT !.at = "unptr"]
                 [] OTHER -> Idle)
    /\ UNCHANGED storeVars

\* increment_soa_serial, whose error is ignored. An update or a delete then
\* looks the zone up again for the PTR of what was there before.
bump(c) ==
    LET q == proc[c]
        changed == q.op = "delete" \/ (q.op = "update" /\ q.old # LinkOf(q.rec))
    IN  /\ At(c, "bump")
        /\ increment_soa_serial(q.rec.zone)
        /\ Goto(c, CASE q.op = "create" -> [q EXCEPT !.at = "sync"]
                     [] changed /\ zones[q.rec.zone] # None -> [q EXCEPT !.at = "unptr"]
                     [] OTHER -> Idle)
        /\ UNCHANGED storeVars

-----------------------------------------------------------------------------
(* gRPC: records. No zone lookup, no dedupe, no bump, no PTR. *)

grpc_create_record(z, h, ip, on) ==
    /\ on \/ "disable" \in Ops
    /\ "grpc" \in Ops
    /\ \E r \in FreshIds : create_record(r, A(z, h, ip, on))
    /\ dirty' = dirty \cup {z}
    /\ UNCHANGED proc

grpc_delete_record(r) ==
    /\ "grpc" \in Ops
    /\ delete_record(r)
    /\ dirty' = dirty \cup {records[r].zone}
    /\ UNCHANGED proc

-----------------------------------------------------------------------------
(* delete_ptr_for_a, of the link q.old. *)

AfterUnptr(q) ==
    CASE q.op = "update" -> [q EXCEPT !.at = "sync", !.rev = None, !.todo = {}]
      [] q.op = "unregister" -> [q EXCEPT !.at = "remove", !.rev = None]
      [] OTHER -> Idle

\* The reverse zone and the PTRs of the address that name the host.
unptr(p) ==
    LET q == proc[p]
        z == nameIdx[Reverse]
    IN  /\ At(p, "unptr")
        /\ Goto(p, IF z = None THEN AfterUnptr(q)
                   ELSE [q EXCEPT !.at = "unptrDelete", !.rev = z,
                           !.gone = {r \in query_records(z, q.old.ip) :
                                       records[r].data = q.old.host}])
        /\ UNCHANGED <<storeVars, dirty>>

\* One after the other; a row that is gone by now is an error that ends it.
unptrDelete(p) ==
    LET q == proc[p] IN
    /\ At(p, "unptrDelete")
    /\ IF q.gone = {}
       THEN Goto(p, AfterUnptr(q)) /\ UNCHANGED <<storeVars, dirty>>
       ELSE \E r \in q.gone :
              IF records[r] = None
              THEN Goto(p, AfterUnptr([q EXCEPT !.gone = {}])) /\ UNCHANGED <<storeVars, dirty>>
              ELSE /\ delete_record(r)
                   /\ dirty' = dirty \cup {q.rev}
                   /\ Goto(p, [q EXCEPT !.at = "unptrBump", !.gone = @ \ {r}])

unptrBump(p) ==
    LET q == proc[p] IN
    /\ At(p, "unptrBump")
    /\ increment_soa_serial(q.rev)
    /\ Goto(p, IF zones[q.rev] = None THEN AfterUnptr([q EXCEPT !.gone = {}])
               ELSE [q EXCEPT !.at = "unptrDelete"])
    /\ UNCHANGED storeVars

-----------------------------------------------------------------------------
(* sync_ptr_for_a, of the record q.rec. *)

AfterSync(q) ==
    IF q.op = "register" THEN [q EXCEPT !.at = "bump", !.rev = None, !.gone = {}] ELSE Idle

\* ensure_reverse_zone: get_zone_by_name,
sync(p) ==
    LET z == nameIdx[Reverse] IN
    /\ At(p, "sync")
    /\ Goto(p, [proc[p] EXCEPT !.at = IF z = None THEN "ensure" ELSE "query", !.rev = z])
    /\ UNCHANGED <<storeVars, dirty>>

\* then create_zone, an error if someone else created it in between.
ensure(p) ==
    /\ At(p, "ensure")
    /\ IF nameIdx[Reverse] # None
       THEN Goto(p, AfterSync(proc[p])) /\ UNCHANGED storeVars
       ELSE \E z \in FreshZones :
              /\ create_zone(z, Reverse)
              /\ Goto(p, [proc[p] EXCEPT !.at = "query", !.rev = z])
    /\ UNCHANGED dirty

\* The PTRs the address has: the wanted one ends it, others are to go.
query(p) ==
    LET q == proc[p]
        existing == query_records(q.rev, q.rec.data)
    IN  /\ At(p, "query")
        /\ Goto(p, IF \E r \in existing : records[r].data = q.rec.key
                   THEN AfterSync(q)
                   ELSE [q EXCEPT !.at = "clear", !.gone = existing])
        /\ UNCHANGED <<storeVars, dirty>>

\* "one IP = one PTR": the others are deleted one by one, then the new one is
\* stored. A row that is gone by now is an error that ends it.
clear(p) ==
    LET q == proc[p] IN
    /\ At(p, "clear")
    /\ \/ \E r \in q.gone :
            /\ records[r] = None
            /\ Goto(p, AfterSync(q))
            /\ UNCHANGED <<storeVars, dirty>>
       \/ \E r \in q.gone :
            /\ delete_record(r)
            /\ dirty' = dirty \cup {q.rev}
            /\ Goto(p, [q EXCEPT !.gone = @ \ {r}])
       \/ /\ q.gone = {}
          /\ \E r \in FreshIds : create_record(r,
                [zone |-> q.rev, key |-> q.rec.data, data |-> q.rec.key, enabled |-> TRUE])
          /\ dirty' = dirty \cup {q.rev}
          /\ Goto(p, [q EXCEPT !.at = "syncBump"])

\* Mutant: the forward zone's serial is bumped again.
syncBump_forward(p) ==
    /\ At(p, "syncBump")
    /\ increment_soa_serial(proc[p].rec.zone)
    /\ Goto(p, AfterSync(proc[p]))
    /\ UNCHANGED storeVars

syncBump(p) ==
    /\ At(p, "syncBump")
    /\ increment_soa_serial(proc[p].rev)
    /\ Goto(p, AfterSync(proc[p]))
    /\ UNCHANGED storeVars

-----------------------------------------------------------------------------
(* DHCP registration, one call at a time. *)

\* register_v4: the forward zone, and its enabled A records of the host. The
\* wanted one ends it, the others are stale.
register_v4(h, ip) ==
    LET z == nameIdx[Forward]
        existing == query_records(z, h)
    IN  /\ Take("dhcp", "register")
        /\ z # None
        /\ \A r \in existing : records[r].data # ip
        /\ Goto("dhcp", [Idle EXCEPT !.op = "register", !.at = "stale",
                            !.rec = A(z, h, ip, TRUE), !.gone = existing])
        /\ UNCHANGED <<storeVars, dirty>>

\* The stale records are deleted one by one, whoever made them, then the new
\* one is stored. A row that is gone by now is an error that ends it.
stale(p) ==
    LET q == proc[p] IN
    /\ At(p, "stale")
    /\ \/ \E r \in q.gone :
            /\ records[r] = None
            /\ Goto(p, Idle)
            /\ UNCHANGED <<storeVars, dirty>>
       \/ \E r \in q.gone :
            /\ delete_record(r)
            /\ dirty' = dirty \cup {q.rec.zone}
            /\ Goto(p, [q EXCEPT !.gone = @ \ {r}])
       \/ /\ q.gone = {}
          /\ \E r \in FreshIds : create_record(r, q.rec)
          /\ dirty' = dirty \cup {q.rec.zone}
          /\ Goto(p, [q EXCEPT !.at = "sync"])

\* unregister: list_records of the forward zone, those of the host.
unregister(h) ==
    LET z == nameIdx[Forward] IN
    /\ Take("dhcp", "unregister")
    /\ z # None
    /\ Goto("dhcp", [Idle EXCEPT !.op = "unregister", !.at = "next",
                       !.todo = {[id |-> r, link |-> LinkOf(records[r])] :
                                   r \in {s \in list_records(z) : records[s].key = h}}])
    /\ UNCHANGED <<storeVars, dirty>>

\* Its next row: the PTR first, then the record.
next(p) ==
    LET q == proc[p] IN
    /\ At(p, "next")
    /\ \/ q.todo = {} /\ Goto(p, Idle)
       \/ \E t \in q.todo :
            Goto(p, [q EXCEPT !.at = "unptr", !.id = t.id, !.old = t.link, !.todo = @ \ {t}])
    /\ UNCHANGED <<storeVars, dirty>>

-----------------------------------------------------------------------------
(* Other writers, crashes. *)

\* A zone transfer stores its copy of the forward zone, under the id it found
\* by name or a new one (module ZoneTransfer has the race between the steps).
Import(S) ==
    /\ "import" \in Ops
    /\ \E z \in IF nameIdx[Forward] = None THEN FreshZones ELSE {nameIdx[Forward]} :
          /\ \/ upsert_zone(z, Forward)
             \/ \E h \in Hosts, ip \in Ips :
                   replace_zone_records(z, [r \in S |-> A(z, h, ip, TRUE)])
          /\ dirty' = dirty \ {z}
    /\ UNCHANGED proc

Crash == proc' = [p \in Procs |-> Idle] /\ UNCHANGED <<storeVars, dirty>>

Step(p) ==
    \/ dedupe(p) \/ insert(p) \/ write(p) \/ remove(p) \/ bump(p)
    \/ unptr(p) \/ unptrDelete(p) \/ unptrBump(p)
    \/ sync(p) \/ ensure(p) \/ query(p) \/ clear(p) \/ syncBump(p)
    \/ stale(p) \/ next(p)

Request(c) ==
    \/ \E r \in Ids : rest_delete_record(c, r)
    \/ \E h \in Hosts, ip \in Ips, on \in BOOLEAN :
         \/ \E z \in ZoneIds : rest_create_record(c, z, h, ip, on)
         \/ \E r \in Ids, op \in {"update", "grpc_update"} :
               update_record_begins(c, op, r, h, ip, on)

Others ==
    \/ \E n \in ZoneNames : rest_create_zone(n)
    \/ \E z \in ZoneIds : rest_delete_zone(z)
    \/ \E h \in Hosts, ip \in Ips, on \in BOOLEAN, z \in ZoneIds : grpc_create_record(z, h, ip, on)
    \/ \E r \in Ids : grpc_delete_record(r)
    \/ \E h \in Hosts : unregister(h) \/ \E ip \in Ips : register_v4(h, ip)
    \/ \E S \in {{}} \cup {{r} : r \in FreshIds} : Import(S)

Next ==
    \/ \E p \in Procs : Step(p)
    \/ \E c \in Clients : Request(c)
    \/ Others
    \/ Crash

Spec == Init /\ [][Next]_vars

Quiet == \A p \in Procs : At(p, "idle")

\* Bound: ids for an A and a PTR are left.
Room ==
    /\ \E a, b \in FreshIds : a # b
    /\ FreshZones # {} \/ nameIdx[Reverse] # None

\* One request at a time, none cut by a crash.
AloneNext ==
    \/ \E p \in Procs : Step(p)
    \/ Quiet /\ \/ Others
                \/ \E c \in Clients :
                      \/ Room /\ Request(c)
                      \/ \E r \in Ids : rest_delete_record(c, r)

AloneSpec == Init /\ [][AloneNext]_vars

-----------------------------------------------------------------------------
(* Properties. *)

ReverseZone == {z \in ZoneIds : zones[z] = Reverse}

\* One address has one PTR (comment in sync_ptr_for_a).
OnePtr ==
    \A z \in ReverseZone : \A ip \in Ips :
        \A r, s \in query_records(z, ip) : r = s

\* A PTR names a host that has a record with that address: changes of records
\* take the old PTR along.
PtrTrue ==
    Quiet => \A z \in ReverseZone : \A ip \in Ips : \A r \in query_records(z, ip) :
        \E s \in Ids : records[s] # None /\ LinkOf(records[s]) = [host |-> records[r].data, ip |-> ip]

\* A request that is over has bumped the serial of every zone it changed.
Bumped == Quiet => dirty = {}

\* What PTR upkeep is for: an address has one PTR at every moment, and between
\* requests it names a host of that address.
PtrsRight == TypeOK /\ OnePtr /\ PtrTrue

=============================================================================
