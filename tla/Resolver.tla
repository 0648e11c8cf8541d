------------------------------ MODULE Resolver ------------------------------
(***************************************************************************)
(* Queries to the authoritative server (crates/microdns-auth/src/server.rs,*)
(* zone.rs) and to the recursor (crates/microdns-recursor/src/resolver.rs, *)
(* cache.rs, forward.rs), while the API writes zones, records and          *)
(* forwarders and clears the recursor's cache.                             *)
(*                                                                         *)
(* A query is a process; each read of the database, access to the cache    *)
(* and exchange with another server is a step of its own, so writers come  *)
(* in between.  A server list holds the addresses that parse.  NOTIFY and  *)
(* AXFR are in ZoneTransfer, the accept loops in Listener.                 *)
(* Left out: rdata, query ids and classes, CAA and SVCB conversion, hit    *)
(* counters, failing database reads.                                       *)
(***************************************************************************)
EXTENDS Resolution

CONSTANTS Names, Types,     \* what is asked; a type may be "ANY" or one the store has not
          Queries,
          FwdZones,         \* zones that may have a forwarder
          Lists,            \* its server lists
          Static,           \* the forwarders of the config file: zone -> server list
          Upstream,         \* server list
          MaxSize,          \* of the cache
          MaxTtl,
          None

VARIABLES q,          \* the queries
          fwd,        \* DNS_FORWARDERS_TABLE
          cache,      \* name and type -> the answer's server and remaining lifetime
          api         \* "clear": a request has written and is about to clear the cache

vars == <<zones, rows, q, fwd, cache, api>>

StoreTypes == {"A", "AAAA"}
Servers == UNION {Range(l) : l \in Lists \cup Range(Static) \cup {Upstream}}

ASSUME ResolverAssumption ==
    /\ MaxSize \in Nat /\ MaxTtl \in Nat /\ IsFiniteSet(Queries) /\ Queries # {}
    /\ \A l \in Lists \cup Range(Static) \cup {Upstream} : l \in Seq(Range(l))
    /\ \A r \in Rows : r.name \in Seq(Range(r.name)) /\ r.name # <<>>
    /\ \A n \in Names \cup Zones \cup FwdZones \cup DOMAIN Static : n \in Seq(Range(n))
    /\ None \notin Lists \cup Servers \cup {"local"} /\ "local" \notin Servers

Codes == {"NoError", "NXDomain", "Refused", "NotImp", "FormErr", "ServFail"}

Blank == [at |-> "idle", srv |-> None, name |-> <<>>, type |-> None, aa |-> TRUE, rows |-> {},
          todo |-> <<>>, routed |-> FALSE, ttl |-> 0, seen |-> {},
          code |-> None, ans |-> {}, from |-> None]

Stages == {"idle", "zone", "look", "own", "neg", "cache", "choose", "send", "full", "store",
           "fallback", "done"}

TypeOK ==
    /\ zones \subseteq Zones /\ rows \in [Rows -> {"none", "on", "off"}]
    /\ \A r \in Rows : r.zone \notin zones => rows[r] = "none"
    /\ fwd \in [FwdZones -> Lists \cup {None}] /\ api \in {"idle", "clear"}
    /\ DOMAIN cache \subseteq Names \X Types
    /\ Range(cache) \subseteq [from : Servers, left : 0..MaxTtl, excused : BOOLEAN]
    /\ \A p \in Queries : q[p].at \in Stages /\ q[p].code \in Codes \cup {None}
                          /\ q[p].rows \subseteq Rows /\ q[p].ttl \in 0..MaxTtl

Init ==
    /\ zones = {} /\ rows = [r \in Rows |-> "none"]
    /\ fwd = [z \in FwdZones |-> None]
    /\ cache = <<>>
    /\ api = "idle"
    /\ q = [p \in Queries |-> Blank]

-----------------------------------------------------------------------------
(* Steps of a query. *)

At(p, srv, stage) == q[p].srv = srv /\ q[p].at = stage
Goto(p, r) == q' = [q EXCEPT ![p] = r]
Reply(p, code, ans, from) ==
    Goto(p, [q[p] EXCEPT !.at = "done", !.code = code, !.ans = ans, !.from = from, !.rows = {},
                         !.todo = <<>>, !.ttl = 0, !.routed = FALSE])
GotoStage(p, stage) == Goto(p, [q[p] EXCEPT !.at = stage])
storeAndConfig == <<zones, rows, fwd, api>>

\* "opcode" and "noquery" stand for the requests that are no question.
Ask(p) ==
    /\ q[p].at = "idle"
    /\ \E srv \in {"auth", "rec"}, n \in Names, t \in Types \cup {"opcode", "noquery"} :
          Goto(p, [Blank EXCEPT !.at = "zone", !.srv = srv, !.name = n, !.type = t])
    /\ UNCHANGED <<storeAndConfig, cache>>

Sent(p) == q[p].at = "done" /\ Goto(p, Blank) /\ UNCHANGED <<storeAndConfig, cache>>

\* A record in an answer, under the name it is given there.
Named(owner, type) == [owner |-> owner, type |-> type]

build_soa(n) == {Named(z, "SOA") : z \in find_zone_for_fqdn(n)}

Malformed(p) == Reply(p, IF q[p].type = "opcode" THEN "NotImp" ELSE "FormErr", {}, None)

\* Nothing found: SOA in the authority section, and whether the name is there.
Negative(p) ==
    /\ q[p].at = "neg"
    /\ Reply(p, IF fqdn_exists(q[p].name) THEN "NoError" ELSE "NXDomain", {}, "local")
    /\ UNCHANGED <<storeAndConfig, cache>>

-----------------------------------------------------------------------------
(* The authoritative server. *)

is_authoritative(n) == find_zone_for_fqdn(n) # {}

\* Mutant: a name without records of the type does not exist.
resolve_query_nx(p) ==
    LET n == q[p].name
        t == q[p].type
    IN  IF t \in StoreTypes /\ query_fqdn(n, t) # {} /\ ~IsWild(n)
        THEN Goto(p, [q[p] EXCEPT !.at = "own", !.rows = query_fqdn(n, t)])
        ELSE Reply(p, "NXDomain", {}, "local")

\* resolve_query's first reads.  A query for a wildcard gets the records under
\* their own names; the others are named in a later read.
resolve_query(p) ==
    LET n == q[p].name
        t == q[p].type
    IN  IF t \in {"SOA", "ANY"}
        THEN IF t = "ANY" \/ build_soa(n) # {} THEN Reply(p, "NoError", build_soa(n), "local")
             ELSE GotoStage(p, "neg")
        ELSE IF t \notin StoreTypes THEN GotoStage(p, "neg")
        ELSE IF IsWild(n)
        THEN LET R == resolve_wildcard_query(n, t)
             IN  IF R = {} THEN GotoStage(p, "neg")
                 ELSE Reply(p, "NoError", {Named(r.name \o r.zone, t) : r \in R}, "local")
        ELSE LET R == query_fqdn(n, t)
             IN  IF R = {} THEN GotoStage(p, "neg")
                 ELSE Goto(p, [q[p] EXCEPT !.at = "own", !.rows = R])

\* The zone is looked up again for each record; a wildcard is given the name
\* that was asked.
owners(p) ==
    LET n == q[p].name
    IN  UNION { IF Head(r.name) = "*" THEN {Named(n, r.type)}
                ELSE {Named(IF r.name = Apex THEN z ELSE r.name \o z, r.type)
                      : z \in find_zone_for_fqdn(n)} : r \in q[p].rows }

handle_query(p) ==
    /\ \/ /\ At(p, "auth", "zone")
          /\ IF q[p].type \in {"opcode", "noquery"} THEN Malformed(p)
             ELSE IF is_authoritative(q[p].name) THEN GotoStage(p, "look")
             ELSE Reply(p, "Refused", {}, None)
       \/ At(p, "auth", "look") /\ resolve_query(p)
       \/ At(p, "auth", "own")
          /\ IF owners(p) = {} THEN GotoStage(p, "neg") ELSE Reply(p, "NoError", owners(p), "local")
    /\ UNCHANGED <<storeAndConfig, cache>>

-----------------------------------------------------------------------------
(* The recursor. *)

\* Forwarders of the database first, then the ones of the config file.
find_forward_servers(n) ==
    LET F == {z \in FwdZones : fwd[z] # None /\ Under(n, z)}
        C == Covering(DOMAIN Static, n)
    IN  IF F # {} /\ fwd[Longest(F)] # <<>> THEN fwd[Longest(F)]
        ELSE IF C # {} THEN Static[Longest(C)] ELSE None

Route(n) == IF find_forward_servers(n) = None THEN Upstream ELSE find_forward_servers(n)

Key(p) == <<q[p].name, q[p].type>>
Cached == DOMAIN cache
Live(k) == k \in Cached /\ cache[k].left > 0
Only(S) == [k \in S |-> cache[k]]

\* Mutant: the cache is asked before the zones of this server.
Local_afterCache(p) ==
    /\ At(p, "rec", "zone")
    /\ IF q[p].type \in {"opcode", "noquery"} THEN Malformed(p)
       ELSE IF is_authoritative(q[p].name) /\ ~Live(Key(p)) THEN GotoStage(p, "look")
       ELSE GotoStage(p, "cache")
    /\ UNCHANGED <<storeAndConfig, cache>>

\* Step 1 of resolve.
Local(p) ==
    /\ At(p, "rec", "zone")
    /\ IF q[p].type \in {"opcode", "noquery"} THEN Malformed(p)
       ELSE IF is_authoritative(q[p].name) THEN GotoStage(p, "look")
       ELSE GotoStage(p, "cache")
    /\ UNCHANGED <<storeAndConfig, cache>>

\* Mutant: a hit on an expired entry renews it.
cache_get_revives(p) ==
    /\ At(p, "rec", "cache")
    /\ IF Key(p) \in Cached
       THEN /\ Reply(p, "NoError", {}, cache[Key(p)].from)
            /\ cache' = [cache EXCEPT ![Key(p)].left = MaxTtl]
       ELSE GotoStage(p, "choose") /\ UNCHANGED cache
    /\ UNCHANGED storeAndConfig

\* Step 2: an expired entry goes.
cache_get(p) ==
    /\ At(p, "rec", "cache")
    /\ IF Live(Key(p)) THEN Reply(p, "NoError", {}, cache[Key(p)].from) /\ UNCHANGED cache
       ELSE GotoStage(p, "choose") /\ cache' = Only(Cached \ {Key(p)})
    /\ UNCHANGED storeAndConfig

\* Steps 3 and 4.
Choose(p) ==
    /\ At(p, "rec", "choose")
    /\ Goto(p, [q[p] EXCEPT !.at = "send", !.todo = Route(q[p].name), !.seen = @ \ {"fwd"},
                            !.routed = find_forward_servers(q[p].name) # None])
    /\ UNCHANGED <<storeAndConfig, cache>>

\* The first server answers, in time or not at all; only a positive answer
\* with a TTL is for the cache.
forward_query(p) ==
    /\ At(p, "rec", "send")
    /\ IF q[p].todo = <<>>
       THEN IF q[p].routed THEN GotoStage(p, "fallback") ELSE Reply(p, "ServFail", {}, None)
       ELSE \/ \E code \in {"NoError", "NXDomain", "ServFail"}, ttl \in 0..MaxTtl :
                  IF code = "NoError" /\ ttl > 0
                  THEN Goto(p, [q[p] EXCEPT !.at = "full", !.ttl = ttl, !.from = Head(q[p].todo)])
                  ELSE IF code = "ServFail" /\ q[p].routed THEN GotoStage(p, "fallback")
                  ELSE Reply(p, code, {}, Head(q[p].todo))
            \/ Goto(p, [q[p] EXCEPT !.todo = Tail(@)])
    /\ UNCHANGED <<storeAndConfig, cache>>

\* DnsCache::insert makes room and looks at the size; the entry goes in later.
insert(p) ==
    /\ At(p, "rec", "full")
    /\ LET kept == IF Cardinality(Cached) >= MaxSize THEN {k \in Cached : Live(k)} ELSE Cached
       IN  /\ cache' = Only(kept)
           /\ IF Cardinality(kept) >= MaxSize THEN Reply(p, "NoError", {}, q[p].from)
              ELSE GotoStage(p, "store")
    /\ UNCHANGED storeAndConfig

Store(p) ==
    /\ At(p, "rec", "store")
    /\ LET entry == [from |-> q[p].from, left |-> q[p].ttl, excused |-> "fwd" \in q[p].seen]
       IN  cache' = [k \in Cached \cup {Key(p)} |-> IF k = Key(p) THEN entry ELSE cache[k]]
    /\ Reply(p, "NoError", {}, q[p].from)
    /\ UNCHANGED storeAndConfig

Fallback(p) ==
    /\ At(p, "rec", "fallback")
    /\ IF is_authoritative(q[p].name)
       THEN Goto(p, [q[p] EXCEPT !.at = "look", !.aa = FALSE, !.routed = FALSE])
       ELSE Reply(p, "ServFail", {}, None)
    /\ UNCHANGED <<storeAndConfig, cache>>

\* record_to_proto looks for the zone of an apex record under the name "@",
\* where there is none, and leaves a wildcard as it is.
record_to_proto(r) ==
    IF r.name = Apex THEN {Named(z, r.type) : z \in find_zone_for_fqdn(Apex)}
    ELSE {Named(r.name \o z, r.type) : z \in {r.zone} \cap zones}

resolve_from_local(p) ==
    LET n == q[p].name
        t == q[p].type
    IN  /\ \/ /\ At(p, "rec", "look")
              /\ IF t = "SOA" THEN Reply(p, "NoError", build_soa(n), "local")
                 ELSE IF t \notin StoreTypes THEN Reply(p, "NotImp", {}, "local")
                 ELSE IF query_fqdn(n, t) = {} THEN GotoStage(p, "neg")
                 ELSE Goto(p, [q[p] EXCEPT !.at = "own", !.rows = query_fqdn(n, t)])
           \/ /\ At(p, "rec", "own")
              /\ Reply(p, "NoError", UNION {record_to_proto(r) : r \in q[p].rows}, "local")
        /\ UNCHANGED <<storeAndConfig, cache>>

-----------------------------------------------------------------------------
(* Writers.  What happened while a query was under way is kept in seen.    *)

Noticed(what) == q' = [p \in Queries |-> IF q[p].at = "idle" THEN q[p]
                                          ELSE [q[p] EXCEPT !.seen = @ \cup {what}]]

\* REST writers go on to clear the cache, the others do not.
WriteStore ==
    /\ api = "idle" /\ api' \in {"idle", "clear"}
    /\ \/ /\ \E z \in Zones : \/ z \notin zones /\ zones' = zones \cup {z}
                              \/ z \in zones /\ zones' = zones \ {z}
          /\ rows' = [r \in Rows |-> IF r.zone \in zones' THEN rows[r] ELSE "none"]
          /\ Noticed("zone")
       \/ /\ \E r \in Rows, v \in {"none", "on", "off"} :
                r.zone \in zones /\ rows[r] # v /\ rows' = [rows EXCEPT ![r] = v]
          /\ Noticed("row") /\ UNCHANGED zones
    /\ UNCHANGED <<fwd, cache>>

SetForwarder(z, l) == l # fwd[z] /\ fwd' = [fwd EXCEPT ![z] = l] /\ Noticed("fwd")

\* Mutant: the cache is not cleared.
WriteForwarder_noClear ==
    /\ api = "idle"
    /\ \E z \in FwdZones, l \in Lists \cup {None} : SetForwarder(z, l)
    /\ UNCHANGED <<zones, rows, cache, api>>

\* create_forwarder and delete_forwarder
WriteForwarder ==
    /\ api = "idle" /\ api' = "clear"
    /\ \E z \in FwdZones, l \in Lists \cup {None} : SetForwarder(z, l)
    /\ UNCHANGED <<zones, rows, cache>>

ClearCache ==
    /\ api = "clear" /\ api' = "idle"
    /\ cache' = <<>>
    /\ UNCHANGED <<zones, rows, q, fwd>>

\* The mDNS source registers and removes its forwarder without the cache's
\* knowledge (ensure_forwarder, remove_forwarder).
MdnsForwarder ==
    /\ \E z \in FwdZones, l \in Lists \cup {None} : SetForwarder(z, l)
    /\ cache' = [k \in Cached |-> [cache[k] EXCEPT !.excused = TRUE]]
    /\ UNCHANGED <<zones, rows, api>>

Tick ==
    /\ \E k \in Cached : Live(k)
    /\ cache' = [k \in Cached |-> IF Live(k) THEN [cache[k] EXCEPT !.left = @ - 1] ELSE cache[k]]
    /\ UNCHANGED <<storeAndConfig, q>>

\* Requests, queries and the cache are in memory.
Restart ==
    /\ q' = [p \in Queries |-> Blank] /\ api' = "idle"
    /\ cache' = <<>>
    /\ UNCHANGED <<zones, rows, fwd>>

QueryStep(p) ==
    \/ handle_query(p) \/ Negative(p) \/ Local(p) \/ cache_get(p) \/ Choose(p) \/ forward_query(p)
    \/ insert(p) \/ Store(p) \/ Fallback(p) \/ resolve_from_local(p)

Next ==
    \/ \E p \in Queries : Ask(p) \/ QueryStep(p) \/ Sent(p)
    \/ WriteStore \/ WriteForwarder \/ MdnsForwarder \/ ClearCache \/ Tick \/ Restart

\* Tasks run, exchanges with other servers end within 5 s, time passes.
Fairness == WF_vars(Tick) /\ WF_vars(ClearCache) /\ \A p \in Queries : WF_vars(QueryStep(p))

Spec == Init /\ [][Next]_vars /\ Fairness

-----------------------------------------------------------------------------
(* Properties. *)

\* A query no writer disturbed.
Calm(p) == q[p].at = "done" /\ q[p].seen \cap {"zone", "row"} = {}

\* A name without the labels that mean something else in the store.
Plain(n) == ~IsWild(n) /\ "@" \notin Range(n)

\* The authoritative server answers an undisturbed question with the records
\* of the most specific zone, exact ones before the closest wildcard, under the
\* name that was asked; without any it says NXDOMAIN only for a name that no
\* record has (handle_query, resolve_query, query_fqdn, fqdn_exists).
AuthRight ==
    \A p \in Queries : Calm(p) /\ q[p].srv = "auth" /\ q[p].type \in StoreTypes
                       /\ is_authoritative(q[p].name) /\ Plain(q[p].name) =>
        /\ q[p].ans = {Named(q[p].name, r.type) : r \in Reference(q[p].name, q[p].type)}
        /\ q[p].code = IF q[p].ans # {} \/ Present(q[p].name) THEN "NoError" ELSE "NXDomain"

\* The owner name of an answer is put together from a zone that is read again
\* after the records.  It is the name asked unless a zone came or went between.
OwnerAsked ==
    \A p \in Queries : q[p].at = "done" /\ q[p].srv = "auth" /\ Plain(q[p].name)
                       /\ "zone" \notin q[p].seen =>
        \A a \in q[p].ans : a.type \in StoreTypes => a.owner = q[p].name

\* Off the apex and without a wildcard in play, the recursor answers from the
\* local zones what the authoritative server answers (resolve_from_local).
LocalAgrees ==
    \A p \in Queries : Calm(p) /\ q[p].srv = "rec" /\ q[p].from = "local" /\ q[p].type \in StoreTypes =>
        LET R == Reference(q[p].name, q[p].type)
        IN  /\ {r \in R : r.name = Apex \/ IsWild(r.name)} = {} =>
                   q[p].ans = {Named(q[p].name, r.type) : r \in R}
            /\ R = {} => q[p].code = IF Present(q[p].name) THEN "NoError" ELSE "NXDomain"

\* A name of a zone held here is never answered from another server or from the
\* cache, whatever was cached before the zone came (step 1 of resolve).
LocalFirst ==
    \A p \in Queries : q[p].at = "done" /\ q[p].srv = "rec" /\ q[p].from \in Servers
                       /\ "zone" \notin q[p].seen => ~is_authoritative(q[p].name)

\* After a forwarder changed through the API, an answer of the servers it had
\* before is in the cache only until the request clears it, or because a query
\* sent out before the change put it there later.
StaleHasCause ==
    \A k \in Cached : Live(k) /\ cache[k].from \notin Range(Route(k[1])) =>
        api = "clear" \/ cache[k].excused

\* The size test and the insertion are two steps: every query under way may
\* put one entry over the limit, no more.
CacheBounded == Cardinality(Cached) <= MaxSize + Cardinality(Queries) - 1

\* Once forwarders are left alone, the answers of servers that are no longer
\* in charge leave the cache for good.
Settles ==
    <>[][fwd' = fwd]_vars =>
        <>[](\A k \in Cached : Live(k) => cache[k].from \in Range(Route(k[1])))

\* Both servers answer from the store as a reading of it in one piece would,
\* under the name that was asked.
AnswersRight == TypeOK /\ AuthRight /\ OwnerAsked /\ LocalAgrees

\* The cache keeps to its size, and to answers of the servers in charge, but for
\* the windows between a test and an insertion, a change and its clearing.
CacheSound == StaleHasCause /\ CacheBounded

=============================================================================
