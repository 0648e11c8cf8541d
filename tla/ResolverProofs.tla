--------------------------- MODULE ResolverProofs ---------------------------
(***************************************************************************)
(* Proofs about queries and the recursor's cache, for any zones, names,    *)
(* records, forwarders and number of queries under way.                    *)
(*                                                                         *)
(* A query reads the store, the forwarders and the cache in steps of its   *)
(* own.  The invariant says what it still knows of them at each stage,     *)
(* unless it noticed a change since.                                       *)
(***************************************************************************)
EXTENDS Resolver, FiniteSetTheorems, SequenceTheorems, WellFoundedInduction, TLAPS

Owners == Names \cup Zones \cup {rz[1].name \o rz[2] : rz \in Rows \X Zones}
Answers == [owner : Owners, type : {"SOA"} \cup {r.type : r \in Rows}]

Query == [at : Stages, srv : {"auth", "rec", None}, name : Names \cup {<<>>},
          type : Types \cup {"opcode", "noquery", None}, aa : BOOLEAN, rows : SUBSET Rows,
          todo : Seq(Servers), routed : BOOLEAN, ttl : 0..MaxTtl, seen : SUBSET {"zone", "row", "fwd"},
          code : Codes \cup {None}, ans : SUBSET Answers, from : Servers \cup {"local", None}]

\* Names this server has a zone for, and the servers in charge of a name.
Held == {n \in Names : is_authoritative(n)}
InCharge == [n \in Names |-> Range(Route(n))]

\* Stages after the recursor found no zone of its own.
Abroad == {"cache", "choose", "send", "full", "store", "fallback"}

\* What a query has and knows at each stage.
Good(r) ==
    /\ r.at # "idle" => r.name \in Names
    /\ r.at \notin {"idle", "zone", "done"} => r.type \in Types
    /\ r.at = "zone" => r.type \in Types \cup {"opcode", "noquery"}
    /\ r.at \in {"full", "store"} => r.from \in Servers
    /\ r.at \in Abroad \/ (r.at = "done" /\ r.from \in Servers) => "zone" \in r.seen \/ r.name \notin Held
    /\ r.at = "send" => "fwd" \in r.seen \/ Range(r.todo) \subseteq InCharge[r.name]
    /\ r.at \in {"full", "store"} => "fwd" \in r.seen \/ r.from \in InCharge[r.name]

QueriesOK == q \in [Queries -> Query] /\ \A p \in Queries : Good(q[p])

StoreOK ==
    /\ zones \subseteq Zones /\ rows \in [Rows -> {"none", "on", "off"}]
    /\ \A r \in Rows : r.zone \notin zones => rows[r] = "none"
    /\ fwd \in [FwdZones -> Lists \cup {None}] /\ api \in {"idle", "clear"}

Entry == [from : Servers, left : 0..MaxTtl, excused : BOOLEAN]

\* An entry of a server that is not in charge has a cause.
CacheOK ==
    /\ cache \in [Cached -> Entry] /\ Cached \subseteq Names \X Types
    /\ \A k \in Cached : cache[k].left > 0 /\ cache[k].from \notin InCharge[k[1]] =>
          api = "clear" \/ cache[k].excused

\* The queries that have seen room in the cache and not used it yet.
Storing == {p \in Queries : q[p].at = "store"}

\* Every one of them may add an entry; each saw less than MaxSize.
SizeOK ==
    /\ IsFiniteSet(Cached)
    /\ Cardinality(Cached) + Cardinality(Storing) <= MaxSize + Cardinality(Queries) - 1

ResolverInv == StoreOK /\ QueriesOK /\ CacheOK /\ SizeOK

-----------------------------------------------------------------------------
(* Server lists. *)

LEMMA LongestIn ==
    ASSUME NEW S, S # {}, NEW b \in Nat, \A z \in S : Len(z) \in Nat /\ Len(z) <= b
    PROVE  Longest(S) \in S /\ \A y \in S : Len(y) <= Len(Longest(S))
<1> DEFINE Gaps == {b - Len(z) : z \in S}
           less == {ss \in Nat \X Nat : ss[1] < ss[2]}
<1>1. \A z \in S : b - Len(z) \in Nat
  OBVIOUS
<1>2. Gaps \subseteq Nat /\ Gaps # {}
  BY Zenon, <1>1
<1>3. IsWellFoundedOn(less, Nat)
  BY Zenon, NatLessThanWellFounded DEF OpToRel
<1> HIDE DEF less
<1>4. PICK a \in Gaps : \A c \in Gaps : <<c, a>> \notin less
  BY Zenon, <1>2, <1>3, WFMin
<1>5. PICK z \in S : a = b - Len(z)
  BY Zenon
<1>6. ASSUME NEW y \in S PROVE Len(y) <= Len(z)
  <2>1. b - Len(y) \in Gaps /\ b - Len(y) \in Nat /\ a \in Nat
    BY Zenon, <1>1, <1>2
  <2>2. <<b - Len(y), a>> \notin less /\ <<b - Len(y), a>> \in Nat \X Nat
    BY Zenon, <1>4, <2>1
  <2>3. ~(b - Len(y) < a)
    BY Zenon, <2>2 DEF less
  <2>4. Len(y) \in Nat /\ Len(z) \in Nat
    BY Zenon
  <2> QED BY <1>5, <2>3, <2>4
<1> QED BY Zenon, <1>6 DEF Longest

LEMMA ListType ==
    ASSUME NEW l \in Lists \cup Range(Static) \cup {Upstream}
    PROVE  l \in Seq(Servers)
<1>1. l \in Seq(Range(l)) /\ Range(l) \subseteq Servers
  BY Zenon, ResolverAssumption DEF Servers
<1> QED BY Zenon, <1>1, SeqMonotonic

LEMMA NameLen ==
    ASSUME NEW n \in Names \cup Zones \cup FwdZones \cup DOMAIN Static
    PROVE  Len(n) \in Nat
BY Zenon, ResolverAssumption, LenProperties

LEMMA RouteType == ASSUME StoreOK, NEW n \in Names PROVE Route(n) \in Seq(Servers)
<1> DEFINE F == {z \in FwdZones : fwd[z] # None /\ Under(n, z)}
           C == Covering(DOMAIN Static, n)
<1>1. Len(n) \in Nat
  BY Zenon, NameLen
<1>2. ASSUME F # {} PROVE fwd[Longest(F)] \in Lists
  <2>1. \A z \in F : Len(z) \in Nat /\ Len(z) <= Len(n)
    BY Zenon, NameLen DEF Under
  <2> HIDE DEF F
  <2>2. Longest(F) \in F
    BY Zenon, <1>1, <1>2, <2>1, LongestIn
  <2> QED BY Zenon, <2>2 DEF F, StoreOK
<1>3. ASSUME C # {} PROVE Static[Longest(C)] \in Range(Static)
  <2>1. \A z \in C : Len(z) \in Nat /\ Len(z) <= Len(n)
    BY Zenon, NameLen DEF Under, Covering
  <2> HIDE DEF C
  <2>2. Longest(C) \in C
    BY Zenon, <1>1, <1>3, <2>1, LongestIn
  <2> QED BY Zenon, <2>2 DEF C, Covering, Range
<1>4. find_forward_servers(n) = None \/ find_forward_servers(n) \in Lists \cup Range(Static)
  BY Zenon, <1>2, <1>3 DEF find_forward_servers
<1> QED BY Zenon, <1>4, ListType DEF Route

LEMMA SeqRange ==
    ASSUME NEW s \in Seq(Servers), s # <<>>
    PROVE  /\ Head(s) \in Servers /\ Head(s) \in Range(s)
           /\ Tail(s) \in Seq(Servers) /\ Range(Tail(s)) \subseteq Range(s)
<1>1. Head(s) \in Servers /\ Tail(s) \in Seq(Servers)
  BY Zenon, HeadTailProperties
<1>2. Len(s) \in Nat \ {0} /\ Range(s) = {s[i] : i \in 1..Len(s)}
  BY Zenon, EmptySeq, RangeEquality
<1>3. Head(s) = s[1] /\ 1 \in 1..Len(s)
  BY <1>2
<1>4. /\ Len(Tail(s)) = Len(s) - 1 /\ \A i \in 1..Len(Tail(s)) : Tail(s)[i] = s[i + 1]
      /\ Range(Tail(s)) = {Tail(s)[i] : i \in 1..Len(Tail(s))}
  <2>1. Len(Tail(s)) = Len(s) - 1 /\ \A i \in 1..Len(Tail(s)) : Tail(s)[i] = s[i + 1]
    BY Zenon, HeadTailProperties
  <2>2. Range(Tail(s)) = {Tail(s)[i] : i \in 1..Len(Tail(s))}
    BY Zenon, <1>1, RangeEquality
  <2> QED BY Zenon, <2>1, <2>2
<1>5. \A i \in 1..Len(Tail(s)) : i + 1 \in 1..Len(s)
  BY <1>2, <1>4
<1> QED BY Zenon, <1>1, <1>2, <1>3, <1>4, <1>5

-----------------------------------------------------------------------------
(* Steps of a query leave the store and the forwarders alone. *)

LEMMA Frame ==
    ASSUME UNCHANGED storeAndConfig
    PROVE  Held' = Held /\ InCharge' = InCharge /\ (StoreOK => StoreOK')
<1>1. zones' = zones /\ rows' = rows /\ fwd' = fwd /\ api' = api
  BY Zenon DEF storeAndConfig
<1> QED BY Zenon, <1>1 DEF StoreOK, Held, InCharge, is_authoritative, find_zone_for_fqdn, Covering, Route,
               find_forward_servers

LEMMA Moved ==
    ASSUME QueriesOK, Held' = Held, InCharge' = InCharge, NEW p \in Queries, NEW r \in Query, Good(r),
           q' = [q EXCEPT ![p] = r]
    PROVE  /\ QueriesOK' /\ Storing' \subseteq Storing \cup {p}
           /\ r.at # "store" => Storing' \subseteq Storing \ {p}
<1>1. q' \in [Queries -> Query] /\ q'[p] = r /\ \A o \in Queries \ {p} : q'[o] = q[o]
  BY Zenon DEF QueriesOK
<1>2. ASSUME NEW o \in Queries PROVE Good(q[o])'
  <2>1. Good(q'[o])
    BY Zenon, <1>1 DEF QueriesOK
  <2> QED BY Zenon, <2>1 DEF Good
<1> QED BY Zenon, <1>1, <1>2 DEF QueriesOK, Storing

LEMMA QueryFields ==
    ASSUME QueriesOK, NEW p \in Queries
    PROVE  /\ q[p] \in Query /\ Good(q[p])
           /\ q[p].at \in Stages /\ q[p].rows \in SUBSET Rows /\ q[p].todo \in Seq(Servers)
           /\ q[p].ttl \in 0..MaxTtl /\ q[p].name \in Names \cup {<<>>} /\ q[p].routed \in BOOLEAN
<1>1. q[p] \in Query /\ Good(q[p])
  BY Zenon DEF QueriesOK
<1> QED BY Zenon, <1>1 DEF Query

LEMMA NoTodo == <<>> \in Seq(Servers) /\ Range(<<>>) = {} /\ 0 \in 0..MaxTtl
<1>1. <<>> \in Seq(Servers)
  BY Zenon, EmptySeq
<1>2. Range(<<>>) = {}
  BY DEF Range
<1>3. 0 \in 0..MaxTtl
  BY ResolverAssumption
<1> QED BY Zenon, <1>1, <1>2, <1>3

LEMMA ReplyKeeps ==
    ASSUME QueriesOK, Held' = Held, InCharge' = InCharge, NEW p \in Queries, q[p].at # "idle",
           NEW code \in Codes, NEW ans \in SUBSET Answers, NEW from \in Servers \cup {"local", None},
           Reply(p, code, ans, from),
           from \in Servers => "zone" \in q[p].seen \/ q[p].name \notin Held
    PROVE  QueriesOK' /\ Storing' \subseteq Storing \ {p}
<1> DEFINE r == [q[p] EXCEPT !.at = "done", !.code = code, !.ans = ans, !.from = from, !.rows = {},
                             !.todo = <<>>, !.ttl = 0, !.routed = FALSE]
<1>1. q[p] \in Query /\ Good(q[p])
  BY Zenon, QueryFields
<1>2. r \in Query
  BY ZenonT(40), <1>1, NoTodo DEF Query, Stages
<1>3. r.at = "done" /\ r.from = from /\ r.name = q[p].name /\ r.seen = q[p].seen
  BY Zenon, <1>1 DEF Query
<1>4. q' = [q EXCEPT ![p] = r]
  BY Zenon DEF Reply, Goto
<1> HIDE DEF r
<1>5. Good(r)
  BY Zenon, <1>1, <1>3 DEF Good, Abroad
<1> QED BY Zenon, <1>2, <1>3, <1>4, <1>5, Moved

LEMMA StageKeeps ==
    ASSUME QueriesOK, Held' = Held, InCharge' = InCharge, NEW p \in Queries,
           q[p].at # "idle", q[p].type \in Types,
           NEW stage \in {"look", "neg", "cache", "choose", "fallback"},
           GotoStage(p, stage),
           stage \in Abroad => "zone" \in q[p].seen \/ q[p].name \notin Held
    PROVE  QueriesOK' /\ Storing' \subseteq Storing \ {p}
<1> DEFINE r == [q[p] EXCEPT !.at = stage]
<1>1. q[p] \in Query /\ Good(q[p])
  BY Zenon, QueryFields
<1>2. r \in Query
  BY Zenon, <1>1 DEF Query, Stages
<1>3. r.at = stage /\ r.type = q[p].type /\ r.name = q[p].name /\ r.seen = q[p].seen
  BY Zenon, <1>1 DEF Query
<1>4. q' = [q EXCEPT ![p] = r]
  BY Zenon DEF GotoStage, Goto
<1> HIDE DEF r
<1>5. Good(r)
  BY Zenon, <1>1, <1>3 DEF Good, Abroad
<1> QED BY Zenon, <1>2, <1>3, <1>4, <1>5, Moved

LEMMA SizeKept ==
    ASSUME SizeOK, Cached' \subseteq Cached, Storing' \subseteq Storing
    PROVE  SizeOK'
<1>1. Storing \subseteq Queries /\ IsFiniteSet(Queries)
  BY Zenon, ResolverAssumption DEF Storing
<1>2. IsFiniteSet(Storing) /\ IsFiniteSet(Storing') /\ Cardinality(Storing') <= Cardinality(Storing)
  BY Zenon, <1>1, FS_Subset
<1>3. IsFiniteSet(Cached) /\ IsFiniteSet(Cached') /\ Cardinality(Cached') <= Cardinality(Cached)
  BY Zenon, FS_Subset DEF SizeOK
<1>4. /\ Cardinality(Storing) \in Nat /\ Cardinality(Storing') \in Nat /\ Cardinality(Cached) \in Nat
      /\ Cardinality(Cached') \in Nat /\ Cardinality(Queries) \in Nat /\ MaxSize \in Nat
  BY Zenon, <1>1, <1>2, <1>3, FS_CardinalityType, ResolverAssumption
<1>5. Cardinality(Cached) + Cardinality(Storing) <= MaxSize + Cardinality(Queries) - 1
  BY Zenon DEF SizeOK
<1>6. Cardinality(Cached') + Cardinality(Storing') <= MaxSize + Cardinality(Queries) - 1
  BY <1>2, <1>3, <1>4, <1>5
<1> QED BY Zenon, <1>3, <1>6 DEF SizeOK

LEMMA CacheCut ==
    ASSUME CacheOK, InCharge' = InCharge, api' = api, NEW S \in SUBSET Cached, cache' = Only(S)
    PROVE  CacheOK' /\ Cached' \subseteq Cached
<1>1. Cached' = S /\ \A k \in S : cache'[k] = cache[k]
  BY Zenon DEF Only, Cached
<1>2. cache' \in [S -> Entry]
  BY Zenon DEF Only, CacheOK
<1> QED BY Zenon, <1>1, <1>2 DEF CacheOK

LEMMA CacheSame ==
    ASSUME CacheOK, InCharge' = InCharge, api' = api, cache' = cache
    PROVE  CacheOK' /\ Cached' \subseteq Cached
<1>1. Cached' = Cached
  BY Zenon DEF Cached
<1> QED BY Zenon, <1>1 DEF CacheOK

LEMMA CacheApart ==
    ASSUME ResolverInv, UNCHANGED <<storeAndConfig, cache>>, QueriesOK', Storing' \subseteq Storing
    PROVE  ResolverInv'
<1>1. UNCHANGED storeAndConfig /\ cache' = cache /\ api' = api
  BY Zenon DEF storeAndConfig
<1>2. InCharge' = InCharge /\ StoreOK'
  BY Zenon, <1>1, Frame DEF ResolverInv
<1>3. CacheOK' /\ Cached' \subseteq Cached
  BY Zenon, <1>1, <1>2, CacheSame DEF ResolverInv
<1>4. SizeOK'
  BY Zenon, <1>3, SizeKept DEF ResolverInv
<1> QED BY Zenon, <1>2, <1>3, <1>4 DEF ResolverInv

LEMMA AnswerType ==
    ASSUME NEW o \in Owners, NEW t \in {"SOA"} \cup {r.type : r \in Rows}
    PROVE  Named(o, t) \in Answers
BY Zenon DEF Named, Answers

LEMMA LookupTypes ==
    ASSUME StoreOK, NEW n, NEW t
    PROVE  /\ find_zone_for_fqdn(n) \subseteq Zones
           /\ query_fqdn(n, t) \in SUBSET Rows
           /\ \A r \in resolve_wildcard_query(n, t) : r \in Rows /\ r.type = t /\ r.zone \in Zones
           /\ build_soa(n) \in SUBSET Answers
<1>1. find_zone_for_fqdn(n) \subseteq Zones
  BY Zenon DEF find_zone_for_fqdn, Covering, StoreOK
<1>2. \A z, m : query_records(z, m, t) \subseteq Rows
  BY Zenon DEF query_records
<1>3. query_fqdn(n, t) \subseteq Rows
  <2>1. \A z, C : FirstHit(z, C, t) \subseteq Rows
    BY Zenon, <1>2 DEF FirstHit
  <2> QED BY Zenon, <1>2, <2>1 DEF query_fqdn
<1>4. \A r \in resolve_wildcard_query(n, t) : r \in Rows /\ r.type = t /\ r.zone \in Zones
  BY Zenon, <1>1 DEF resolve_wildcard_query
<1>5. build_soa(n) \subseteq Answers
  <2>1. \A z \in Zones : z \in Owners
    BY Zenon DEF Owners
  <2> QED BY Zenon, <1>1, <2>1, AnswerType DEF build_soa
<1> QED BY Zenon, <1>1, <1>3, <1>4, <1>5

LEMMA OwnerTypes ==
    ASSUME StoreOK, NEW p \in Queries, q[p].rows \subseteq Rows, q[p].name \in Names
    PROVE  /\ owners(p) \in SUBSET Answers
           /\ UNION {record_to_proto(r) : r \in q[p].rows} \in SUBSET Answers
<1>1. \A n : find_zone_for_fqdn(n) \subseteq Zones
  BY Zenon, LookupTypes
<1>2. \A r \in Rows, z \in Zones : r.name \o z \in Owners /\ z \in Owners /\ q[p].name \in Owners
  <2> TAKE r \in Rows, z \in Zones
  <2>1. <<r, z>> \in Rows \X Zones /\ <<r, z>>[1] = r /\ <<r, z>>[2] = z
    BY Zenon
  <2> QED BY Zenon, <2>1 DEF Owners
<1>3. \A n \in Names : n \in Owners
  BY Zenon DEF Owners
<1>4. \A r \in Rows : r.type \in {"SOA"} \cup {s.type : s \in Rows}
  BY Zenon
<1>5. owners(p) \subseteq Answers
  <2> SUFFICES ASSUME NEW a \in owners(p) PROVE a \in Answers
    BY Zenon
  <2>1. PICK r \in q[p].rows :
           \/ a = Named(q[p].name, r.type)
           \/ \E z \in find_zone_for_fqdn(q[p].name) :
                 a = Named(IF r.name = Apex THEN z ELSE r.name \o z, r.type)
    BY Zenon DEF owners
  <2> QED BY Zenon, <1>1, <1>2, <1>3, <1>4, <2>1, AnswerType
<1>6. \A r \in Rows : record_to_proto(r) \subseteq Answers
  <2> SUFFICES ASSUME NEW r \in Rows, NEW a \in record_to_proto(r) PROVE a \in Answers
    BY Zenon
  <2>1. \E z \in Zones : a = Named(z, r.type) \/ a = Named(r.name \o z, r.type)
    BY Zenon, <1>1 DEF record_to_proto, StoreOK
  <2> QED BY Zenon, <1>2, <1>4, <2>1, AnswerType
<1> QED BY Zenon, <1>5, <1>6

LEMMA Fields ==
    ASSUME ResolverInv, NEW p \in Queries, q[p].at \notin {"idle"}
    PROVE  /\ q[p].name \in Names
           /\ q[p].at \notin {"zone", "done"} => q[p].type \in Types
           /\ q[p].at \in {"full", "store"} => q[p].from \in Servers
           /\ q[p].at \in Abroad => "zone" \in q[p].seen \/ q[p].name \notin Held
BY Zenon DEF ResolverInv, QueriesOK, Good

LEMMA CodeTypes ==
    {"NoError", "NXDomain", "Refused", "NotImp", "FormErr", "ServFail"} \subseteq Codes
BY Zenon DEF Codes

-----------------------------------------------------------------------------
(* The steps of a query. *)

LEMMA AskStep == ASSUME ResolverInv, NEW p \in Queries, Ask(p) PROVE ResolverInv'
<1>1. UNCHANGED storeAndConfig /\ UNCHANGED <<storeAndConfig, cache>> /\ q[p].at = "idle"
  BY Zenon DEF Ask
<1>2. Held' = Held /\ InCharge' = InCharge
  BY Zenon, <1>1, Frame
<1>3. PICK srv \in {"auth", "rec"}, n \in Names, t \in Types \cup {"opcode", "noquery"} :
        q' = [q EXCEPT ![p] = [Blank EXCEPT !.at = "zone", !.srv = srv, !.name = n, !.type = t]]
  BY Zenon DEF Ask, Goto
<1> DEFINE r == [Blank EXCEPT !.at = "zone", !.srv = srv, !.name = n, !.type = t]
<1>4. r \in Query
  BY Zenon, NoTodo DEF Query, Blank, Stages
<1>5. r.at = "zone" /\ r.name = n /\ r.type = t
  BY Zenon DEF Blank
<1> HIDE DEF r
<1>6. Good(r)
  BY Zenon, <1>5 DEF Good, Abroad
<1>7. q' = [q EXCEPT ![p] = r] /\ r.at # "store"
  BY Zenon, <1>3, <1>5 DEF r
<1>8. QueriesOK' /\ Storing' \subseteq Storing
  BY Zenon, <1>2, <1>4, <1>6, <1>7, Moved DEF ResolverInv
<1> QED BY Zenon, <1>1, <1>8, CacheApart

LEMMA BlankGood == Blank \in Query /\ Good(Blank) /\ Blank.at = "idle"
<1>1. Blank \in Query
  BY Zenon, NoTodo DEF Query, Blank, Stages
<1>2. Blank.at = "idle"
  BY Zenon DEF Blank
<1> QED BY Zenon, <1>1, <1>2 DEF Good, Abroad

LEMMA SentStep == ASSUME ResolverInv, NEW p \in Queries, Sent(p) PROVE ResolverInv'
<1>1. UNCHANGED storeAndConfig /\ UNCHANGED <<storeAndConfig, cache>> /\ q' = [q EXCEPT ![p] = Blank]
  BY Zenon DEF Sent, Goto
<1>2. Held' = Held /\ InCharge' = InCharge
  BY Zenon, <1>1, Frame
<1>3. Blank \in Query /\ Good(Blank) /\ Blank.at # "store"
  BY Zenon, BlankGood
<1>4. QueriesOK' /\ Storing' \subseteq Storing
  BY Zenon, <1>1, <1>2, <1>3, Moved DEF ResolverInv
<1> QED BY Zenon, <1>1, <1>4, CacheApart

\* A reply of this server's own, and a stage on the way to one.
LEMMA OwnReply ==
    ASSUME ResolverInv, UNCHANGED <<storeAndConfig, cache>>, NEW p \in Queries, q[p].at # "idle",
           NEW code \in Codes, NEW ans \in SUBSET Answers, NEW from \in {"local", None},
           Reply(p, code, ans, from)
    PROVE  ResolverInv'
<1>1. Held' = Held /\ InCharge' = InCharge
  BY Zenon, Frame
<1>2. from \notin Servers
  BY Zenon, ResolverAssumption
<1>3. QueriesOK' /\ Storing' \subseteq Storing
  BY Zenon, <1>1, <1>2, ReplyKeeps DEF ResolverInv
<1> QED BY Zenon, <1>3, CacheApart

LEMMA ToStage ==
    ASSUME ResolverInv, UNCHANGED <<storeAndConfig, cache>>, NEW p \in Queries, q[p].at # "idle",
           q[p].type \in Types, NEW stage \in {"look", "neg", "cache", "choose", "fallback"},
           GotoStage(p, stage),
           stage \in Abroad => "zone" \in q[p].seen \/ q[p].name \notin Held
    PROVE  ResolverInv'
<1>1. Held' = Held /\ InCharge' = InCharge
  BY Zenon, Frame
<1>2. QueriesOK' /\ Storing' \subseteq Storing
  BY Zenon, <1>1, StageKeeps DEF ResolverInv
<1> QED BY Zenon, <1>2, CacheApart

\* The records of a name are found.
LEMMA ToOwn ==
    ASSUME ResolverInv, UNCHANGED <<storeAndConfig, cache>>, NEW p \in Queries, q[p].at = "look",
           NEW R \in SUBSET Rows, Goto(p, [q[p] EXCEPT !.at = "own", !.rows = R])
    PROVE  ResolverInv'
<1> DEFINE r == [q[p] EXCEPT !.at = "own", !.rows = R]
<1>1. Held' = Held /\ InCharge' = InCharge
  BY Zenon, Frame
<1>2. q[p] \in Query /\ Good(q[p])
  BY Zenon, QueryFields DEF ResolverInv
<1>3. r \in Query
  BY Zenon, <1>2 DEF Query, Stages
<1>4. r.at = "own" /\ r.name = q[p].name /\ r.type = q[p].type
  BY Zenon, <1>2 DEF Query
<1>5. q' = [q EXCEPT ![p] = r]
  BY Zenon DEF Goto
<1> HIDE DEF r
<1>6. Good(r) /\ r.at # "store"
  BY Zenon, <1>2, <1>4 DEF Good, Abroad
<1>7. QueriesOK' /\ Storing' \subseteq Storing
  BY Zenon, <1>1, <1>3, <1>5, <1>6, Moved DEF ResolverInv
<1> QED BY Zenon, <1>7, CacheApart

LEMMA LookStep ==
    ASSUME ResolverInv, UNCHANGED <<storeAndConfig, cache>>, NEW p \in Queries, q[p].at = "look",
           resolve_query(p)
    PROVE  ResolverInv'
<1> DEFINE n == q[p].name
           t == q[p].type
           W == resolve_wildcard_query(n, t)
           A == {Named(r.name \o r.zone, t) : r \in W}
<1>1. StoreOK /\ q[p].type \in Types /\ q[p].at # "idle" /\ "neg" \notin Abroad
  BY Zenon, Fields DEF ResolverInv, Abroad
<1>2. build_soa(n) \in SUBSET Answers /\ query_fqdn(n, t) \in SUBSET Rows
  BY Zenon, <1>1, LookupTypes
<1>3. A \in SUBSET Answers
  <2>1. \A r \in W : r \in Rows /\ r.type = t /\ r.zone \in Zones
    BY Zenon, <1>1, LookupTypes
  <2> HIDE DEF W
  <2>2. ASSUME NEW r \in W PROVE r.name \o r.zone \in Owners
    <3>1. <<r, r.zone>> \in Rows \X Zones /\ <<r, r.zone>>[1] = r /\ <<r, r.zone>>[2] = r.zone
      BY Zenon, <2>1
    <3> QED BY Zenon, <3>1 DEF Owners
  <2> QED BY Zenon, <2>1, <2>2, AnswerType
<1>4. \/ Reply(p, "NoError", build_soa(n), "local")
      \/ GotoStage(p, "neg")
      \/ Reply(p, "NoError", A, "local")
      \/ Goto(p, [q[p] EXCEPT !.at = "own", !.rows = query_fqdn(n, t)])
  BY Zenon DEF resolve_query
<1> HIDE DEF n, t, A
<1>5. "NoError" \in Codes
  BY Zenon, CodeTypes
<1> QED BY Zenon, <1>1, <1>2, <1>3, <1>4, <1>5, OwnReply, ToStage, ToOwn

LEMMA MalformedStep ==
    ASSUME ResolverInv, UNCHANGED <<storeAndConfig, cache>>, NEW p \in Queries, q[p].at = "zone",
           Malformed(p)
    PROVE  ResolverInv'
<1>1. Reply(p, "NotImp", {}, None) \/ Reply(p, "FormErr", {}, None)
  BY Zenon DEF Malformed
<1>2. "NotImp" \in Codes /\ "FormErr" \in Codes /\ q[p].at # "idle" /\ {} \in SUBSET Answers
  BY Zenon, CodeTypes
<1> QED BY Zenon, <1>1, <1>2, OwnReply

\* What is asked of the store has one of the types.
LEMMA AskedType ==
    ASSUME ResolverInv, NEW p \in Queries, q[p].at = "zone", q[p].type \notin {"opcode", "noquery"}
    PROVE  q[p].type \in Types
<1>1. q[p].type \in Types \cup {"opcode", "noquery"}
  BY Zenon DEF ResolverInv, QueriesOK, Good
<1> QED BY Zenon, <1>1

LEMMA HandleStep == ASSUME ResolverInv, NEW p \in Queries, handle_query(p) PROVE ResolverInv'
<1>1. UNCHANGED <<storeAndConfig, cache>>
  BY Zenon DEF handle_query
<1>2. ASSUME q[p].at = "zone", q[p].type \in {"opcode", "noquery"}, Malformed(p) PROVE ResolverInv'
  BY Zenon, <1>1, <1>2, MalformedStep
<1>3. ASSUME q[p].at = "zone", q[p].type \notin {"opcode", "noquery"}, GotoStage(p, "look")
      PROVE  ResolverInv'
  <2>1. q[p].type \in Types /\ q[p].at # "idle" /\ "look" \notin Abroad
    BY Zenon, <1>3, AskedType DEF Abroad
  <2> QED BY Zenon, <1>1, <1>3, <2>1, ToStage
<1>4. ASSUME q[p].at = "zone", Reply(p, "Refused", {}, None) PROVE ResolverInv'
  <2>1. "Refused" \in Codes /\ q[p].at # "idle" /\ {} \in SUBSET Answers
    BY Zenon, <1>4, CodeTypes
  <2> QED BY Zenon, <1>1, <1>4, <2>1, OwnReply
<1>5. ASSUME q[p].at = "look", resolve_query(p) PROVE ResolverInv'
  BY Zenon, <1>1, <1>5, LookStep
<1>6. ASSUME q[p].at = "own", GotoStage(p, "neg") \/ Reply(p, "NoError", owners(p), "local")
      PROVE  ResolverInv'
  <2>1. q[p].name \in Names /\ q[p].type \in Types /\ q[p].at # "idle" /\ "neg" \notin Abroad
    BY Zenon, <1>6, Fields DEF Abroad
  <2>2. StoreOK /\ q[p].rows \subseteq Rows
    BY Zenon, QueryFields DEF ResolverInv
  <2>3. owners(p) \in SUBSET Answers /\ "NoError" \in Codes
    BY Zenon, <2>1, <2>2, OwnerTypes, CodeTypes
  <2> QED BY Zenon, <1>1, <1>6, <2>1, <2>3, ToStage, OwnReply
<1> QED BY Zenon, <1>2, <1>3, <1>4, <1>5, <1>6 DEF handle_query, At

LEMMA NegativeStep == ASSUME ResolverInv, NEW p \in Queries, Negative(p) PROVE ResolverInv'
<1>1. UNCHANGED <<storeAndConfig, cache>> /\ q[p].at # "idle"
  BY Zenon DEF Negative
<1>2. Reply(p, "NoError", {}, "local") \/ Reply(p, "NXDomain", {}, "local")
  BY Zenon DEF Negative
<1>3. "NoError" \in Codes /\ "NXDomain" \in Codes /\ {} \in SUBSET Answers
  BY Zenon, CodeTypes
<1> QED BY Zenon, <1>1, <1>2, <1>3, OwnReply

LEMMA LocalStep == ASSUME ResolverInv, NEW p \in Queries, Local(p) PROVE ResolverInv'
<1>1. UNCHANGED <<storeAndConfig, cache>> /\ q[p].at = "zone" /\ q[p].at # "idle"
  BY Zenon DEF Local, At
<1>2. CASE q[p].type \in {"opcode", "noquery"}
  BY Zenon, <1>1, <1>2, MalformedStep DEF Local
<1>3. CASE q[p].type \notin {"opcode", "noquery"}
  <2>1. q[p].type \in Types /\ q[p].name \in Names /\ "look" \notin Abroad
    BY Zenon, <1>1, <1>3, AskedType, Fields DEF Abroad
  <2>2. \/ is_authoritative(q[p].name) /\ GotoStage(p, "look")
        \/ ~is_authoritative(q[p].name) /\ GotoStage(p, "cache")
    BY Zenon, <1>3 DEF Local
  <2>3. ~is_authoritative(q[p].name) => q[p].name \notin Held
    BY Zenon DEF Held
  <2> QED BY Zenon, <1>1, <2>1, <2>2, <2>3, ToStage
<1> QED BY Zenon, <1>2, <1>3

\* A step of a query that also takes entries out of the cache.
LEMMA CacheCutToo ==
    ASSUME ResolverInv, UNCHANGED storeAndConfig, NEW S \in SUBSET Cached, cache' = Only(S),
           QueriesOK', Storing' \subseteq Storing
    PROVE  ResolverInv'
<1>1. InCharge' = InCharge /\ StoreOK' /\ api' = api
  BY Zenon, Frame DEF ResolverInv, storeAndConfig
<1>2. CacheOK' /\ Cached' \subseteq Cached
  BY Zenon, <1>1, CacheCut DEF ResolverInv
<1>3. SizeOK'
  BY Zenon, <1>2, SizeKept DEF ResolverInv
<1> QED BY Zenon, <1>1, <1>2, <1>3 DEF ResolverInv

LEMMA CacheGetStep == ASSUME ResolverInv, NEW p \in Queries, cache_get(p) PROVE ResolverInv'
<1>1. UNCHANGED storeAndConfig /\ q[p].at = "cache" /\ q[p].at # "idle"
  BY Zenon DEF cache_get, At
<1>2. Held' = Held /\ InCharge' = InCharge
  BY Zenon, <1>1, Frame
<1>3. q[p].type \in Types /\ ("zone" \in q[p].seen \/ q[p].name \notin Held)
  BY Zenon, <1>1, Fields DEF Abroad
<1>4. CASE Live(Key(p))
  <2>1. Key(p) \in Cached /\ cache \in [Cached -> Entry]
    BY Zenon, <1>4 DEF Live, ResolverInv, CacheOK
  <2>2. cache[Key(p)].from \in Servers
    BY Zenon, <2>1 DEF Entry
  <2>3. Reply(p, "NoError", {}, cache[Key(p)].from) /\ UNCHANGED <<storeAndConfig, cache>>
    BY Zenon, <1>1, <1>4 DEF cache_get
  <2>4. "NoError" \in Codes /\ {} \in SUBSET Answers /\ cache[Key(p)].from \in Servers \cup {"local", None}
    BY Zenon, <2>2, CodeTypes
  <2>5. QueriesOK' /\ Storing' \subseteq Storing
    BY Zenon, <1>1, <1>2, <1>3, <2>3, <2>4, ReplyKeeps DEF ResolverInv
  <2> QED BY Zenon, <2>3, <2>5, CacheApart
<1>5. CASE ~Live(Key(p))
  <2>1. GotoStage(p, "choose") /\ cache' = Only(Cached \ {Key(p)})
    BY Zenon, <1>5 DEF cache_get
  <2>2. QueriesOK' /\ Storing' \subseteq Storing
    BY Zenon, <1>1, <1>2, <1>3, <2>1, StageKeeps DEF ResolverInv
  <2>3. Cached \ {Key(p)} \in SUBSET Cached
    BY Zenon
  <2> QED BY Zenon, <1>1, <2>1, <2>2, <2>3, CacheCutToo
<1> QED BY Zenon, <1>4, <1>5

LEMMA ChooseStep == ASSUME ResolverInv, NEW p \in Queries, Choose(p) PROVE ResolverInv'
<1> DEFINE r == [q[p] EXCEPT !.at = "send", !.todo = Route(q[p].name), !.seen = @ \ {"fwd"},
                             !.routed = find_forward_servers(q[p].name) # None]
<1>1. UNCHANGED storeAndConfig /\ UNCHANGED <<storeAndConfig, cache>> /\ q[p].at = "choose"
  BY Zenon DEF Choose, At
<1>2. Held' = Held /\ InCharge' = InCharge
  BY Zenon, <1>1, Frame
<1>3. q[p] \in Query /\ Good(q[p])
  BY Zenon, QueryFields DEF ResolverInv
<1>4. /\ q[p].name \in Names /\ q[p].type \in Types
      /\ "zone" \in q[p].seen \/ q[p].name \notin Held
  BY Zenon, <1>1, Fields DEF Abroad
<1>5. Route(q[p].name) \in Seq(Servers) /\ Range(Route(q[p].name)) = InCharge[q[p].name]
  BY Zenon, <1>4, RouteType DEF InCharge, ResolverInv
<1>6. r \in Query
  BY ZenonT(40), <1>3, <1>5 DEF Query, Stages
<1>7. /\ r.at = "send" /\ r.name = q[p].name /\ r.type = q[p].type /\ r.todo = Route(q[p].name)
      /\ r.seen = q[p].seen \ {"fwd"}
  BY Zenon, <1>3 DEF Query
<1>8. q' = [q EXCEPT ![p] = r]
  BY Zenon DEF Choose, Goto
<1> HIDE DEF r
<1>9. Good(r) /\ r.at # "store"
  BY Zenon, <1>4, <1>5, <1>7 DEF Good, Abroad
<1>10. QueriesOK' /\ Storing' \subseteq Storing
  BY Zenon, <1>2, <1>6, <1>8, <1>9, Moved DEF ResolverInv
<1> QED BY Zenon, <1>1, <1>10, CacheApart

LEMMA ForwardStep == ASSUME ResolverInv, NEW p \in Queries, forward_query(p) PROVE ResolverInv'
<1>1. UNCHANGED storeAndConfig /\ UNCHANGED <<storeAndConfig, cache>> /\ q[p].at = "send" /\ q[p].at # "idle"
  BY Zenon DEF forward_query, At
<1>2. Held' = Held /\ InCharge' = InCharge
  BY Zenon, <1>1, Frame
<1>3. q[p] \in Query /\ Good(q[p]) /\ q[p].todo \in Seq(Servers)
  BY Zenon, QueryFields DEF ResolverInv
<1>4. /\ q[p].name \in Names /\ q[p].type \in Types
      /\ "zone" \in q[p].seen \/ q[p].name \notin Held
  BY Zenon, <1>1, Fields DEF Abroad
<1>5. "fwd" \in q[p].seen \/ Range(q[p].todo) \subseteq InCharge[q[p].name]
  BY Zenon, <1>1, <1>3 DEF Good
<1>6. ASSUME GotoStage(p, "fallback") PROVE ResolverInv'
  BY Zenon, <1>1, <1>4, <1>6, ToStage
<1>7. ASSUME Reply(p, "ServFail", {}, None) PROVE ResolverInv'
  <2>1. "ServFail" \in Codes /\ {} \in SUBSET Answers
    BY Zenon, CodeTypes
  <2> QED BY Zenon, <1>1, <1>7, <2>1, OwnReply
<1>8. ASSUME q[p].todo # <<>>, NEW code \in {"NoError", "NXDomain", "ServFail"},
             Reply(p, code, {}, Head(q[p].todo))
      PROVE  ResolverInv'
  <2>1. Head(q[p].todo) \in Servers \cup {"local", None} /\ code \in Codes /\ {} \in SUBSET Answers
    BY Zenon, <1>3, <1>8, SeqRange, CodeTypes
  <2>2. QueriesOK' /\ Storing' \subseteq Storing
    BY Zenon, <1>1, <1>2, <1>4, <1>8, <2>1, ReplyKeeps DEF ResolverInv
  <2> QED BY Zenon, <1>1, <2>2, CacheApart
<1>9. ASSUME q[p].todo # <<>>, NEW ttl \in 0..MaxTtl,
             Goto(p, [q[p] EXCEPT !.at = "full", !.ttl = ttl, !.from = Head(q[p].todo)])
      PROVE  ResolverInv'
  <2> DEFINE r == [q[p] EXCEPT !.at = "full", !.ttl = ttl, !.from = Head(q[p].todo)]
  <2>1. Head(q[p].todo) \in Servers /\ Head(q[p].todo) \in Range(q[p].todo)
    BY Zenon, <1>3, <1>9, SeqRange
  <2>2. r \in Query
    BY Zenon, <1>3, <2>1 DEF Query, Stages
  <2>3. /\ r.at = "full" /\ r.name = q[p].name /\ r.type = q[p].type /\ r.from = Head(q[p].todo)
        /\ r.seen = q[p].seen
    BY Zenon, <1>3 DEF Query
  <2>4. q' = [q EXCEPT ![p] = r]
    BY Zenon, <1>9 DEF Goto
  <2> HIDE DEF r
  <2>5. Good(r) /\ r.at # "store"
    BY Zenon, <1>4, <1>5, <2>1, <2>3 DEF Good, Abroad
  <2>6. QueriesOK' /\ Storing' \subseteq Storing
    BY Zenon, <1>2, <2>2, <2>4, <2>5, Moved DEF ResolverInv
  <2> QED BY Zenon, <1>1, <2>6, CacheApart
<1>10. ASSUME q[p].todo # <<>>, Goto(p, [q[p] EXCEPT !.todo = Tail(@)]) PROVE ResolverInv'
  <2> DEFINE r == [q[p] EXCEPT !.todo = Tail(@)]
  <2>1. Tail(q[p].todo) \in Seq(Servers) /\ Range(Tail(q[p].todo)) \subseteq Range(q[p].todo)
    BY Zenon, <1>3, <1>10, SeqRange
  <2>2. r \in Query
    BY Zenon, <1>3, <2>1 DEF Query
  <2>3. /\ r.at = "send" /\ r.name = q[p].name /\ r.type = q[p].type /\ r.todo = Tail(q[p].todo)
        /\ r.seen = q[p].seen
    BY Zenon, <1>1, <1>3 DEF Query
  <2>4. q' = [q EXCEPT ![p] = r]
    BY Zenon, <1>10 DEF Goto
  <2> HIDE DEF r
  <2>5. Good(r) /\ r.at # "store"
    BY Zenon, <1>4, <1>5, <2>1, <2>3 DEF Good, Abroad
  <2>6. QueriesOK' /\ Storing' \subseteq Storing
    BY Zenon, <1>2, <2>2, <2>4, <2>5, Moved DEF ResolverInv
  <2> QED BY Zenon, <1>1, <2>6, CacheApart
<1>11. \/ GotoStage(p, "fallback") \/ Reply(p, "ServFail", {}, None)
       \/ q[p].todo # <<>> /\ \E code \in {"NoError", "NXDomain", "ServFail"} : Reply(p, code, {}, Head(q[p].todo))
       \/ q[p].todo # <<>> /\ \E ttl \in 0..MaxTtl :
             Goto(p, [q[p] EXCEPT !.at = "full", !.ttl = ttl, !.from = Head(q[p].todo)])
       \/ q[p].todo # <<>> /\ Goto(p, [q[p] EXCEPT !.todo = Tail(@)])
  BY Zenon DEF forward_query
<1> QED BY Zenon, <1>6, <1>7, <1>8, <1>9, <1>10, <1>11

\* The number of queries that may still store is bounded by the queries.
LEMMA StoringBound ==
    Storing \in SUBSET Queries /\ IsFiniteSet(Storing) /\ Cardinality(Storing) \in Nat
    /\ Cardinality(Storing) <= Cardinality(Queries) /\ Cardinality(Queries) \in Nat
<1>1. Storing \in SUBSET Queries /\ IsFiniteSet(Queries)
  BY Zenon, ResolverAssumption DEF Storing
<1> QED BY Zenon, <1>1, FS_Subset, FS_CardinalityType

LEMMA InsertStep == ASSUME ResolverInv, NEW p \in Queries, insert(p) PROVE ResolverInv'
<1> DEFINE kept == IF Cardinality(Cached) >= MaxSize THEN {k \in Cached : Live(k)} ELSE Cached
<1>1. UNCHANGED storeAndConfig /\ q[p].at = "full" /\ q[p].at # "idle"
  BY Zenon DEF insert, At
<1>2. Held' = Held /\ InCharge' = InCharge
  BY Zenon, <1>1, Frame
<1>3. /\ q[p].name \in Names /\ q[p].type \in Types /\ q[p].from \in Servers
      /\ "zone" \in q[p].seen \/ q[p].name \notin Held
  BY Zenon, <1>1, Fields DEF Abroad
<1>4. kept \in SUBSET Cached
  BY Zenon
<1>5. /\ cache' = Only(kept)
      /\ \/ Reply(p, "NoError", {}, q[p].from)
         \/ ~(Cardinality(kept) >= MaxSize) /\ GotoStage(p, "store")
  BY Zenon DEF insert
<1> HIDE DEF kept
<1>6. ASSUME Reply(p, "NoError", {}, q[p].from) PROVE ResolverInv'
  <2>1. q[p].from \in Servers \cup {"local", None} /\ "NoError" \in Codes /\ {} \in SUBSET Answers
    BY Zenon, <1>3, CodeTypes
  <2>2. QueriesOK' /\ Storing' \subseteq Storing
    BY Zenon, <1>1, <1>2, <1>3, <1>6, <2>1, ReplyKeeps DEF ResolverInv
  <2> QED BY Zenon, <1>1, <1>4, <1>5, <2>2, CacheCutToo
<1>7. ASSUME ~(Cardinality(kept) >= MaxSize), GotoStage(p, "store") PROVE ResolverInv'
  <2> DEFINE r == [q[p] EXCEPT !.at = "store"]
  <2>1. q[p] \in Query /\ Good(q[p])
    BY Zenon, QueryFields DEF ResolverInv
  <2>2. r \in Query
    BY Zenon, <2>1 DEF Query, Stages
  <2>3. /\ r.at = "store" /\ r.name = q[p].name /\ r.type = q[p].type /\ r.from = q[p].from
        /\ r.seen = q[p].seen
    BY Zenon, <2>1 DEF Query
  <2>4. q' = [q EXCEPT ![p] = r]
    BY Zenon, <1>7 DEF GotoStage, Goto
  <2> HIDE DEF r
  <2>5. Good(r)
    BY Zenon, <1>1, <1>3, <2>1, <2>3 DEF Good, Abroad
  <2>6. QueriesOK'
    BY Zenon, <1>2, <2>2, <2>4, <2>5, Moved DEF ResolverInv
  <2>7. StoreOK' /\ CacheOK' /\ Cached' = kept
    <3>1. api' = api /\ Cached' = kept
      BY Zenon, <1>1, <1>5 DEF storeAndConfig, Only, Cached
    <3> QED BY Zenon, <1>1, <1>2, <1>4, <1>5, <3>1, Frame, CacheCut DEF ResolverInv
  <2>8. IsFiniteSet(kept) /\ Cardinality(kept) \in Nat
    BY Zenon, <1>4, FS_Subset, FS_CardinalityType DEF ResolverInv, SizeOK
  <2>9. Storing' \in SUBSET Queries /\ Cardinality(Storing') \in Nat /\ Cardinality(Storing') <= Cardinality(Queries)
    <3>1. Storing' \in SUBSET Queries /\ IsFiniteSet(Queries)
      BY Zenon, ResolverAssumption DEF Storing
    <3> QED BY Zenon, <3>1, FS_Subset, FS_CardinalityType
  <2>10. Cardinality(kept) + Cardinality(Storing') <= MaxSize + Cardinality(Queries) - 1
    BY <1>7, <2>8, <2>9, StoringBound, ResolverAssumption
  <2>11. SizeOK'
    BY Zenon, <2>7, <2>8, <2>10 DEF SizeOK
  <2> QED BY Zenon, <2>6, <2>7, <2>11 DEF ResolverInv
<1> QED BY Zenon, <1>5, <1>6, <1>7

LEMMA StoreStep == ASSUME ResolverInv, NEW p \in Queries, Store(p) PROVE ResolverInv'
<1> DEFINE k == Key(p)
           e == [from |-> q[p].from, left |-> q[p].ttl, excused |-> "fwd" \in q[p].seen]
<1>1. UNCHANGED storeAndConfig /\ q[p].at = "store" /\ q[p].at # "idle" /\ api' = api
  BY Zenon DEF Store, At, storeAndConfig
<1>2. Held' = Held /\ InCharge' = InCharge /\ StoreOK'
  BY Zenon, <1>1, Frame DEF ResolverInv
<1>3. /\ q[p].name \in Names /\ q[p].type \in Types /\ q[p].from \in Servers
      /\ "zone" \in q[p].seen \/ q[p].name \notin Held
  BY Zenon, <1>1, Fields DEF Abroad
<1>4. q[p].ttl \in 0..MaxTtl /\ ("fwd" \in q[p].seen \/ q[p].from \in InCharge[q[p].name])
  BY Zenon, <1>1, QueryFields DEF ResolverInv, Good
<1>5. Reply(p, "NoError", {}, q[p].from) /\ cache' = [x \in Cached \cup {k} |-> IF x = k THEN e ELSE cache[x]]
  BY Zenon DEF Store
<1>6. QueriesOK' /\ Storing' \subseteq Storing \ {p}
  <2>1. q[p].from \in Servers \cup {"local", None} /\ "NoError" \in Codes /\ {} \in SUBSET Answers
    BY Zenon, <1>3, CodeTypes
  <2> QED BY Zenon, <1>1, <1>2, <1>3, <1>5, <2>1, ReplyKeeps DEF ResolverInv
<1>7. e \in Entry
  BY <1>3, <1>4 DEF Entry
<1>8. k \in Names \X Types /\ k[1] = q[p].name
  BY Zenon, <1>3 DEF Key
<1>9. e.from \in InCharge[k[1]] \/ e.excused
  BY Zenon, <1>4, <1>8
<1> HIDE DEF k, e
<1>10. /\ Cached' = Cached \cup {k} /\ cache' \in [Cached \cup {k} -> Entry] /\ cache'[k] = e
       /\ \A i \in Cached \ {k} : cache'[i] = cache[i]
  <2>1. cache \in [Cached -> Entry]
    BY Zenon DEF ResolverInv, CacheOK
  <2>2. cache' \in [Cached \cup {k} -> Entry]
    BY Zenon, <1>5, <1>7, <2>1
  <2> QED BY Zenon, <1>5, <2>2 DEF Cached
<1>11. CacheOK'
  <2>1. Cached \subseteq Names \X Types
    BY Zenon DEF ResolverInv, CacheOK
  <2>2. Cached' \subseteq Names \X Types
    BY Zenon, <1>8, <1>10, <2>1
  <2>3. ASSUME NEW i \in Cached', cache'[i].left > 0, cache'[i].from \notin InCharge'[i[1]]
        PROVE  api' = "clear" \/ cache'[i].excused
    BY Zenon, <1>1, <1>2, <1>9, <1>10, <2>3 DEF ResolverInv, CacheOK
  <2> QED BY Zenon, <1>10, <2>2, <2>3 DEF CacheOK
<1>12. SizeOK'
  <2>1. IsFiniteSet(Cached) /\ Cardinality(Cached) + Cardinality(Storing) <= MaxSize + Cardinality(Queries) - 1
    BY Zenon DEF ResolverInv, SizeOK
  <2>2. IsFiniteSet(Cached') /\ Cardinality(Cached') <= Cardinality(Cached) + 1
    <3>1. /\ IsFiniteSet(Cached \cup {k}) /\ Cardinality(Cached) \in Nat
          /\ Cardinality(Cached \cup {k}) = IF k \in Cached THEN Cardinality(Cached) ELSE Cardinality(Cached) + 1
      BY Zenon, <2>1, FS_AddElement, FS_CardinalityType
    <3>2. Cardinality(Cached \cup {k}) <= Cardinality(Cached) + 1
      BY <3>1
    <3> QED BY Zenon, <1>10, <3>1, <3>2
  <2>3. /\ IsFiniteSet(Storing \ {p}) /\ Cardinality(Storing \ {p}) = Cardinality(Storing) - 1
    <3>1. p \in Storing
      BY Zenon, <1>1 DEF Storing
    <3> QED BY Zenon, <3>1, StoringBound, FS_RemoveElement
  <2>4. Cardinality(Storing') <= Cardinality(Storing \ {p}) /\ Cardinality(Storing') \in Nat
    BY Zenon, <1>6, <2>3, FS_Subset, FS_CardinalityType
  <2>5. /\ Cardinality(Cached) \in Nat /\ Cardinality(Cached') \in Nat /\ Cardinality(Storing) \in Nat
        /\ Cardinality(Queries) \in Nat /\ MaxSize \in Nat
    BY Zenon, <2>1, <2>2, StoringBound, FS_CardinalityType, ResolverAssumption
  <2>6. Cardinality(Cached') + Cardinality(Storing') <= MaxSize + Cardinality(Queries) - 1
    BY <2>1, <2>2, <2>3, <2>4, <2>5
  <2> QED BY Zenon, <2>2, <2>6 DEF SizeOK
<1> QED BY Zenon, <1>2, <1>6, <1>11, <1>12 DEF ResolverInv

LEMMA FallbackStep == ASSUME ResolverInv, NEW p \in Queries, Fallback(p) PROVE ResolverInv'
<1>1. UNCHANGED storeAndConfig /\ UNCHANGED <<storeAndConfig, cache>> /\ q[p].at = "fallback" /\ q[p].at # "idle"
  BY Zenon DEF Fallback, At
<1>2. Held' = Held /\ InCharge' = InCharge
  BY Zenon, <1>1, Frame
<1>3. ASSUME Reply(p, "ServFail", {}, None) PROVE ResolverInv'
  <2>1. "ServFail" \in Codes /\ {} \in SUBSET Answers
    BY Zenon, CodeTypes
  <2> QED BY Zenon, <1>1, <1>3, <2>1, OwnReply
<1>4. ASSUME Goto(p, [q[p] EXCEPT !.at = "look", !.aa = FALSE, !.routed = FALSE]) PROVE ResolverInv'
  <2> DEFINE r == [q[p] EXCEPT !.at = "look", !.aa = FALSE, !.routed = FALSE]
  <2>1. q[p] \in Query /\ q[p].name \in Names /\ q[p].type \in Types
    BY Zenon, <1>1, QueryFields, Fields DEF ResolverInv
  <2>2. r \in Query
    BY Zenon, <2>1 DEF Query, Stages
  <2>3. r.at = "look" /\ r.name = q[p].name /\ r.type = q[p].type
    BY Zenon, <2>1 DEF Query
  <2>4. q' = [q EXCEPT ![p] = r]
    BY Zenon, <1>4 DEF Goto
  <2> HIDE DEF r
  <2>5. Good(r) /\ r.at # "store"
    BY Zenon, <2>1, <2>3 DEF Good, Abroad
  <2>6. QueriesOK' /\ Storing' \subseteq Storing
    BY Zenon, <1>2, <2>2, <2>4, <2>5, Moved DEF ResolverInv
  <2> QED BY Zenon, <1>1, <2>6, CacheApart
<1> QED BY Zenon, <1>3, <1>4 DEF Fallback

LEMMA FromLocalStep == ASSUME ResolverInv, NEW p \in Queries, resolve_from_local(p) PROVE ResolverInv'
<1> DEFINE n == q[p].name
           t == q[p].type
           A == UNION {record_to_proto(r) : r \in q[p].rows}
<1>1. UNCHANGED <<storeAndConfig, cache>> /\ q[p].at \in {"look", "own"}
  BY Zenon DEF resolve_from_local, At
<1>2. q[p].at # "idle" /\ n \in Names /\ t \in Types /\ "neg" \notin Abroad
  BY Zenon, <1>1, Fields DEF Abroad
<1>3. StoreOK /\ q[p].rows \subseteq Rows
  BY Zenon, QueryFields DEF ResolverInv
<1>4. A \in SUBSET Answers /\ build_soa(n) \in SUBSET Answers /\ query_fqdn(n, t) \in SUBSET Rows
  BY Zenon, <1>2, <1>3, OwnerTypes, LookupTypes
<1>5. "NoError" \in Codes /\ "NotImp" \in Codes /\ {} \in SUBSET Answers
  BY Zenon, CodeTypes
<1>6. \/ Reply(p, "NoError", build_soa(n), "local") \/ Reply(p, "NotImp", {}, "local")
      \/ GotoStage(p, "neg")
      \/ q[p].at = "look" /\ Goto(p, [q[p] EXCEPT !.at = "own", !.rows = query_fqdn(n, t)])
      \/ Reply(p, "NoError", A, "local")
  BY Zenon DEF resolve_from_local, At
<1> HIDE DEF n, t, A
<1>7. q[p].type \in Types
  BY Zenon, <1>2 DEF t
<1> QED BY Zenon, <1>1, <1>2, <1>4, <1>5, <1>6, <1>7, OwnReply, ToStage, ToOwn

LEMMA QueryKeeps == ASSUME ResolverInv, NEW p \in Queries, QueryStep(p) PROVE ResolverInv'
BY Zenon, HandleStep, NegativeStep, LocalStep, CacheGetStep, ChooseStep, ForwardStep, InsertStep, StoreStep,
   FallbackStep, FromLocalStep DEF QueryStep

-----------------------------------------------------------------------------
(* Writers, time and a restart. *)

LEMMA NoticedKeeps ==
    ASSUME QueriesOK, NEW what \in {"zone", "row", "fwd"}, Noticed(what),
           what = "zone" \/ Held' = Held, what = "fwd" \/ InCharge' = InCharge
    PROVE  QueriesOK' /\ Storing' \subseteq Storing
<1>1. ASSUME NEW p \in Queries PROVE q'[p] \in Query /\ Good(q[p])' /\ q'[p].at = q[p].at
  <2>1. q[p] \in Query /\ Good(q[p])
    BY Zenon, QueryFields
  <2>2. CASE q[p].at = "idle"
    <3>1. q'[p] = q[p]
      BY Zenon, <2>2 DEF Noticed
    <3> QED BY Zenon, <2>1, <2>2, <3>1 DEF Good, Abroad
  <2>3. CASE q[p].at # "idle"
    <3> DEFINE r == [q[p] EXCEPT !.seen = @ \cup {what}]
    <3>1. q'[p] = r
      BY Zenon, <2>3 DEF Noticed
    <3>2. r \in Query
      BY <2>1 DEF Query
    <3>3. /\ r.at = q[p].at /\ r.name = q[p].name /\ r.type = q[p].type /\ r.from = q[p].from
          /\ r.todo = q[p].todo /\ r.seen = q[p].seen \cup {what}
      BY Zenon, <2>1 DEF Query
    <3> HIDE DEF r
    <3>4. Good(q[p])'
      BY Zenon, <2>1, <3>1, <3>3 DEF Good
    <3> QED BY Zenon, <3>1, <3>2, <3>3, <3>4
  <2> QED BY Zenon, <2>2, <2>3
<1>2. q' \in [Queries -> Query]
  <2>1. q' = [p \in Queries |-> q'[p]]
    BY Zenon DEF Noticed
  <2> QED BY Zenon, <1>1, <2>1
<1> QED BY Zenon, <1>1, <1>2 DEF QueriesOK, Storing

LEMMA WriteStoreStep == ASSUME ResolverInv, WriteStore PROVE ResolverInv'
<1>1. fwd' = fwd /\ cache' = cache /\ api = "idle" /\ api' \in {"idle", "clear"} /\ Cached' = Cached
  BY Zenon DEF WriteStore, Cached
<1>2. InCharge' = InCharge
  BY Zenon, <1>1 DEF InCharge, Route, find_forward_servers
<1>3. StoreOK' /\ QueriesOK' /\ Storing' \subseteq Storing
  <2>1. CASE /\ \E z \in Zones : \/ z \notin zones /\ zones' = zones \cup {z}
                                 \/ z \in zones /\ zones' = zones \ {z}
             /\ rows' = [r \in Rows |-> IF r.zone \in zones' THEN rows[r] ELSE "none"]
             /\ Noticed("zone")
    <3>1. zones' \subseteq Zones
      BY Zenon, <2>1 DEF ResolverInv, StoreOK
    <3>2. rows' \in [Rows -> {"none", "on", "off"}] /\ \A r \in Rows : r.zone \notin zones' => rows'[r] = "none"
      BY Zenon, <2>1 DEF ResolverInv, StoreOK
    <3>3. StoreOK'
      BY Zenon, <1>1, <3>1, <3>2 DEF ResolverInv, StoreOK
    <3> QED BY Zenon, <1>2, <2>1, <3>3, NoticedKeeps DEF ResolverInv
  <2>2. CASE /\ \E r \in Rows, v \in {"none", "on", "off"} :
                   r.zone \in zones /\ rows[r] # v /\ rows' = [rows EXCEPT ![r] = v]
             /\ Noticed("row") /\ UNCHANGED zones
    <3>1. PICK r \in Rows, v \in {"none", "on", "off"} : r.zone \in zones /\ rows' = [rows EXCEPT ![r] = v]
      BY Zenon, <2>2
    <3>2. rows' \in [Rows -> {"none", "on", "off"}] /\ \A s \in Rows : s # r => rows'[s] = rows[s]
      BY Zenon, <3>1 DEF ResolverInv, StoreOK
    <3>3. StoreOK'
      BY Zenon, <1>1, <2>2, <3>1, <3>2 DEF ResolverInv, StoreOK
    <3>4. Held' = Held
      BY Zenon, <2>2 DEF Held, is_authoritative, find_zone_for_fqdn, Covering
    <3> QED BY Zenon, <1>2, <2>2, <3>3, <3>4, NoticedKeeps DEF ResolverInv
  <2> QED BY Zenon, <2>1, <2>2 DEF WriteStore
<1>4. CacheOK'
  BY Zenon, <1>1, <1>2 DEF ResolverInv, CacheOK
<1>5. SizeOK'
  BY Zenon, <1>1, <1>3, SizeKept DEF ResolverInv
<1> QED BY Zenon, <1>3, <1>4, <1>5 DEF ResolverInv

\* The queries' side of a forwarder's change.
LEMMA ForwarderSet ==
    ASSUME ResolverInv, zones' = zones, rows' = rows, api' \in {"idle", "clear"},
           \E z \in FwdZones, l \in Lists \cup {None} : SetForwarder(z, l)
    PROVE  StoreOK' /\ QueriesOK' /\ Storing' \subseteq Storing
<1>1. PICK z \in FwdZones, l \in Lists \cup {None} : fwd' = [fwd EXCEPT ![z] = l] /\ Noticed("fwd")
  BY Zenon DEF SetForwarder
<1>2. fwd' \in [FwdZones -> Lists \cup {None}]
  BY Zenon, <1>1 DEF ResolverInv, StoreOK
<1>3. Held' = Held
  BY Zenon DEF Held, is_authoritative, find_zone_for_fqdn, Covering
<1>4. QueriesOK' /\ Storing' \subseteq Storing
  BY Zenon, <1>1, <1>3, NoticedKeeps DEF ResolverInv
<1> QED BY Zenon, <1>2, <1>4 DEF ResolverInv, StoreOK

LEMMA WriteForwarderStep == ASSUME ResolverInv, WriteForwarder PROVE ResolverInv'
<1>1. zones' = zones /\ rows' = rows /\ cache' = cache /\ api' = "clear" /\ Cached' = Cached
  BY Zenon DEF WriteForwarder, Cached
<1>2. StoreOK' /\ QueriesOK' /\ Storing' \subseteq Storing
  BY Zenon, <1>1, ForwarderSet DEF WriteForwarder
<1>3. CacheOK'
  BY Zenon, <1>1 DEF ResolverInv, CacheOK
<1>4. SizeOK'
  BY Zenon, <1>1, <1>2, SizeKept DEF ResolverInv
<1> QED BY Zenon, <1>2, <1>3, <1>4 DEF ResolverInv

LEMMA MdnsForwarderStep == ASSUME ResolverInv, MdnsForwarder PROVE ResolverInv'
<1>1. /\ zones' = zones /\ rows' = rows /\ api' = api
      /\ cache' = [k \in Cached |-> [cache[k] EXCEPT !.excused = TRUE]]
  BY Zenon DEF MdnsForwarder
<1>2. api' \in {"idle", "clear"}
  BY Zenon, <1>1 DEF ResolverInv, StoreOK
<1>3. StoreOK' /\ QueriesOK' /\ Storing' \subseteq Storing
  BY Zenon, <1>1, <1>2, ForwarderSet DEF MdnsForwarder
<1>4. ASSUME NEW k \in Cached PROVE cache'[k] \in Entry /\ cache'[k].excused
  <2>1. cache[k] \in Entry
    BY Zenon DEF ResolverInv, CacheOK
  <2>2. cache'[k] = [cache[k] EXCEPT !.excused = TRUE]
    BY Zenon, <1>1
  <2> QED BY Zenon, <2>1, <2>2 DEF Entry
<1>5. Cached' = Cached /\ cache' \in [Cached -> Entry]
  <2>1. cache' = [k \in Cached |-> cache'[k]]
    BY Zenon, <1>1
  <2>2. DOMAIN cache' = Cached
    BY Zenon, <2>1
  <2> QED BY Zenon, <1>4, <2>1, <2>2 DEF Cached
<1>6. CacheOK'
  BY Zenon, <1>4, <1>5 DEF ResolverInv, CacheOK
<1>7. SizeOK'
  BY Zenon, <1>3, <1>5, SizeKept DEF ResolverInv
<1> QED BY Zenon, <1>3, <1>6, <1>7 DEF ResolverInv

LEMMA TickStep == ASSUME ResolverInv, Tick PROVE ResolverInv'
<1>1. /\ UNCHANGED storeAndConfig /\ q' = q /\ api' = api
      /\ cache' = [k \in Cached |-> IF Live(k) THEN [cache[k] EXCEPT !.left = @ - 1] ELSE cache[k]]
  BY Zenon DEF Tick, storeAndConfig
<1>2. Held' = Held /\ InCharge' = InCharge /\ StoreOK'
  BY Zenon, <1>1, Frame DEF ResolverInv
<1>3. QueriesOK' /\ Storing' \subseteq Storing
  BY Zenon, <1>1, <1>2 DEF ResolverInv, QueriesOK, Good, Storing
<1>4. ASSUME NEW k \in Cached
      PROVE  /\ cache'[k] \in Entry /\ cache'[k].from = cache[k].from /\ cache'[k].excused = cache[k].excused
             /\ cache'[k].left > 0 => cache[k].left > 0
  <2>1. cache[k] \in Entry
    BY Zenon DEF ResolverInv, CacheOK
  <2>2. cache'[k] = IF cache[k].left > 0 THEN [cache[k] EXCEPT !.left = cache[k].left - 1] ELSE cache[k]
    BY Zenon, <1>1 DEF Live
  <2> QED BY SMTT(20), <2>1, <2>2, ResolverAssumption DEF Entry
<1>5. Cached' = Cached /\ cache' \in [Cached -> Entry]
  <2>1. cache' = [k \in Cached |-> cache'[k]]
    BY Zenon, <1>1
  <2>2. DOMAIN cache' = Cached
    BY Zenon, <2>1
  <2> QED BY Zenon, <1>4, <2>1, <2>2 DEF Cached
<1>6. CacheOK'
  BY Zenon, <1>1, <1>2, <1>4, <1>5 DEF ResolverInv, CacheOK
<1>7. SizeOK'
  BY Zenon, <1>3, <1>5, SizeKept DEF ResolverInv
<1> QED BY Zenon, <1>2, <1>3, <1>6, <1>7 DEF ResolverInv

\* An empty cache has nothing in it that could be wrong.
LEMMA Emptied == ASSUME cache' = <<>> PROVE CacheOK' /\ Cached' = {}
<1>1. Cached' = {} /\ cache' \in [{} -> Entry]
  BY DEF Cached
<1> QED BY Zenon, <1>1 DEF CacheOK

LEMMA ClearCacheStep == ASSUME ResolverInv, ClearCache PROVE ResolverInv'
<1>1. zones' = zones /\ rows' = rows /\ fwd' = fwd /\ q' = q /\ api' = "idle" /\ cache' = <<>>
  BY Zenon DEF ClearCache
<1>2. Held' = Held /\ InCharge' = InCharge
  BY Zenon, <1>1 DEF Held, InCharge, is_authoritative, find_zone_for_fqdn, Covering, Route, find_forward_servers
<1>3. StoreOK' /\ QueriesOK' /\ Storing' \subseteq Storing
  BY Zenon, <1>1, <1>2 DEF ResolverInv, StoreOK, QueriesOK, Good, Storing
<1>4. CacheOK' /\ Cached' \subseteq Cached
  BY Zenon, <1>1, Emptied
<1>5. SizeOK'
  BY Zenon, <1>3, <1>4, SizeKept DEF ResolverInv
<1> QED BY Zenon, <1>3, <1>4, <1>5 DEF ResolverInv

LEMMA RestartStep == ASSUME ResolverInv, Restart PROVE ResolverInv'
<1>1. /\ zones' = zones /\ rows' = rows /\ fwd' = fwd /\ api' = "idle" /\ cache' = <<>>
      /\ q' = [p \in Queries |-> Blank]
  BY Zenon DEF Restart
<1>2. StoreOK'
  BY Zenon, <1>1 DEF ResolverInv, StoreOK
<1>3. \A p \in Queries : q'[p] = Blank /\ Blank.at = "idle"
  BY Zenon, <1>1, BlankGood
<1>4. QueriesOK' /\ Storing' \subseteq Storing
  <2>1. q' \in [Queries -> Query]
    BY Zenon, <1>1, BlankGood
  <2>2. \A p \in Queries : Good(q[p])'
    BY Zenon, <1>3 DEF Good, Abroad
  <2>3. Storing' \subseteq Storing
    BY Zenon, <1>3 DEF Storing
  <2> QED BY Zenon, <2>1, <2>2, <2>3 DEF QueriesOK
<1>5. CacheOK' /\ Cached' \subseteq Cached
  BY Zenon, <1>1, Emptied
<1>6. SizeOK'
  BY Zenon, <1>4, <1>5, SizeKept DEF ResolverInv
<1> QED BY Zenon, <1>2, <1>4, <1>5, <1>6 DEF ResolverInv

-----------------------------------------------------------------------------
(* The theorems. *)

LEMMA ResolverInit == Init => ResolverInv
<1> SUFFICES ASSUME Init PROVE ResolverInv
  BY Zenon
<1>1. /\ zones = {} /\ rows = [r \in Rows |-> "none"] /\ fwd = [z \in FwdZones |-> None]
      /\ cache = <<>> /\ api = "idle" /\ q = [p \in Queries |-> Blank]
  BY Zenon DEF Init
<1>2. StoreOK
  BY Zenon, <1>1 DEF StoreOK
<1>3. \A p \in Queries : q[p] = Blank /\ Blank.at = "idle"
  BY Zenon, <1>1, BlankGood
<1>4. QueriesOK
  BY Zenon, <1>1, <1>3, BlankGood DEF QueriesOK
<1>5. Cached = {} /\ cache \in [{} -> Entry]
  BY <1>1 DEF Cached
<1>6. CacheOK
  BY Zenon, <1>5 DEF CacheOK
<1>7. SizeOK
  <2>1. Storing = {}
    BY Zenon, <1>3 DEF Storing
  <2>2. IsFiniteSet({}) /\ Cardinality({}) = 0
    BY Zenon, FS_EmptySet
  <2>3. Cardinality(Queries) \in Nat /\ Cardinality(Queries) # 0
    BY Zenon, ResolverAssumption, FS_CardinalityType, FS_EmptySet
  <2>4. 0 + 0 <= MaxSize + Cardinality(Queries) - 1
    BY <2>3, ResolverAssumption
  <2> QED BY Zenon, <1>5, <2>1, <2>2, <2>4 DEF SizeOK
<1> QED BY Zenon, <1>2, <1>4, <1>6, <1>7 DEF ResolverInv

LEMMA ResolverNext == ResolverInv /\ [Next]_vars => ResolverInv'
<1> SUFFICES ASSUME ResolverInv, [Next]_vars PROVE ResolverInv'
  BY Zenon
<1>1. ASSUME NEW p \in Queries, Ask(p) \/ QueryStep(p) \/ Sent(p) PROVE ResolverInv'
  BY Zenon, <1>1, AskStep, QueryKeeps, SentStep
<1>2. CASE WriteStore \/ WriteForwarder \/ MdnsForwarder
  BY Zenon, <1>2, WriteStoreStep, WriteForwarderStep, MdnsForwarderStep
<1>3. CASE ClearCache \/ Tick \/ Restart
  BY Zenon, <1>3, ClearCacheStep, TickStep, RestartStep
<1>4. CASE UNCHANGED vars
  <2>1. UNCHANGED <<storeAndConfig, cache>> /\ UNCHANGED storeAndConfig /\ q' = q
    BY Zenon, <1>4 DEF vars, storeAndConfig
  <2>2. Held' = Held /\ InCharge' = InCharge
    BY Zenon, <2>1, Frame
  <2>3. QueriesOK' /\ Storing' \subseteq Storing
    BY Zenon, <2>1, <2>2 DEF ResolverInv, QueriesOK, Good, Storing
  <2> QED BY Zenon, <2>1, <2>3, CacheApart
<1> QED BY Zenon, <1>1, <1>2, <1>3, <1>4 DEF Next

\* What each query has and knows at its stage, what the cache holds and how full
\* it gets, through every interleaving of queries, writers, time and restarts.
THEOREM ResolverInvariant == Spec => []ResolverInv
BY ResolverInit, ResolverNext, PTL DEF Spec

\* A name of a zone held here is never answered from another server or from the
\* cache, however zones and forwarders come and go (step 1 of resolve).
THEOREM ZonesFirst == Spec => []LocalFirst
<1>1. ResolverInv => LocalFirst
  <2> SUFFICES ASSUME ResolverInv, NEW p \in Queries, q[p].at = "done", q[p].from \in Servers,
                      "zone" \notin q[p].seen
               PROVE  ~is_authoritative(q[p].name)
    BY Zenon DEF LocalFirst
  <2>1. q[p].name \in Names /\ q[p].name \notin Held
    BY Zenon DEF ResolverInv, QueriesOK, Good
  <2> QED BY Zenon, <2>1 DEF Held
<1> QED BY <1>1, ResolverInvariant, PTL

\* An answer of a server that is no longer in charge is in the cache only until
\* the writer clears it, or because a query sent before the change stored it
\* later; and the cache is over its size by at most the other queries under way
\* (DnsCache::insert, create_forwarder, ensure_forwarder).
THEOREM CacheHonest == Spec => []CacheSound
<1>1. ResolverInv => CacheSound
  <2> SUFFICES ASSUME ResolverInv PROVE CacheSound
    BY Zenon
  <2>1. StaleHasCause
    <3> SUFFICES ASSUME NEW k \in Cached, Live(k), cache[k].from \notin Range(Route(k[1]))
                 PROVE  api = "clear" \/ cache[k].excused
      BY Zenon DEF StaleHasCause
    <3>1. k \in Names \X Types
      BY Zenon DEF ResolverInv, CacheOK
    <3>2. k[1] \in Names
      BY Zenon, <3>1
    <3>3. cache[k].from \notin InCharge[k[1]] /\ cache[k].left > 0
      BY Zenon, <3>2 DEF InCharge, Live
    <3> QED BY Zenon, <3>3 DEF ResolverInv, CacheOK
  <2>2. CacheBounded
    <3>1. /\ IsFiniteSet(Cached)
          /\ Cardinality(Cached) + Cardinality(Storing) <= MaxSize + Cardinality(Queries) - 1
      BY Zenon DEF ResolverInv, SizeOK
    <3>2. Cardinality(Cached) \in Nat
      BY Zenon, <3>1, FS_CardinalityType
    <3>3. Cardinality(Cached) <= MaxSize + Cardinality(Queries) - 1
      BY <3>1, <3>2, StoringBound, ResolverAssumption
    <3> QED BY Zenon, <3>3 DEF CacheBounded
  <2> QED BY Zenon, <2>1, <2>2 DEF CacheSound
<1> QED BY <1>1, ResolverInvariant, PTL

=============================================================================
