----------------------------- MODULE MCResolver -----------------------------
(* Instances of Resolver for TLC.  A run explores slices of the instance:  *)
(* one query against a changing store, or two against a changing route.    *)
EXTENDS Resolver

CONSTANTS Slices, Q1, Q2

VARIABLE slice

Corp == <<"corp">>
Lab == <<"lab", "corp">>
Peer == <<"peer">>
Www == <<"www", "corp">>
Deep == <<"x", "lab", "corp">>

MCZones == {Corp, Lab}
MCNames == {Corp, Www, Deep, <<"*", "corp">>, <<"a", "peer">>, <<"b", "peer">>}
MCRow(z, n, t) == [zone |-> z, name |-> n, type |-> t]
MCRows == {MCRow(Corp, Apex, "A"), MCRow(Corp, <<"*">>, "A"), MCRow(Corp, <<"www">>, "AAAA"),
           MCRow(Corp, <<"x", "lab">>, "A"), MCRow(Corp, <<"*", "lab">>, "A"), MCRow(Lab, <<"x">>, "AAAA")}
MCTypes == {"A", "AAAA", "SOA", "ANY", "DS"}
MCFwdZones == {Peer, Corp}
MCLists == {<<"s2", "s1">>, <<>>}
MCStatic == [z \in {Peer} |-> <<"s3">>]
MCUpstream == <<"up">>

CorpNames == {n \in Names : Under(n, Corp)}
WwwRow == MCRow(Corp, <<"www">>, "AAAA")
Asked(p, S) == q[p].at # "idle" => q[p].name \in S

\* One query of either server against a changing store.  An exact match and two
\* wildcards are all that bear on one name and type.
StoreSlice ==
    /\ api = "idle" /\ Range(fwd) = {None}
    /\ q[Q2].at = "idle" /\ q[Q1].at \notin {"choose", "send"}
    /\ q[Q1].type \in StoreTypes \/ Asked(Q1, {Www})
    /\ Asked(Q1, CorpNames)
    /\ Cardinality({r \in Rows : rows[r] # "none"}) <= 3
    /\ \A r \in Rows \ {WwwRow} : rows[r] # "off"

\* One query to the recursor for a name that gets and loses a zone and a forwarder.
LocalSlice ==
    /\ zones \subseteq {Corp} /\ \A r \in Rows : rows[r] # "off" /\ (rows[r] = "on" => r = WwwRow)
    /\ fwd[Peer] = None
    /\ Asked(Q1, {Www}) /\ q[Q1].type \in {None, "AAAA"} /\ q[Q1].srv # "auth" /\ q[Q2].at = "idle"

\* Two queries to the recursor for a name beyond it.
RouteSlice ==
    /\ zones = {} /\ fwd[Corp] = None
    /\ \A p \in Queries : Asked(p, {<<"a", "peer">>})
    /\ \A p \in Queries : q[p].type \in {None, "A"} /\ q[p].srv # "auth"

\* Two queries that fill the cache with three answers, the route unchanged.
FullSlice ==
    /\ zones = {} /\ Range(fwd) = {None} /\ api = "idle"
    /\ Asked(Q1, {<<"a", "peer">>}) /\ Asked(Q2, {<<"b", "peer">>})
    /\ q[Q1].type \in {None, "A"} /\ q[Q2].type \in {None, "A", "AAAA"}
    /\ \A p \in Queries : q[p].srv # "auth"

InSlice ==
    CASE slice = "store" -> StoreSlice
      [] slice = "local" -> LocalSlice
      [] slice = "route" -> RouteSlice
      [] slice = "full" -> FullSlice

MCInit == Init /\ slice \in Slices
MCNext == Next /\ UNCHANGED slice /\ InSlice'
MCSpec == MCInit /\ [][MCNext]_<<vars, slice>> /\ Fairness

=============================================================================
