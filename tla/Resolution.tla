----------------------------- MODULE Resolution -----------------------------
(***************************************************************************)
(* How a name is looked up in the store: the most specific zone, exact and *)
(* wildcard matches, and whether a name exists (crates/microdns-core/src/  *)
(* db.rs), as the authoritative server and the recursor use them.          *)
(*                                                                         *)
(* A domain name is the sequence of its labels, leaf first; the name of a  *)
(* record is relative to its zone, with the label "@" for the apex.  A row *)
(* is one potential record: its zone, name and type.  ZoneStore and        *)
(* RecordApi have the tables and their writers.  Here one lookup reads one *)
(* state of them; a handler's lookups are separate steps (module Resolver).*)
(***************************************************************************)
EXTENDS Integers, FiniteSets, Sequences, Functions

CONSTANTS Zones,      \* zone names
          Rows        \* [zone, name, type]

VARIABLES zones,      \* the zones there are
          rows        \* for each row: "none", "on" or "off" (disabled)

Apex == <<"@">>

IsWild(name) == "*" \in Range(name)

\* name without the zone it is under
Relative(n, z) == SubSeq(n, 1, Len(n) - Len(z))

\* n is z or a name below it.
Under(n, z) == Len(z) <= Len(n) /\ SubSeq(n, Len(n) - Len(z) + 1, Len(n)) = z

Covering(S, n) == {z \in S : Under(n, z)}

Longest(S) == CHOOSE z \in S : \A y \in S : Len(y) <= Len(z)

-----------------------------------------------------------------------------
(* The store's reads. *)

\* The zone that owns n: none, or the one of the longest name.
find_zone_for_fqdn(n) == {z \in Covering(zones, n) : \A y \in Covering(zones, n) : Len(y) <= Len(z)}

query_records(z, name, t) == {r \in Rows : r.zone = z /\ r.name = name /\ r.type = t /\ rows[r] = "on"}

\* The index keys of a disabled record are there too.
name_exists_in_zone(z, name) == \E r \in Rows : r.zone = z /\ r.name = name /\ rows[r] # "none"

RelativeTo(z, n) == IF n = z THEN Apex ELSE Relative(n, z)

\* name, then *.b.c, *.c and * for the name a.b.c
Candidates(name) == <<name>> \o [i \in 1..Len(name) |-> <<"*">> \o SubSeq(name, i + 1, Len(name))]

\* The records of the first candidate that has any.
FirstHit(z, C, t) ==
    LET H == {i \in 1..Len(C) : query_records(z, C[i], t) # {}}
    IN  IF H = {} THEN {} ELSE query_records(z, C[CHOOSE i \in H : \A j \in H : i <= j], t)

\* The apex has no wildcard.
query_fqdn(n, t) ==
    UNION { IF n = z THEN query_records(z, Apex, t)
            ELSE FirstHit(z, Candidates(Relative(n, z)), t) : z \in find_zone_for_fqdn(n) }

fqdn_exists(n) == \E z \in find_zone_for_fqdn(n) : name_exists_in_zone(z, RelativeTo(z, n))

\* Records where each * of the pattern stands for one label.
resolve_wildcard_query(n, t) ==
    UNION { {r \in Rows : /\ r.zone = z /\ r.type = t /\ rows[r] = "on"
                          /\ LET p == Relative(n, z)
                             IN  /\ Len(p) = Len(r.name)
                                 /\ \A i \in 1..Len(p) : p[i] \in {"*", r.name[i]}}
            : z \in find_zone_for_fqdn(n) \ {n} }

-----------------------------------------------------------------------------
(* The reference: what the store holds for a name, said without the order  *)
(* in which the code tries things.                                         *)

\* A record stands for n if it has that name, or if it is a wildcard above it.
StandsFor(r, n) ==
    \/ r.name = RelativeTo(r.zone, n)
    \/ /\ Head(r.name) = "*" /\ n # r.zone
       /\ Len(r.name) <= Len(Relative(n, r.zone))
       /\ Under(Relative(n, r.zone), Tail(r.name))

\* A record of the zone in charge that stands for n.
Speaks(r, n) ==
    /\ rows[r] = "on" /\ Under(n, r.zone) /\ r.zone \in zones /\ StandsFor(r, n)
    /\ ~\E z \in zones : Under(n, z) /\ Len(z) > Len(r.zone)

\* Some record of the zone in charge, disabled or not, has the name n itself.
Present(n) ==
    \E r \in Rows : /\ rows[r] # "none" /\ Under(n, r.zone) /\ r.name = RelativeTo(r.zone, n)
                    /\ ~\E z \in zones : Under(n, z) /\ Len(z) > Len(r.zone)

\* The closest records of type t: exact ones before wildcards, and a longer
\* wildcard before a shorter one.
Reference(n, t) ==
    LET S == {r \in Rows : Speaks(r, n) /\ r.type = t}
        exact == {r \in S : r.name = RelativeTo(r.zone, n)}
    IN  IF exact # {} THEN exact
        ELSE {r \in S : \A o \in S : Len(o.name) <= Len(r.name)}

=============================================================================
