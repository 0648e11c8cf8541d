---------------------------- MODULE ConfigSync ------------------------------
(***************************************************************************)
(* The sync agent of a leaf (crates/microdns-federation/src/sync.rs): it   *)
(* takes configuration events off the bus and writes the zones they carry, *)
(* the zone in one transaction and its records in the next.                *)
(*                                                                         *)
(* Who sends is outside the repository: the coordinator's own push_config  *)
(* carries a file, which a leaf only logs.  The bus may lose, reorder and  *)
(* repeat events.  A zone and its records have the number of their push.   *)
(* Left out: other writers of the leaf's database.                         *)
(***************************************************************************)
EXTENDS Integers, Nothing

CONSTANTS SyncIds,    \* zone ids
          SyncNames,  \* zone names
          MaxPush     \* bound: pushes

\* A push is skipped when it is for another leaf, carries no zone, is above
\* MAX_SYNC_PAYLOAD_SIZE or its zone cannot be read; its records may be unreadable.
Flaws == {"skipped", "bad records", "fine"}

Pushes == [id : SyncIds, name : SyncNames, flaw : Flaws, nr : 1 .. MaxPush]
LeafZones == [name : SyncNames, nr : 1 .. MaxPush]

ASSUME SyncAssumption == MaxPush \in Nat /\ None \notin SyncIds \cup Pushes \cup LeafZones

VARIABLES bus,      \* pushes on their way
          pushes,   \* how many were sent
          doing,    \* the push between its two transactions, or None
          zoneOf,   \* the leaf's tables: name and push of a zone, by id
          idxOf,    \* its index: the id of a name
          textOf,   \* the push the records of a zone are from, 0 for none
          torn,     \* history: ids whose last push was cut off between the two
          clashed   \* history: names that pushes gave to more than one id

syncVars == <<bus, pushes, doing, zoneOf, idxOf, textOf, torn, clashed>>

SyncInit ==
    /\ bus = {} /\ pushes = 0 /\ doing = None /\ torn = {} /\ clashed = {}
    /\ zoneOf = [i \in SyncIds |-> None] /\ idxOf = [n \in SyncNames |-> None]
    /\ textOf = [i \in SyncIds |-> 0]

-----------------------------------------------------------------------------
(* The bus. *)

Push(i, n, f) ==
    /\ pushes < MaxPush /\ pushes' = pushes + 1
    /\ bus' = bus \cup {[id |-> i, name |-> n, flaw |-> f, nr |-> pushes + 1]}
    /\ UNCHANGED <<doing, zoneOf, idxOf, textOf, torn, clashed>>

LosePush(m) ==
    /\ m \in bus /\ bus' = bus \ {m}
    /\ UNCHANGED <<pushes, doing, zoneOf, idxOf, textOf, torn, clashed>>

-----------------------------------------------------------------------------
(* The agent. *)

\* Db::upsert_zone
Upserted(m) ==
    /\ zoneOf' = [zoneOf EXCEPT ![m.id] = [name |-> m.name, nr |-> m.nr]]
    /\ idxOf' = [n \in SyncNames |->
                    IF n = m.name THEN m.id
                    ELSE IF zoneOf[m.id] # None /\ zoneOf[m.id].name = n THEN None ELSE idxOf[n]]

\* handle_config_event up to the zone.  again: the bus repeats the event later;
\* ok: the transaction succeeded.
handle_config_event(m, again, ok) ==
    /\ m \in bus /\ doing = None
    /\ bus' = IF again THEN bus ELSE bus \ {m}
    /\ IF m.flaw \in {"bad records", "fine"} /\ ok
       THEN /\ Upserted(m) /\ doing' = m
            /\ clashed' = IF idxOf[m.name] \in {None, m.id} THEN clashed ELSE clashed \cup {m.name}
       ELSE UNCHANGED <<doing, zoneOf, idxOf, clashed>>
    /\ UNCHANGED <<pushes, textOf, torn>>

\* Mutant: the records are added to a zone that has some.
ReplaceRecords_once(ok) ==
    /\ doing # None /\ doing' = None
    /\ textOf' = IF textOf[doing.id] = 0 /\ doing.flaw = "fine" /\ ok
                 THEN [textOf EXCEPT ![doing.id] = doing.nr] ELSE textOf
    /\ torn' = IF doing.flaw = "fine" /\ ok THEN torn \ {doing.id} ELSE torn \cup {doing.id}
    /\ UNCHANGED <<bus, pushes, zoneOf, idxOf, clashed>>

\* Its records: they may not be readable, and the transaction may fail.
ReplaceRecords(ok) ==
    /\ doing # None /\ doing' = None
    /\ IF doing.flaw = "fine" /\ ok
       THEN textOf' = [textOf EXCEPT ![doing.id] = doing.nr] /\ torn' = torn \ {doing.id}
       ELSE torn' = torn \cup {doing.id} /\ UNCHANGED textOf
    /\ UNCHANGED <<bus, pushes, zoneOf, idxOf, clashed>>

\* The leaf restarts, with a new subscription: what was on its way is lost.
LeafRestart ==
    /\ bus' = {} /\ doing' = None
    /\ torn' = IF doing = None THEN torn ELSE torn \cup {doing.id}
    /\ UNCHANGED <<pushes, zoneOf, idxOf, textOf, clashed>>

SyncNext ==
    \/ \E i \in SyncIds, n \in SyncNames, f \in Flaws : Push(i, n, f)
    \/ \E m \in bus : LosePush(m) \/ \E again, ok \in BOOLEAN : handle_config_event(m, again, ok)
    \/ \E ok \in BOOLEAN : ReplaceRecords(ok)
    \/ LeafRestart

SyncSpec == SyncInit /\ [][SyncNext]_syncVars

-----------------------------------------------------------------------------
(* Properties. *)

\* Types; and a zone and its records are of one push, in whatever order pushes
\* arrive and however often, except while one is written and after one was cut
\* off between its two transactions (until the next for the zone).
SyncUntorn ==
    /\ zoneOf \in [SyncIds -> {None} \cup LeafZones]
    /\ textOf \in [SyncIds -> 0 .. MaxPush] /\ idxOf \in [SyncNames -> {None} \cup SyncIds]
    /\ \A i \in SyncIds : zoneOf[i] # None /\ i \notin torn /\ (doing # None => doing.id # i)
                              => textOf[i] = zoneOf[i].nr

\* The index names only zones with that name, and every zone is found by its
\* name, unless pushes gave one name to two ids: then a later change of name of
\* the one also takes the other out of the index (upsert_zone).
SyncNamed ==
    /\ \A n \in SyncNames : idxOf[n] # None => zoneOf[idxOf[n]] # None /\ zoneOf[idxOf[n]].name = n
    /\ \A i \in SyncIds : zoneOf[i] # None /\ zoneOf[i].name \notin clashed => idxOf[zoneOf[i].name] = i

\* The tables of a leaf are sound whatever the bus does to the pushes.
LeafTablesSound == SyncUntorn /\ SyncNamed

=============================================================================
