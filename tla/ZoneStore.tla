----------------------------- MODULE ZoneStore -----------------------------
(***************************************************************************)
(* The zone and record tables of microdns (crates/microdns-core/src/db.rs) *)
(* and their two indexes: zone name to zone id, and "zone:name:type" to    *)
(* record ids.  Every method of Db is one redb transaction, one step here. *)
(*                                                                         *)
(* A key stands for a name and a type; the comma-separated list of ids     *)
(* under an index key is a set, and an empty set is a key that is absent.  *)
(* Left out: SOA serials (modules RecordApi and ZoneTransfer), health rows *)
(* of the load balancer, TTLs and sources, transactions failing for I/O.   *)
(***************************************************************************)

CONSTANTS ZoneIds,    \* zone ids (UUIDs)
          ZoneNames,
          Keys,       \* name and type of a record
          Data,
          Ids,        \* record ids (UUIDs)
          None        \* no entry

Record == [zone : ZoneIds, key : Keys, data : Data, enabled : BOOLEAN]

ASSUME StoreAssumption == None \notin ZoneIds \cup ZoneNames \cup Record

VARIABLES zones,      \* ZONES_TABLE: the zone's name
          nameIdx,    \* ZONE_NAME_INDEX
          records,    \* RECORDS_TABLE
          byZone      \* RECORDS_BY_ZONE

storeVars == <<zones, nameIdx, records, byZone>>

StoreTypeOK ==
    /\ zones \in [ZoneIds -> ZoneNames \cup {None}]
    /\ nameIdx \in [ZoneNames -> ZoneIds \cup {None}]
    /\ records \in [Ids -> Record \cup {None}]
    /\ byZone \in [ZoneIds -> [Keys -> SUBSET Ids]]

StoreInit ==
    /\ zones = [z \in ZoneIds |-> None]
    /\ nameIdx = [n \in ZoneNames |-> None]
    /\ records = [r \in Ids |-> None]
    /\ byZone = [z \in ZoneIds |-> [k \in Keys |-> {}]]

\* A v4 UUID has never been used before: no row and no index entry.
FreshId(r) == records[r] = None /\ \A z \in ZoneIds : \A k \in Keys : r \notin byZone[z][k]

FreshZone(z) == zones[z] = None /\ \A k \in Keys : byZone[z][k] = {}

Held(z) == UNION {byZone[z][k] : k \in Keys}

-----------------------------------------------------------------------------
(* Reads. *)

query_records(z, k) == {r \in byZone[z][k] : records[r] # None /\ records[r].enabled}

list_records(z) == {r \in Held(z) : records[r] # None}

name_exists_in_zone(z, k) == byZone[z][k] # {}

-----------------------------------------------------------------------------
(* Writes. *)

\* The caller turns an indexed name into DuplicateZone.
create_zone(z, n) ==
    /\ nameIdx[n] = None
    /\ zones' = [zones EXCEPT ![z] = n]
    /\ nameIdx' = [nameIdx EXCEPT ![n] = z]
    /\ UNCHANGED <<records, byZone>>

\* The records of a zone are the ones its index keys lead to.
delete_zone(z) ==
    /\ zones[z] # None
    /\ zones' = [zones EXCEPT ![z] = None]
    /\ nameIdx' = [nameIdx EXCEPT ![zones[z]] = None]
    /\ records' = [r \in Ids |-> IF r \in Held(z) THEN None ELSE records[r]]
    /\ byZone' = [byZone EXCEPT ![z] = [k \in Keys |-> {}]]

\* Mutant: the new id replaces the ids already under the key.
create_record_overwrites(r, rec) ==
    /\ records' = [records EXCEPT ![r] = rec]
    /\ byZone' = [byZone EXCEPT ![rec.zone][rec.key] = {r}]
    /\ UNCHANGED <<zones, nameIdx>>

\* Does not ask whether the zone exists.
create_record(r, rec) ==
    /\ records' = [records EXCEPT ![r] = rec]
    /\ byZone' = [byZone EXCEPT ![rec.zone][rec.key] = @ \cup {r}]
    /\ UNCHANGED <<zones, nameIdx>>

\* Only the row: the index is not told when the name changes.
update_record(r, rec) ==
    /\ records[r] # None
    /\ records' = [records EXCEPT ![r] = rec]
    /\ UNCHANGED <<zones, nameIdx, byZone>>

\* The index key is computed from the row as it is now.
delete_record(r) ==
    /\ records[r] # None
    /\ records' = [records EXCEPT ![r] = None]
    /\ byZone' = [byZone EXCEPT ![records[r].zone][records[r].key] = @ \ {r}]
    /\ UNCHANGED <<zones, nameIdx>>

\* The entry of the zone's old name goes, if the name changed.
upsert_zone(z, n) ==
    /\ zones' = [zones EXCEPT ![z] = n]
    /\ nameIdx' = [m \in ZoneNames |-> IF m = n THEN z
                                       ELSE IF m = zones[z] THEN None ELSE nameIdx[m]]
    /\ UNCHANGED <<records, byZone>>

\* Mutant: the rows of the old records stay.
replace_zone_records_keepsRows(z, new) ==
    /\ records' = [r \in Ids |-> IF r \in DOMAIN new THEN new[r] ELSE records[r]]
    /\ byZone' = [byZone EXCEPT ![z] =
                    [k \in Keys |-> {r \in DOMAIN new : new[r].key = k}]]
    /\ UNCHANGED <<zones, nameIdx>>

\* new: a function from record ids to records of zone z
replace_zone_records(z, new) ==
    /\ records' = [r \in Ids |-> IF r \in DOMAIN new THEN new[r]
                                 ELSE IF r \in Held(z) THEN None ELSE records[r]]
    /\ byZone' = [byZone EXCEPT ![z] =
                    [k \in Keys |-> {r \in DOMAIN new : new[r].key = k}]]
    /\ UNCHANGED <<zones, nameIdx>>

-----------------------------------------------------------------------------
(* What any writer may do to the tables: rename says whether it may store  *)
(* a row under a name other than the one it was created with.              *)

StoreStep(rename) ==
    \/ \E z \in ZoneIds, n \in ZoneNames : FreshZone(z) /\ create_zone(z, n)
    \/ \E z \in ZoneIds : delete_zone(z)
    \/ \E z \in ZoneIds, n \in ZoneNames : upsert_zone(z, n)
    \/ \E r \in Ids, rec \in Record : FreshId(r) /\ create_record(r, rec)
    \/ \E r \in Ids, rec \in Record :
          /\ update_record(r, rec)
          /\ rec.zone = records[r].zone
          /\ rename \/ rec.key = records[r].key
    \/ \E r \in Ids : delete_record(r)
    \/ \E z \in ZoneIds, S \in SUBSET Ids :
          /\ \A r \in S : FreshId(r) \/ r \in Held(z)
          /\ \E new \in [S -> {rec \in Record : rec.zone = z}] : replace_zone_records(z, new)

StoreNext == StoreStep(TRUE)

StoreSpec == StoreInit /\ [][StoreNext]_storeVars

\* Writers that never rename a record.
NoRenameSpec == StoreInit /\ [][StoreStep(FALSE)]_storeVars

-----------------------------------------------------------------------------
(* Properties of the tables, under any writer. *)

\* A record is listed under exactly one index key, a key of its own zone,
\* whatever it was renamed to since: it is listed, served and deleted once.
IndexedOnce ==
    \A r \in Ids : records[r] # None =>
        \E k \in Keys : \A z \in ZoneIds, l \in Keys :
            r \in byZone[z][l] <=> z = records[r].zone /\ l = k

\* The name index never leads to a missing zone or to one of another name.
NameIndexSound == \A n \in ZoneNames : nameIdx[n] # None => zones[nameIdx[n]] = n

\* Deleting a zone takes all its records with it, though delete_zone only looks
\* at index keys: none is left behind that no index key leads to.
DeleteTakesAll ==
    [][\A z \in ZoneIds : zones[z] # None /\ zones'[z] = None =>
           \A r \in Ids : records'[r] = None \/ records'[r].zone # z]_storeVars

\* The index is exact: a key lists the records of that name and no others, so
\* an answer has all of them and a name without records does not exist.
IndexExact ==
    \A z \in ZoneIds : \A k \in Keys :
        byZone[z][k] = {r \in Ids : records[r] # None /\ records[r].zone = z
                                                      /\ records[r].key = k}

\* Both indexes are sound under every writer: a record is listed once, and no
\* name leads astray.
IndexesSound == IndexedOnce /\ NameIndexSound

=============================================================================
