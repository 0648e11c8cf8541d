-------------------------- MODULE RecordApiProofs --------------------------
(***************************************************************************)
(* Proofs about the zone and record tables and their writers, for any      *)
(* number of zones, records and requests.                                  *)
(*                                                                         *)
(* First the tables, for every writer that only uses the operations of Db: *)
(* what the record index and the name index always satisfy, and what they  *)
(* satisfy when nothing is renamed.  Then the writers: wherever requests   *)
(* interleave and a crash cuts them, the tables move as ZoneStore allows,  *)
(* since a request only stores rows under new ids or back into the zone it *)
(* read them from (ApiInv).                                                *)
(***************************************************************************)
EXTENDS RecordApi, TLAPS

\* No id is listed twice, dead ids included, and a record is listed in its zone.
ListedOnce ==
    /\ \A r \in Ids : \A y, z \in ZoneIds : \A k, l \in Keys :
          r \in byZone[y][k] /\ r \in byZone[z][l] => y = z /\ k = l
    /\ \A r \in Ids : records[r] # None => \E k \in Keys : r \in byZone[records[r].zone][k]

StoreInv == StoreTypeOK /\ ListedOnce /\ NameIndexSound

LEMMA InvStart == StoreInit => StoreInv /\ IndexExact
  BY StoreAssumption DEF StoreInit, StoreInv, StoreTypeOK, ListedOnce, NameIndexSound, IndexExact

LEMMA OnceFollows == ASSUME StoreInv PROVE IndexedOnce
  <1>1. SUFFICES ASSUME NEW r \in Ids, records[r] # None
                 PROVE \E k \in Keys : \A z \in ZoneIds, l \in Keys :
                          r \in byZone[z][l] <=> z = records[r].zone /\ l = k
    BY Zenon DEF IndexedOnce
  <1>2. records[r].zone \in ZoneIds
    BY Zenon, <1>1 DEF StoreInv, StoreTypeOK, Record
  <1>3. PICK k \in Keys : r \in byZone[records[r].zone][k]
    BY Zenon, <1>1 DEF StoreInv, ListedOnce
  <1>4. \A z \in ZoneIds, l \in Keys : r \in byZone[z][l] <=> z = records[r].zone /\ l = k
    BY Zenon, <1>2, <1>3 DEF StoreInv, ListedOnce
  <1> QED BY Zenon, <1>4

LEMMA CreateZoneStep ==
  ASSUME StoreInv, NEW z \in ZoneIds, NEW n \in ZoneNames, FreshZone(z), create_zone(z, n)
  PROVE StoreInv'
  <1>1. StoreTypeOK'
    BY Zenon DEF StoreInv, StoreTypeOK, create_zone
  <1>2. ListedOnce'
    BY Zenon DEF StoreInv, ListedOnce, create_zone
  <1>3. NameIndexSound'
    BY Zenon, StoreAssumption DEF StoreInv, StoreTypeOK, NameIndexSound, create_zone, FreshZone
  <1> QED BY Zenon, <1>1, <1>2, <1>3 DEF StoreInv

LEMMA UpsertZoneStep ==
  ASSUME StoreInv, NEW z \in ZoneIds, NEW n \in ZoneNames, upsert_zone(z, n)
  PROVE StoreInv'
  <1>1. StoreTypeOK'
    BY Zenon DEF StoreInv, StoreTypeOK, upsert_zone
  <1>2. ListedOnce'
    BY Zenon DEF StoreInv, ListedOnce, upsert_zone
  <1>3. NameIndexSound'
    BY Zenon, StoreAssumption DEF StoreInv, StoreTypeOK, NameIndexSound, upsert_zone
  <1> QED BY Zenon, <1>1, <1>2, <1>3 DEF StoreInv

LEMMA DeleteZoneStep ==
  ASSUME StoreInv, NEW z \in ZoneIds, delete_zone(z)
  PROVE /\ StoreInv'
        /\ \A r \in Ids : records'[r] = None \/ records'[r].zone # z
  <1>1. StoreTypeOK'
    BY Zenon DEF StoreInv, StoreTypeOK, delete_zone
  <1>2. ListedOnce'
    <2>1. \A y \in ZoneIds : \A k \in Keys : byZone'[y][k] = IF y = z THEN {} ELSE byZone[y][k]
      BY Zenon DEF StoreInv, StoreTypeOK, delete_zone
    <2>2. ASSUME NEW r \in Ids, records'[r] # None
          PROVE \E k \in Keys : r \in byZone'[records'[r].zone][k]
      <3>1. records'[r] = records[r] /\ r \notin Held(z)
        BY Zenon, <2>2 DEF delete_zone
      <3>2. records[r].zone \in ZoneIds
        BY Zenon, <2>2, <3>1 DEF StoreInv, StoreTypeOK, Record
      <3>3. PICK k \in Keys : r \in byZone[records[r].zone][k]
        BY Zenon, <2>2, <3>1 DEF StoreInv, ListedOnce
      <3>4. records[r].zone # z
        BY Zenon, <3>1, <3>3 DEF Held
      <3> QED BY Zenon, <2>1, <3>1, <3>2, <3>3, <3>4
    <2> QED BY <2>1, <2>2 DEF StoreInv, ListedOnce
  <1>3. NameIndexSound'
    BY Zenon, StoreAssumption DEF StoreInv, StoreTypeOK, NameIndexSound, delete_zone
  <1>4. \A r \in Ids : records'[r] = None \/ records'[r].zone # z
    BY DEF StoreInv, StoreTypeOK, ListedOnce, delete_zone, Held
  <1> QED BY Zenon, <1>1, <1>2, <1>3, <1>4 DEF StoreInv

LEMMA CreateRecordStep ==
  ASSUME StoreInv, NEW r \in Ids, NEW rec \in Record, FreshId(r), create_record(r, rec)
  PROVE StoreInv'
  <1>0. rec.zone \in ZoneIds /\ rec.key \in Keys
    BY Zenon DEF Record
  <1>1. StoreTypeOK'
    BY Zenon, <1>0 DEF StoreInv, StoreTypeOK, create_record
  <1>2. ListedOnce'
    BY <1>0 DEF StoreInv, StoreTypeOK, ListedOnce, create_record, FreshId, Record
  <1>3. NameIndexSound'
    BY Zenon DEF StoreInv, NameIndexSound, create_record
  <1> QED BY Zenon, <1>1, <1>2, <1>3 DEF StoreInv

LEMMA UpdateRecordStep ==
  ASSUME StoreInv, NEW r \in Ids, NEW rec \in Record, update_record(r, rec),
         rec.zone = records[r].zone
  PROVE StoreInv'
  <1>1. StoreTypeOK'
    BY Zenon DEF StoreInv, StoreTypeOK, update_record
  <1>2. ListedOnce'
    BY DEF StoreInv, StoreTypeOK, ListedOnce, update_record
  <1>3. NameIndexSound'
    BY Zenon DEF StoreInv, NameIndexSound, update_record
  <1> QED BY Zenon, <1>1, <1>2, <1>3 DEF StoreInv

LEMMA DeleteRecordStep ==
  ASSUME StoreInv, NEW r \in Ids, delete_record(r)
  PROVE StoreInv'
  <1>0. records[r].zone \in ZoneIds /\ records[r].key \in Keys
    BY Zenon DEF StoreInv, StoreTypeOK, delete_record, Record
  <1>1. StoreTypeOK'
    BY Zenon, <1>0 DEF StoreInv, StoreTypeOK, delete_record
  <1>2. ListedOnce'
    BY <1>0 DEF StoreInv, StoreTypeOK, ListedOnce, delete_record, Record
  <1>3. NameIndexSound'
    BY Zenon DEF StoreInv, NameIndexSound, delete_record
  <1> QED BY Zenon, <1>1, <1>2, <1>3 DEF StoreInv

LEMMA ReplaceStep ==
  ASSUME StoreInv, NEW z \in ZoneIds, NEW S \in SUBSET Ids,
         \A r \in S : FreshId(r) \/ r \in Held(z),
         NEW new \in [S -> {rec \in Record : rec.zone = z}], replace_zone_records(z, new)
  PROVE StoreInv'
  <1>0. \A r \in S : new[r] \in Record /\ new[r].zone = z /\ new[r].key \in Keys
    BY Zenon DEF Record
  <1>1. StoreTypeOK'
    BY Zenon, <1>0 DEF StoreInv, StoreTypeOK, replace_zone_records
  <1>2. ListedOnce'
    <2>1. \A y \in ZoneIds : \A k \in Keys :
             byZone'[y][k] = IF y = z THEN {r \in S : new[r].key = k} ELSE byZone[y][k]
      BY Zenon DEF StoreInv, StoreTypeOK, replace_zone_records
    <2>2. \A r \in S : \A y \in ZoneIds : \A k \in Keys : r \in byZone[y][k] => y = z
      BY DEF StoreInv, ListedOnce, FreshId, Held
    <2>3. \A r \in Ids : \A x, y \in ZoneIds : \A k, l \in Keys :
             r \in byZone'[x][k] /\ r \in byZone'[y][l] => x = y /\ k = l
      <3> SUFFICES ASSUME NEW r \in Ids, NEW x \in ZoneIds, NEW y \in ZoneIds,
                          NEW k \in Keys, NEW l \in Keys,
                          r \in byZone'[x][k], r \in byZone'[y][l]
                   PROVE x = y /\ k = l
        BY Zenon
      <3>0. \A m \in Keys : byZone'[z][m] = {s \in S : new[s].key = m}
        BY Zenon, <2>1
      <3>1. x = z => r \in S /\ new[r].key = k
        BY Zenon, <3>0
      <3>2. y = z => r \in S /\ new[r].key = l
        BY Zenon, <3>0
      <3>3. x # z => r \in byZone[x][k]
        BY Zenon, <2>1
      <3>4. y # z => r \in byZone[y][l]
        BY Zenon, <2>1
      <3> QED BY Zenon, <2>2, <3>1, <3>2, <3>3, <3>4 DEF StoreInv, ListedOnce
    <2>4. ASSUME NEW r \in Ids, records'[r] # None
          PROVE \E k \in Keys : r \in byZone'[records'[r].zone][k]
      <3>1. CASE r \in S
        <4>1. records'[r] = new[r]
          BY Zenon, <3>1 DEF replace_zone_records
        <4>2. new[r] \in Record /\ new[r].zone = z /\ new[r].key \in Keys
          BY Zenon, <1>0, <3>1
        <4>3. r \in byZone'[z][new[r].key]
          BY Zenon, <2>1, <3>1, <4>2
        <4> QED BY Zenon, <4>1, <4>2, <4>3
      <3>2. CASE r \notin S
        <4>1. records'[r] = records[r] /\ r \notin Held(z)
          BY Zenon, <2>4, <3>2 DEF replace_zone_records
        <4>2. records[r].zone \in ZoneIds
          BY Zenon, <2>4, <4>1 DEF StoreInv, StoreTypeOK, Record
        <4>3. PICK k \in Keys : r \in byZone[records[r].zone][k]
          BY Zenon, <2>4, <4>1 DEF StoreInv, ListedOnce
        <4>4. records[r].zone # z
          BY Zenon, <4>1, <4>3 DEF Held
        <4>5. byZone'[records[r].zone] = byZone[records[r].zone]
          BY <4>2, <4>4 DEF replace_zone_records
        <4>6. r \in byZone'[records'[r].zone][k]
          BY Zenon, <4>1, <4>3, <4>5
        <4> QED BY Zenon, <4>6
      <3> QED BY Zenon, <3>1, <3>2
    <2> QED BY Zenon, <2>3, <2>4 DEF ListedOnce
  <1>3. NameIndexSound'
    BY Zenon DEF StoreInv, NameIndexSound, replace_zone_records
  <1> QED BY Zenon, <1>1, <1>2, <1>3 DEF StoreInv

LEMMA StoreStepKeeps ==
  ASSUME StoreInv, NEW rename \in BOOLEAN, [StoreStep(rename)]_storeVars
  PROVE StoreInv'
  <1>1. CASE UNCHANGED storeVars
    BY <1>1 DEF storeVars, StoreInv, StoreTypeOK, ListedOnce, NameIndexSound
  <1>2. CASE StoreStep(rename)
    BY Zenon, <1>2, CreateZoneStep, DeleteZoneStep, UpsertZoneStep, CreateRecordStep,
       UpdateRecordStep, DeleteRecordStep, ReplaceStep DEF StoreStep
  <1> QED BY Zenon, <1>1, <1>2

\* Under any writer that only uses Db's operations: a record is listed under
\* exactly one index key (create_record, delete_record, replace_zone_records),
\* and the name index is sound (create_zone, upsert_zone, delete_zone).
THEOREM TablesSound == StoreSpec => []IndexesSound
  <1>1. StoreInv /\ [StoreNext]_storeVars => StoreInv'
    BY Zenon, StoreStepKeeps DEF StoreNext
  <1>2. StoreInv => IndexesSound
    BY Zenon, OnceFollows DEF StoreInv, IndexesSound
  <1> QED BY <1>1, <1>2, InvStart, PTL DEF StoreSpec

\* delete_zone leaves no record of the zone behind, though it only follows the
\* index keys of the zone; no other operation makes a zone go.
THEOREM ZoneTakesRecords == StoreSpec => DeleteTakesAll
  <1> DEFINE Takes == \A z \in ZoneIds : zones[z] # None /\ zones'[z] = None =>
                         \A r \in Ids : records'[r] = None \/ records'[r].zone # z
  <1>1. StoreInv /\ [StoreNext]_storeVars => StoreInv'
    BY Zenon, StoreStepKeeps DEF StoreNext
  <1>2. ASSUME StoreInv, StoreNext
        PROVE Takes
    <2> SUFFICES ASSUME NEW z \in ZoneIds, zones[z] # None, zones'[z] = None
                 PROVE \A r \in Ids : records'[r] = None \/ records'[r].zone # z
      BY Zenon
    <2>1. PICK y \in ZoneIds : delete_zone(y)
      BY Zenon, <1>2, StoreAssumption
      DEF StoreNext, StoreStep, StoreInv, StoreTypeOK, create_zone, upsert_zone, create_record,
          update_record, delete_record, replace_zone_records
    <2>2. y = z
      BY Zenon, <1>2, <2>1 DEF delete_zone, StoreInv, StoreTypeOK
    <2> QED BY Zenon, <1>2, <2>1, <2>2, DeleteZoneStep
  <1>3. StoreInv /\ [StoreNext]_storeVars => [Takes]_storeVars
    BY Zenon, <1>2
  <1> HIDE DEF Takes
  <1>4. StoreSpec => [][Takes]_storeVars
    BY <1>1, <1>3, InvStart, PTL DEF StoreSpec
  <1> QED BY Zenon, <1>4 DEF DeleteTakesAll, Takes

LEMMA ExactStep ==
  ASSUME StoreInv, IndexExact, [StoreStep(FALSE)]_storeVars
  PROVE IndexExact'
  <1>1. CASE UNCHANGED storeVars
    BY <1>1 DEF storeVars, IndexExact
  <1>2. CASE \E z \in ZoneIds, n \in ZoneNames :
                (FreshZone(z) /\ create_zone(z, n)) \/ upsert_zone(z, n)
    BY <1>2 DEF IndexExact, create_zone, upsert_zone
  <1>3. ASSUME NEW z \in ZoneIds, delete_zone(z)
        PROVE IndexExact'
    <2>1. \A r \in Ids : r \in Held(z) <=> records[r] # None /\ records[r].zone = z
      BY DEF IndexExact, Held, StoreInv, StoreTypeOK, Record
    <2> QED BY <1>3, <2>1 DEF IndexExact, delete_zone, StoreInv, StoreTypeOK
  <1>4. ASSUME NEW r \in Ids, NEW rec \in Record, FreshId(r), create_record(r, rec)
        PROVE IndexExact'
    <2>1. rec # None
      BY Zenon, StoreAssumption
    <2> QED BY <1>4, <2>1 DEF IndexExact, create_record, FreshId, StoreInv, StoreTypeOK, Record
  <1>5. ASSUME NEW r \in Ids, NEW rec \in Record, update_record(r, rec),
               rec.zone = records[r].zone, rec.key = records[r].key
        PROVE IndexExact'
    <2>1. rec # None
      BY Zenon, StoreAssumption
    <2> QED BY <1>5, <2>1 DEF IndexExact, update_record, StoreInv, StoreTypeOK
  <1>6. ASSUME NEW r \in Ids, delete_record(r)
        PROVE IndexExact'
    BY <1>6 DEF IndexExact, delete_record, StoreInv, StoreTypeOK, Record
  <1>7. ASSUME NEW z \in ZoneIds, NEW S \in SUBSET Ids,
               \A r \in S : FreshId(r) \/ r \in Held(z),
               NEW new \in [S -> {rec \in Record : rec.zone = z}], replace_zone_records(z, new)
        PROVE IndexExact'
    <2>1. \A r \in Ids : r \in Held(z) <=> records[r] # None /\ records[r].zone = z
      BY DEF IndexExact, Held, StoreInv, StoreTypeOK, Record
    <2>2. \A r \in S : new[r] # None /\ new[r].zone = z
      BY Zenon, StoreAssumption
    <2>3. SUFFICES ASSUME NEW y \in ZoneIds, NEW k \in Keys
                   PROVE byZone'[y][k] = {r \in Ids : records'[r] # None /\ records'[r].zone = y
                                                                       /\ records'[r].key = k}
      BY Zenon DEF IndexExact
    <2>4. \A r \in Ids : records'[r] = IF r \in S THEN new[r]
                                      ELSE IF r \in Held(z) THEN None ELSE records[r]
      BY Zenon, <1>7 DEF replace_zone_records
    <2>5. byZone'[y][k] = IF y = z THEN {r \in S : new[r].key = k} ELSE byZone[y][k]
      BY Zenon, <1>7 DEF replace_zone_records, StoreInv, StoreTypeOK
    <2>6. \A r \in S : r \in byZone[y][k] => y = z
      BY <1>7, <2>1 DEF FreshId, IndexExact
    <2>7. CASE y = z
      BY <2>1, <2>2, <2>4, <2>5, <2>7
    <2>8. CASE y # z
      BY <2>1, <2>2, <2>4, <2>5, <2>6, <2>8 DEF IndexExact
    <2> QED BY Zenon, <2>7, <2>8
  <1> QED BY Zenon, <1>1, <1>2, <1>3, <1>4, <1>5, <1>6, <1>7 DEF StoreStep

\* As long as no writer renames a record (update_record keeps the name), the
\* index is exact: an answer has all records of the name and no others.
THEOREM ExactWithoutRenames == NoRenameSpec => []IndexExact
  <1> DEFINE Inv == StoreInv /\ IndexExact
  <1>1. Inv /\ [StoreStep(FALSE)]_storeVars => Inv'
    BY Zenon, StoreStepKeeps, ExactStep
  <1>2. StoreInit => Inv
    BY Zenon, InvStart
  <1>3. Inv => IndexExact
    BY Zenon
  <1> HIDE DEF Inv
  <1> QED BY <1>1, <1>2, <1>3, PTL DEF NoRenameSpec

-----------------------------------------------------------------------------
(* The writers. *)

Requests == [op : Ops \cup {None}, at : Stages, id : Ids \cup {None},
             rec : Record \cup {None}, old : Link \cup {None},
             rev : ZoneIds \cup {None}, gone : SUBSET Ids,
             todo : SUBSET [id : Ids, link : Link]]

\* An A record, and a record of either kind.
IsA(rec) == rec \in Record /\ rec.key \in Hosts /\ rec.data \in Ips
IsPair(rec) == IsA(rec) \/ (rec \in Record /\ rec.key \in Ips /\ rec.data \in Hosts)

\* What a request has at hand at each stage.
Formed(q) ==
    /\ q \in Requests
    /\ q.at \in {"dedupe", "insert", "write", "bump", "sync", "ensure", "query", "clear", "syncBump", "stale"}
           => IsA(q.rec)
    /\ q.at \in {"remove", "unptr", "unptrDelete", "unptrBump"} /\ q.op # "unregister" => IsA(q.rec)
    /\ q.at = "remove" => q.op \in {"delete", "unregister"}
    /\ (q.at \in {"dedupe", "insert"} => q.op = "create") /\ (q.at = "next" => q.op = "unregister")
    /\ q.at \in {"write", "remove"} => q.id \in Ids
    /\ q.at \in {"unptr", "unptrDelete", "unptrBump"} => q.old \in Link /\ (q.op = "unregister" => q.id \in Ids)
    /\ q.at \in {"write", "remove", "bump"} /\ q.op \in {"update", "delete"} => q.old \in Link
    /\ q.at \in {"query", "clear", "syncBump", "unptrDelete", "unptrBump"} => q.rev \in ZoneIds

\* The copy of a row that is to be written back is of the zone the row is in.
SameZone(q) == q.at = "write" /\ records[q.id] # None => records[q.id].zone = q.rec.zone

ApiInv ==
    /\ StoreInv
    /\ \A r \in Ids : records[r] # None => IsPair(records[r])
    /\ dirty \subseteq ZoneIds
    /\ proc \in [Procs -> Requests]
    /\ \A p \in Procs : Formed(proc[p]) /\ SameZone(proc[p])

-----------------------------------------------------------------------------
(* What the writers do to the tables. *)

Move ==
    \/ UNCHANGED storeVars
    \/ \E z \in ZoneIds, n \in ZoneNames : FreshZone(z) /\ create_zone(z, n)
    \/ \E z \in ZoneIds : delete_zone(z)
    \/ \E r \in FreshIds, rec \in Record : IsPair(rec) /\ create_record(r, rec)
    \/ \E r \in Ids, rec \in Record :
          IsPair(rec) /\ update_record(r, rec) /\ rec.zone = records[r].zone
    \/ \E r \in Ids : delete_record(r)
    \/ \E z \in ZoneIds, n \in ZoneNames : upsert_zone(z, n)
    \/ \E z \in ZoneIds, S \in SUBSET FreshIds, rec \in Record :
          IsPair(rec) /\ rec.zone = z /\ replace_zone_records(z, [r \in S |-> rec])

LEMMA MoveIsStoreStep == ASSUME Move PROVE [StoreStep(TRUE)]_storeVars
<1>1. \A r \in FreshIds : r \in Ids /\ FreshId(r)
  BY Zenon DEF FreshIds
<1>2. ASSUME NEW z \in ZoneIds, NEW S \in SUBSET FreshIds, NEW rec \in Record, rec.zone = z,
             replace_zone_records(z, [r \in S |-> rec])
      PROVE  StoreStep(TRUE)
  <2>1. S \in SUBSET Ids /\ \A r \in S : FreshId(r)
    BY Zenon, <1>1
  <2>2. [r \in S |-> rec] \in [S -> {o \in Record : o.zone = z}]
    BY Zenon, <1>2
  <2>3. \E new \in [S -> {o \in Record : o.zone = z}] : replace_zone_records(z, new)
    BY Zenon, <1>2, <2>2
  <2> QED BY Zenon, <2>1, <2>3 DEF StoreStep
<1>3. ASSUME NEW r \in FreshIds, NEW rec \in Record, create_record(r, rec)
      PROVE  StoreStep(TRUE)
  BY Zenon, <1>1, <1>3 DEF StoreStep
<1>4. CASE \E z \in ZoneIds, S \in SUBSET FreshIds, rec \in Record :
              IsPair(rec) /\ rec.zone = z /\ replace_zone_records(z, [r \in S |-> rec])
  BY Zenon, <1>2, <1>4
<1>5. CASE \E r \in FreshIds, rec \in Record : IsPair(rec) /\ create_record(r, rec)
  BY Zenon, <1>3, <1>5
<1>6. CASE \E r \in Ids, rec \in Record : IsPair(rec) /\ update_record(r, rec) /\ rec.zone = records[r].zone
  BY Zenon, <1>6 DEF StoreStep
<1>7. CASE \/ \E z \in ZoneIds, n \in ZoneNames : FreshZone(z) /\ create_zone(z, n)
           \/ \E z \in ZoneIds : delete_zone(z)
           \/ \E r \in Ids : delete_record(r)
           \/ \E z \in ZoneIds, n \in ZoneNames : upsert_zone(z, n)
  BY Zenon, <1>7 DEF StoreStep
<1> QED BY Zenon, <1>4, <1>5, <1>6, <1>7 DEF Move

\* A row that was there or is known to a request keeps its zone; rows stay A
\* records and PTRs.
LEMMA MoveKeeps ==
    ASSUME StoreInv, \A r \in Ids : records[r] # None => IsPair(records[r]), Move
    PROVE  /\ \A r \in Ids \ FreshIds : records'[r] # None => records[r] # None /\ records'[r].zone = records[r].zone
           /\ \A r \in Ids : records'[r] # None => IsPair(records'[r])
<1>1. records \in [Ids -> Record \cup {None}]
  BY Zenon DEF StoreInv, StoreTypeOK
<1>2. FreshIds \subseteq Ids
  BY Zenon DEF FreshIds
<1>3. CASE UNCHANGED records
  BY Zenon, <1>3
<1>4. ASSUME NEW r \in FreshIds, NEW rec \in Record, IsPair(rec), create_record(r, rec)
      PROVE  records' = [records EXCEPT ![r] = rec]
  BY Zenon, <1>4 DEF create_record
<1>5. ASSUME NEW r \in Ids, NEW rec \in Record, IsPair(rec), update_record(r, rec), rec.zone = records[r].zone
      PROVE  records' = [records EXCEPT ![r] = rec] /\ records[r] # None
  BY Zenon, <1>5 DEF update_record
<1>6. CASE \E r \in Ids : delete_record(r)
  BY Zenon, <1>1, <1>6 DEF delete_record
<1>7. CASE \E z \in ZoneIds : delete_zone(z)
  BY Zenon, <1>1, <1>7 DEF delete_zone
<1>9. CASE \E r \in FreshIds, rec \in Record : IsPair(rec) /\ create_record(r, rec)
  BY Zenon, <1>1, <1>2, <1>4, <1>9
<1>10. CASE \E r \in Ids, rec \in Record : IsPair(rec) /\ update_record(r, rec) /\ rec.zone = records[r].zone
  BY <1>1, <1>5, <1>10
<1>11. CASE \E z \in ZoneIds, S \in SUBSET FreshIds, rec \in Record :
              IsPair(rec) /\ rec.zone = z /\ replace_zone_records(z, [r \in S |-> rec])
  <2>1. PICK z \in ZoneIds, S \in SUBSET FreshIds, rec \in Record :
               IsPair(rec) /\ rec.zone = z /\ replace_zone_records(z, [r \in S |-> rec])
    BY Zenon, <1>11
  <2> DEFINE new == [r \in S |-> rec]
  <2>2. DOMAIN new = S /\ \A r \in S : new[r] = rec
    BY Zenon
  <2>3. records' = [r \in Ids |-> IF r \in DOMAIN new THEN new[r] ELSE IF r \in Held(z) THEN None ELSE records[r]]
    BY Zenon, <2>1 DEF replace_zone_records
  <2> HIDE DEF new
  <2> QED BY Zenon, <2>1, <2>2, <2>3
<1>12. CASE \E z \in ZoneIds, n \in ZoneNames : (FreshZone(z) /\ create_zone(z, n)) \/ upsert_zone(z, n)
  BY Zenon, <1>3, <1>12 DEF create_zone, upsert_zone
<1> QED BY Zenon, <1>3, <1>6, <1>7, <1>9, <1>10, <1>11, <1>12 DEF Move, storeVars

\* One step of the tables and of a request.
LEMMA Moved ==
    ASSUME ApiInv, Move, dirty' \subseteq ZoneIds,
           NEW p \in Procs, NEW q, Goto(p, q), Formed(q),
           q.at # "write" \/ (UNCHANGED records /\ records[q.id].zone = q.rec.zone)
    PROVE  ApiInv' /\ [StoreStep(TRUE)]_storeVars
<1>1. [StoreStep(TRUE)]_storeVars /\ StoreInv'
  BY Zenon, MoveIsStoreStep, StoreStepKeeps DEF ApiInv
<1>2. /\ \A r \in Ids \ FreshIds : records'[r] # None => records[r] # None /\ records'[r].zone = records[r].zone
      /\ \A r \in Ids : records'[r] # None => IsPair(records'[r])
  BY Zenon, MoveKeeps DEF ApiInv
<1>3. q \in Requests
  BY Zenon DEF Formed
<1>4. proc' \in [Procs -> Requests] /\ proc'[p] = q /\ \A o \in Procs \ {p} : proc'[o] = proc[o]
  BY Zenon, <1>3 DEF Goto, ApiInv
<1>5. \A o \in Procs : proc[o].id \notin FreshIds
  BY Zenon DEF FreshIds
<1>6. ASSUME NEW o \in Procs
      PROVE  Formed(proc'[o]) /\ (proc'[o].at = "write" /\ records'[proc'[o].id] # None =>
                                     records'[proc'[o].id].zone = proc'[o].rec.zone)
  <2>1. CASE o = p
    BY Zenon, <1>4, <2>1
  <2>2. CASE o # p
    <3>1. proc'[o] = proc[o] /\ Formed(proc[o]) /\ SameZone(proc[o])
      BY Zenon, <1>4, <2>2 DEF ApiInv
    <3>2. proc[o].at = "write" => proc[o].id \in Ids \ FreshIds
      BY Zenon, <1>5, <3>1 DEF Formed
    <3> QED BY Zenon, <1>2, <3>1, <3>2 DEF SameZone
  <2> QED BY Zenon, <2>1, <2>2
<1> QED BY Zenon, <1>1, <1>2, <1>4, <1>6 DEF ApiInv, SameZone

\* The same when no request moves.
LEMMA MovedAlone ==
    ASSUME ApiInv, Move, dirty' \subseteq ZoneIds, UNCHANGED proc
    PROVE  ApiInv' /\ [StoreStep(TRUE)]_storeVars
<1>1. [StoreStep(TRUE)]_storeVars /\ StoreInv'
  BY Zenon, MoveIsStoreStep, StoreStepKeeps DEF ApiInv
<1>2. /\ \A r \in Ids \ FreshIds : records'[r] # None => records[r] # None /\ records'[r].zone = records[r].zone
      /\ \A r \in Ids : records'[r] # None => IsPair(records'[r])
  BY Zenon, MoveKeeps DEF ApiInv
<1>3. \A o \in Procs : proc[o].id \notin FreshIds
  BY Zenon DEF FreshIds
<1>4. \A o \in Procs : Formed(proc[o]) /\ SameZone(proc[o])'
  BY ZenonT(30), <1>2, <1>3 DEF ApiInv, Formed, SameZone
<1> QED BY ZenonT(30), <1>1, <1>2, <1>4 DEF ApiInv, SameZone, Formed

-----------------------------------------------------------------------------
(* The stages. *)

LEMMA IdleFormed == Formed(Idle) /\ Idle.at = "idle"
  BY Zenon DEF Idle, Formed, Requests, Stages

\* What a request needs to have at hand to go on at a, with z as reverse zone.
Ready(q, a, z) ==
    /\ a \in Stages
    /\ a \in {"query", "clear", "syncBump", "unptrDelete", "unptrBump"} => z \in ZoneIds
    /\ (a \in {"dedupe", "insert"} => q.op = "create") /\ (a = "next" => q.op = "unregister")
    /\ \/ a \in {"idle", "next"}
       \/ a \in {"dedupe", "insert", "sync", "ensure", "query", "clear", "syncBump", "stale"} /\ IsA(q.rec)
       \/ a = "bump" /\ IsA(q.rec) /\ (q.op \in {"update", "delete"} => q.old \in Link)
       \/ /\ a \in {"unptr", "unptrDelete", "unptrBump"} /\ q.old \in Link
          /\ q.op # "unregister" => IsA(q.rec)
          /\ q.op = "unregister" => q.id \in Ids

LEMMA OnFormed ==
    ASSUME NEW q, Formed(q), NEW s \in Requests,
           s.op = q.op, s.id = q.id, s.rec = q.rec, s.old = q.old, Ready(q, s.at, s.rev)
    PROVE  Formed(s)
  BY Zenon DEF Formed, Ready

LEMMA OnAt ==
    ASSUME NEW q, Formed(q), NEW a, Ready(q, a, q.rev)
    PROVE  Formed([q EXCEPT !.at = a]) /\ [q EXCEPT !.at = a].at = a
<1> DEFINE s == [q EXCEPT !.at = a]
<1>1. q \in Requests /\ a \in Stages
  BY Zenon DEF Formed, Ready
<1>2. s \in Requests /\ s.at = a /\ s.op = q.op /\ s.id = q.id /\ s.rec = q.rec /\ s.old = q.old /\ s.rev = q.rev
  BY Zenon, <1>1 DEF Requests
<1> HIDE DEF s
<1>3. Formed(s)
  BY Zenon, <1>2, OnFormed
<1> QED BY Zenon, <1>2, <1>3 DEF s

LEMMA AfterUnptrFormed ==
    ASSUME NEW q, Formed(q), q.at \in {"unptr", "unptrDelete", "unptrBump"}
    PROVE  Formed(AfterUnptr(q)) /\ AfterUnptr(q).at # "write"
<1>1. q \in Requests
  BY Zenon DEF Formed
<1>2. CASE q.op = "update"
  <2> DEFINE s == [q EXCEPT !.at = "sync", !.rev = None, !.todo = {}]
  <2>1. /\ s \in Requests /\ s.at = "sync" /\ s.op = q.op /\ s.rec = q.rec
    BY Zenon, <1>1 DEF Requests, Stages
  <2>2. AfterUnptr(q) = s
    BY Zenon, <1>2 DEF AfterUnptr
  <2> HIDE DEF s
  <2>3. Formed(s)
    BY Zenon, <1>2, <2>1 DEF Formed
  <2> QED BY Zenon, <2>1, <2>2, <2>3
<1>3. CASE q.op = "unregister"
  <2> DEFINE s == [q EXCEPT !.at = "remove", !.rev = None]
  <2>1. s \in Requests /\ s.at = "remove" /\ s.op = q.op /\ s.id = q.id
    BY Zenon, <1>1 DEF Requests, Stages
  <2>2. AfterUnptr(q) = s
    BY Zenon, <1>3 DEF AfterUnptr
  <2> HIDE DEF s
  <2>3. Formed(s)
    BY Zenon, <1>3, <2>1 DEF Formed
  <2> QED BY Zenon, <2>1, <2>2, <2>3
<1>4. CASE q.op \notin {"update", "unregister"}
  BY Zenon, <1>4, IdleFormed DEF AfterUnptr
<1> QED BY Zenon, <1>2, <1>3, <1>4

LEMMA AfterSyncFormed ==
    ASSUME NEW q, Formed(q), q.at \in {"ensure", "query", "clear", "syncBump"}
    PROVE  Formed(AfterSync(q)) /\ AfterSync(q).at # "write"
<1>1. CASE q.op = "register"
  <2> DEFINE s == [q EXCEPT !.at = "bump", !.rev = None, !.gone = {}]
  <2>1. q \in Requests /\ IsA(q.rec)
    BY Zenon DEF Formed
  <2>2. /\ s \in Requests /\ s.at = "bump" /\ s.op = q.op /\ s.id = q.id /\ s.rec = q.rec /\ s.old = q.old
        /\ AfterSync(q) = s
    BY Zenon, <1>1, <2>1 DEF Requests, Stages, AfterSync
  <2> HIDE DEF s
  <2>3. Ready(q, s.at, s.rev)
    BY <1>1, <2>1, <2>2 DEF Ready, Stages
  <2> QED BY Zenon, <2>2, <2>3, OnFormed
<1>2. CASE q.op # "register"
  BY Zenon, <1>2, IdleFormed DEF AfterSync
<1> QED BY Zenon, <1>1, <1>2

-----------------------------------------------------------------------------
(* One lemma per step of a request. *)

Kept == ApiInv' /\ [StoreStep(TRUE)]_storeVars

LEMMA DedupeStep == ASSUME ApiInv, NEW p \in Procs, dedupe(p) PROVE Kept
<1> DEFINE q == proc[p]
<1>1. Formed(q) /\ q \in Requests /\ q.at = "dedupe" /\ UNCHANGED storeVars /\ dirty' = dirty
  BY Zenon DEF ApiInv, Formed, dedupe, At
<1>2. Goto(p, Idle) \/ Goto(p, [q EXCEPT !.at = "insert"])
  BY Zenon DEF dedupe
<1>3. Formed([q EXCEPT !.at = "insert"]) /\ [q EXCEPT !.at = "insert"].at = "insert"
  <2>1. Ready(q, "insert", q.rev)
    BY Zenon, <1>1 DEF Formed, Ready, Stages
  <2> QED BY Zenon, <1>1, <2>1, OnAt
<1>4. Move /\ dirty' \subseteq ZoneIds
  BY Zenon, <1>1 DEF Move, ApiInv
<1> HIDE DEF q
<1> QED BY Zenon, <1>2, <1>3, <1>4, IdleFormed, Moved DEF Kept

LEMMA InsertStep == ASSUME ApiInv, NEW p \in Procs, insert(p) PROVE Kept
<1> DEFINE q == proc[p]
<1>1. Formed(q) /\ q.at = "insert" /\ Goto(p, [q EXCEPT !.at = "bump"]) /\ dirty' = dirty \cup {q.rec.zone}
  BY Zenon DEF ApiInv, insert, At
<1>2. PICK r \in FreshIds : create_record(r, q.rec)
  BY Zenon DEF insert
<1>3. IsA(q.rec) /\ q.rec \in Record /\ q.rec.zone \in ZoneIds /\ q.op = "create"
  BY Zenon, <1>1 DEF Formed, IsA, Record
<1>4. Move /\ dirty' \subseteq ZoneIds
  BY Zenon, <1>1, <1>2, <1>3 DEF Move, IsPair, ApiInv
<1>5. Ready(q, "bump", q.rev)
  BY Zenon, <1>3 DEF Ready, Stages
<1>6. Formed([q EXCEPT !.at = "bump"]) /\ [q EXCEPT !.at = "bump"].at = "bump"
  BY Zenon, <1>1, <1>5, OnAt
<1> HIDE DEF q
<1> QED BY Zenon, <1>1, <1>4, <1>6, Moved DEF Kept

LEMMA WriteRowStep == ASSUME ApiInv, NEW p \in Procs, write(p) PROVE Kept
<1> DEFINE q == proc[p]
<1>1. Formed(q) /\ SameZone(q) /\ q.at = "write"
  BY Zenon DEF ApiInv, write, At
<1>2. IsA(q.rec) /\ q.rec \in Record /\ q.rec.zone \in ZoneIds /\ q.id \in Ids
  BY Zenon, <1>1 DEF Formed, IsA, Record
<1>3. CASE records[q.id] = None
  <2>1. Goto(p, Idle) /\ Move /\ dirty' \subseteq ZoneIds
    BY Zenon, <1>3 DEF write, Move, ApiInv
  <2> QED BY Zenon, <2>1, IdleFormed, Moved DEF Kept
<1>4. CASE records[q.id] # None
  <2>1. /\ update_record(q.id, q.rec) /\ dirty' = dirty \cup {q.rec.zone}
        /\ Goto(p, Idle) \/ (q.op = "update" /\ Goto(p, [q EXCEPT !.at = "bump"]))
    BY Zenon, <1>4 DEF write
  <2>2. Move /\ dirty' \subseteq ZoneIds
    BY Zenon, <1>1, <1>2, <1>4, <2>1 DEF Move, IsPair, SameZone, ApiInv
  <2>3. q.op = "update" => Ready(q, "bump", q.rev)
    BY Zenon, <1>1, <1>2 DEF Ready, Stages, Formed
  <2>4. q.op = "update" => Formed([q EXCEPT !.at = "bump"]) /\ [q EXCEPT !.at = "bump"].at = "bump"
    BY Zenon, <1>1, <2>3, OnAt
  <2> HIDE DEF q
  <2> QED BY Zenon, <2>1, <2>2, <2>4, IdleFormed, Moved DEF Kept
<1> QED BY Zenon, <1>3, <1>4

LEMMA RemoveStep == ASSUME ApiInv, NEW p \in Procs, remove(p) PROVE Kept
<1> DEFINE q == proc[p]
<1>1. Formed(q) /\ q.at = "remove" /\ q.id \in Ids
  BY Zenon DEF ApiInv, remove, At, Formed
<1>2. CASE records[q.id] = None
  <2>1. Goto(p, Idle) /\ Move /\ dirty' \subseteq ZoneIds
    BY Zenon, <1>2 DEF remove, Move, ApiInv
  <2> QED BY Zenon, <2>1, IdleFormed, Moved DEF Kept
<1>3. CASE records[q.id] # None
  <2>1. /\ delete_record(q.id) /\ dirty' = dirty \cup {records[q.id].zone}
        /\ \/ q.op = "delete" /\ Goto(p, [q EXCEPT !.at = "bump"])
           \/ q.op # "delete" /\ Goto(p, [q EXCEPT !.at = "next"])
    BY Zenon, <1>3 DEF remove
  <2>2. records[q.id].zone \in ZoneIds
    BY Zenon, <1>1, <1>3 DEF ApiInv, StoreInv, StoreTypeOK, Record
  <2>3. Move /\ dirty' \subseteq ZoneIds
    BY Zenon, <1>1, <2>1, <2>2 DEF Move, ApiInv
  <2>4. (q.op = "delete" => Ready(q, "bump", q.rev)) /\ (q.op # "delete" => Ready(q, "next", q.rev))
    BY Zenon, <1>1 DEF Ready, Stages, Formed
  <2>5. /\ q.op = "delete" => Formed([q EXCEPT !.at = "bump"]) /\ [q EXCEPT !.at = "bump"].at = "bump"
        /\ q.op # "delete" => Formed([q EXCEPT !.at = "next"]) /\ [q EXCEPT !.at = "next"].at = "next"
    BY Zenon, <1>1, <2>4, OnAt
  <2> HIDE DEF q
  <2> QED BY Zenon, <2>1, <2>3, <2>5, Moved DEF Kept
<1> QED BY Zenon, <1>2, <1>3

LEMMA BumpStep == ASSUME ApiInv, NEW p \in Procs, bump(p) PROVE Kept
<1> DEFINE q == proc[p]
<1>1. Formed(q) /\ q.at = "bump" /\ IsA(q.rec) /\ Move
  BY Zenon DEF ApiInv, bump, At, Formed, Move
<1>2. dirty' \subseteq ZoneIds
  BY Zenon DEF bump, increment_soa_serial, ApiInv
<1>3. \/ Goto(p, [q EXCEPT !.at = "sync"])
      \/ q.op \in {"update", "delete"} /\ Goto(p, [q EXCEPT !.at = "unptr"])
      \/ Goto(p, Idle)
  BY Zenon DEF bump
<1>4. Ready(q, "sync", q.rev) /\ (q.op \in {"update", "delete"} => Ready(q, "unptr", q.rev))
  BY Zenon, <1>1 DEF Ready, Stages, Formed
<1>5. /\ Formed([q EXCEPT !.at = "sync"]) /\ [q EXCEPT !.at = "sync"].at = "sync"
      /\ q.op \in {"update", "delete"} =>
            Formed([q EXCEPT !.at = "unptr"]) /\ [q EXCEPT !.at = "unptr"].at = "unptr"
  BY Zenon, <1>1, <1>4, OnAt
<1> HIDE DEF q
<1> QED BY Zenon, <1>1, <1>2, <1>3, <1>5, IdleFormed, Moved DEF Kept

LEMMA Indexed ==
    ASSUME ApiInv
    PROVE  /\ nameIdx[Reverse] \in ZoneIds \cup {None} /\ nameIdx[Forward] \in ZoneIds \cup {None}
           /\ \A z \in ZoneIds, k \in Keys : query_records(z, k) \in SUBSET Ids
  BY ApiAssumption DEF ApiInv, StoreInv, StoreTypeOK, query_records

LEMMA UnptrStep == ASSUME ApiInv, NEW p \in Procs, unptr(p) PROVE Kept
<1> DEFINE q == proc[p]
           z == nameIdx[Reverse]
           G == {r \in query_records(z, q.old.ip) : records[r].data = q.old.host}
           s == [q EXCEPT !.at = "unptrDelete", !.rev = z, !.gone = G]
<1>1. Formed(q) /\ q \in Requests /\ q.at = "unptr" /\ Move /\ dirty' \subseteq ZoneIds
  BY Zenon DEF ApiInv, unptr, At, Formed, Move
<1>2. Goto(p, IF z = None THEN AfterUnptr(q) ELSE s)
  BY Zenon DEF unptr
<1>3. CASE z = None
  BY Zenon, <1>1, <1>2, <1>3, AfterUnptrFormed, Moved DEF Kept
<1>4. CASE z # None
  <2>1. z \in ZoneIds /\ q.old.ip \in Keys
    BY Zenon, <1>1, <1>4, Indexed, ApiAssumption DEF Formed, Link
  <2>2. G \in SUBSET Ids
    BY Zenon, <2>1, Indexed
  <2>3. Ready(q, "unptrDelete", z)
    BY Zenon, <1>1, <2>1 DEF Ready, Stages, Formed
  <2> HIDE DEF G, z
  <2>4. /\ s \in Requests /\ s.at = "unptrDelete" /\ s.rev = z
        /\ s.op = q.op /\ s.id = q.id /\ s.rec = q.rec /\ s.old = q.old
    BY Zenon, <1>1, <2>1, <2>2 DEF Requests, Stages
  <2>5. Goto(p, s)
    BY Zenon, <1>2, <1>4
  <2> HIDE DEF s
  <2>6. Formed(s)
    BY Zenon, <1>1, <2>3, <2>4, OnFormed
  <2> QED BY Zenon, <1>1, <2>4, <2>5, <2>6, Moved DEF Kept
<1> QED BY Zenon, <1>3, <1>4

\* The rest of a list is let go.
LEMMA GoneFormed ==
    ASSUME NEW q, Formed(q), NEW s \in Requests,
           s.op = q.op, s.id = q.id, s.rec = q.rec, s.old = q.old, s.rev = q.rev,
           s.at = q.at \/ (q.at = "unptrDelete" /\ s.at = "unptrBump"),
           q.at \in {"unptrDelete", "unptrBump", "clear", "stale"}
    PROVE  Formed(s)
<1>1. Ready(q, s.at, q.rev)
  BY Zenon DEF Ready, Formed, Stages
<1> QED BY Zenon, <1>1, OnFormed

LEMMA UnptrDeleteStep == ASSUME ApiInv, NEW p \in Procs, unptrDelete(p) PROVE Kept
<1> DEFINE q == proc[p]
           e == [q EXCEPT !.gone = {}]
<1>1. Formed(q) /\ q \in Requests /\ q.at = "unptrDelete" /\ q.rev \in ZoneIds /\ q.gone \in SUBSET Ids
  BY Zenon DEF ApiInv, unptrDelete, At, Formed, Requests
<1>2. Formed(e) /\ e.at = "unptrDelete"
  <2>1. e \in Requests /\ e.op = q.op /\ e.id = q.id /\ e.rec = q.rec /\ e.old = q.old /\ e.rev = q.rev /\ e.at = q.at
    BY Zenon, <1>1 DEF Requests
  <2> HIDE DEF e
  <2> QED BY Zenon, <1>1, <2>1, GoneFormed
<1>3. CASE (Goto(p, AfterUnptr(q)) \/ Goto(p, AfterUnptr(e))) /\ UNCHANGED <<storeVars, dirty>>
  <2>1. Move /\ dirty' \subseteq ZoneIds
    BY Zenon, <1>3 DEF Move, ApiInv
  <2> HIDE DEF q, e
  <2> QED BY Zenon, <1>1, <1>2, <1>3, <2>1, AfterUnptrFormed, Moved DEF Kept
<1>4. ASSUME NEW r \in q.gone, delete_record(r), dirty' = dirty \cup {q.rev},
             Goto(p, [q EXCEPT !.at = "unptrBump", !.gone = @ \ {r}])
      PROVE  Kept
  <2> DEFINE G == q.gone \ {r}
             s == [q EXCEPT !.at = "unptrBump", !.gone = G]
  <2>1. Move /\ dirty' \subseteq ZoneIds
    BY Zenon, <1>1, <1>4 DEF Move, ApiInv
  <2>2. G \in SUBSET Ids
    BY Zenon, <1>1
  <2>3. Goto(p, s)
    BY Zenon, <1>4
  <2> HIDE DEF G
  <2>4. /\ s \in Requests /\ s.op = q.op /\ s.id = q.id /\ s.rec = q.rec /\ s.old = q.old /\ s.rev = q.rev
        /\ s.at = "unptrBump"
    BY Zenon, <1>1, <2>2 DEF Requests, Stages
  <2> HIDE DEF s
  <2>5. Formed(s)
    BY Zenon, <1>1, <2>4, GoneFormed
  <2> QED BY Zenon, <2>1, <2>3, <2>4, <2>5, Moved DEF Kept
<1> QED BY Zenon, <1>3, <1>4 DEF unptrDelete

LEMMA UnptrBumpStep == ASSUME ApiInv, NEW p \in Procs, unptrBump(p) PROVE Kept
<1> DEFINE q == proc[p]
           e == [q EXCEPT !.gone = {}]
           s == [q EXCEPT !.at = "unptrDelete"]
<1>1. Formed(q) /\ q \in Requests /\ q.at = "unptrBump" /\ Move
  BY Zenon DEF ApiInv, unptrBump, At, Formed, Move
<1>2. dirty' \subseteq ZoneIds
  BY Zenon DEF unptrBump, increment_soa_serial, ApiInv
<1>3. Formed(e) /\ e.at = "unptrBump"
  <2>1. e \in Requests /\ e.op = q.op /\ e.id = q.id /\ e.rec = q.rec /\ e.old = q.old /\ e.rev = q.rev /\ e.at = q.at
    BY Zenon, <1>1 DEF Requests
  <2> HIDE DEF e
  <2> QED BY Zenon, <1>1, <2>1, GoneFormed
<1>4. Ready(q, "unptrDelete", q.rev)
  BY Zenon, <1>1 DEF Ready, Formed, Stages
<1>5. Formed(s) /\ s.at = "unptrDelete"
  BY Zenon, <1>1, <1>4, OnAt
<1>6. Goto(p, AfterUnptr(e)) \/ Goto(p, s)
  BY Zenon DEF unptrBump
<1> HIDE DEF q, e, s
<1> QED BY Zenon, <1>1, <1>2, <1>3, <1>5, <1>6, AfterUnptrFormed, Moved DEF Kept

LEMMA SyncPtrStep == ASSUME ApiInv, NEW p \in Procs, sync(p) PROVE Kept
<1> DEFINE q == proc[p]
           z == nameIdx[Reverse]
           a == IF z = None THEN "ensure" ELSE "query"
           s == [q EXCEPT !.at = a, !.rev = z]
<1>1. Formed(q) /\ q \in Requests /\ q.at = "sync" /\ Move /\ dirty' \subseteq ZoneIds
  BY Zenon DEF ApiInv, sync, At, Formed, Move
<1>2. z \in ZoneIds \cup {None} /\ a \in {"ensure", "query"} /\ (a = "query" => z \in ZoneIds)
  BY Zenon, Indexed
<1>3. Goto(p, s)
  BY Zenon DEF sync
<1> HIDE DEF z, a
<1>4. /\ s \in Requests /\ s.at = a /\ s.rev = z
      /\ s.op = q.op /\ s.id = q.id /\ s.rec = q.rec /\ s.old = q.old
  BY ZenonT(30), <1>1, <1>2 DEF Requests, Stages
<1>5. Ready(q, a, z)
  BY Zenon, <1>1, <1>2 DEF Ready, Formed, Stages
<1> HIDE DEF s
<1>6. Formed(s)
  BY Zenon, <1>1, <1>4, <1>5, OnFormed
<1> QED BY Zenon, <1>1, <1>2, <1>3, <1>4, <1>6, Moved DEF Kept

LEMMA EnsureStep == ASSUME ApiInv, NEW p \in Procs, ensure(p) PROVE Kept
<1> DEFINE q == proc[p]
<1>1. Formed(q) /\ q \in Requests /\ q.at = "ensure" /\ dirty' \subseteq ZoneIds
  BY Zenon DEF ApiInv, ensure, At, Formed
<1>2. CASE nameIdx[Reverse] # None
  <2>1. Goto(p, AfterSync(q)) /\ Move
    BY Zenon, <1>2 DEF ensure, Move
  <2> HIDE DEF q
  <2> QED BY Zenon, <1>1, <2>1, AfterSyncFormed, Moved DEF Kept
<1>3. CASE nameIdx[Reverse] = None
  <2>1. PICK z \in FreshZones : create_zone(z, Reverse) /\ Goto(p, [q EXCEPT !.at = "query", !.rev = z])
    BY Zenon, <1>3 DEF ensure
  <2>2. z \in ZoneIds /\ FreshZone(z) /\ Reverse \in ZoneNames
    BY Zenon, <2>1, ApiAssumption DEF FreshZones
  <2>3. Move
    BY Zenon, <2>1, <2>2 DEF Move
  <2> DEFINE s == [q EXCEPT !.at = "query", !.rev = z]
  <2>4. /\ s \in Requests /\ s.at = "query" /\ s.rev = z /\ Goto(p, s)
        /\ s.op = q.op /\ s.id = q.id /\ s.rec = q.rec /\ s.old = q.old
    BY Zenon, <1>1, <2>1, <2>2 DEF Requests, Stages
  <2>5. Ready(q, "query", z)
    BY Zenon, <1>1, <2>2 DEF Ready, Formed, Stages
  <2> HIDE DEF s
  <2>6. Formed(s)
    BY Zenon, <1>1, <2>4, <2>5, OnFormed
  <2> QED BY Zenon, <1>1, <2>3, <2>4, <2>6, Moved DEF Kept
<1> QED BY Zenon, <1>2, <1>3

LEMMA QueryStep == ASSUME ApiInv, NEW p \in Procs, query(p) PROVE Kept
<1> DEFINE q == proc[p]
           G == query_records(q.rev, q.rec.data)
           s == [q EXCEPT !.at = "clear", !.gone = G]
<1>1. Formed(q) /\ q \in Requests /\ q.at = "query" /\ Move /\ dirty' \subseteq ZoneIds
  BY Zenon DEF ApiInv, query, At, Formed, Move
<1>2. G \in SUBSET Ids
  <2>1. q.rev \in ZoneIds /\ q.rec.data \in Keys
    BY Zenon, <1>1, ApiAssumption DEF Formed, IsA
  <2> QED BY Zenon, <2>1, Indexed
<1>3. Goto(p, AfterSync(q)) \/ Goto(p, s)
  BY Zenon DEF query
<1>4. Ready(q, "clear", q.rev)
  BY Zenon, <1>1 DEF Ready, Formed, Stages
<1> HIDE DEF G
<1>5. /\ s \in Requests /\ s.at = "clear" /\ s.rev = q.rev
      /\ s.op = q.op /\ s.id = q.id /\ s.rec = q.rec /\ s.old = q.old
  BY Zenon, <1>1, <1>2 DEF Requests, Stages
<1> HIDE DEF q, s
<1>6. Formed(s)
  BY <1>1, <1>4, <1>5, OnFormed
<1> QED BY Zenon, <1>1, <1>3, <1>5, <1>6, AfterSyncFormed, Moved DEF Kept

LEMMA ClearStep == ASSUME ApiInv, NEW p \in Procs, clear(p) PROVE Kept
<1> DEFINE q == proc[p]
           new == [zone |-> q.rev, key |-> q.rec.data, data |-> q.rec.key, enabled |-> TRUE]
<1>1. /\ Formed(q) /\ q \in Requests /\ q.at = "clear" /\ IsA(q.rec) /\ q.rev \in ZoneIds
      /\ q.gone \in SUBSET Ids
  BY Zenon DEF ApiInv, clear, At, Formed, Requests
<1>2. CASE Goto(p, AfterSync(q)) /\ UNCHANGED <<storeVars, dirty>>
  <2>1. Move /\ dirty' \subseteq ZoneIds
    BY Zenon, <1>2 DEF Move, ApiInv
  <2> HIDE DEF q
  <2> QED BY Zenon, <1>1, <1>2, <2>1, AfterSyncFormed, Moved DEF Kept
<1>3. ASSUME NEW r \in q.gone, delete_record(r), dirty' = dirty \cup {q.rev}, Goto(p, [q EXCEPT !.gone = @ \ {r}])
      PROVE  Kept
  <2> DEFINE G == q.gone \ {r}
             s == [q EXCEPT !.gone = G]
  <2>1. Move /\ dirty' \subseteq ZoneIds
    BY Zenon, <1>1, <1>3 DEF Move, ApiInv
  <2>2. G \in SUBSET Ids /\ Goto(p, s)
    BY Zenon, <1>1, <1>3
  <2> HIDE DEF G
  <2>3. /\ s \in Requests /\ s.op = q.op /\ s.id = q.id /\ s.rec = q.rec /\ s.old = q.old /\ s.rev = q.rev
        /\ s.at = q.at
    BY Zenon, <1>1, <2>2 DEF Requests
  <2> HIDE DEF s
  <2>4. Formed(s)
    BY Zenon, <1>1, <2>3, GoneFormed
  <2> QED BY Zenon, <1>1, <2>1, <2>2, <2>3, <2>4, Moved DEF Kept
<1>4. ASSUME NEW r \in FreshIds, create_record(r, new), dirty' = dirty \cup {q.rev}, Goto(p, [q EXCEPT !.at = "syncBump"])
      PROVE  Kept
  <2>1. new \in Record /\ IsPair(new)
    BY Zenon, <1>1, ApiAssumption DEF Record, IsPair, IsA
  <2> HIDE DEF new
  <2>2. Move /\ dirty' \subseteq ZoneIds
    BY Zenon, <1>1, <1>4, <2>1 DEF Move, ApiInv
  <2>3. Ready(q, "syncBump", q.rev)
    BY Zenon, <1>1 DEF Ready, Stages
  <2>4. Formed([q EXCEPT !.at = "syncBump"]) /\ [q EXCEPT !.at = "syncBump"].at = "syncBump"
    BY Zenon, <1>1, <2>3, OnAt
  <2> HIDE DEF q
  <2> QED BY Zenon, <1>4, <2>2, <2>4, Moved DEF Kept
<1> QED BY Zenon, <1>2, <1>3, <1>4 DEF clear

LEMMA SyncBumpStep == ASSUME ApiInv, NEW p \in Procs, syncBump(p) PROVE Kept
<1> DEFINE q == proc[p]
<1>1. Formed(q) /\ q.at = "syncBump" /\ Move /\ Goto(p, AfterSync(q))
  BY Zenon DEF ApiInv, syncBump, At, Move
<1>2. dirty' \subseteq ZoneIds
  BY Zenon DEF syncBump, increment_soa_serial, ApiInv
<1> HIDE DEF q
<1> QED BY Zenon, <1>1, <1>2, AfterSyncFormed, Moved DEF Kept

LEMMA StaleStep == ASSUME ApiInv, NEW p \in Procs, stale(p) PROVE Kept
<1> DEFINE q == proc[p]
<1>1. /\ Formed(q) /\ q \in Requests /\ q.at = "stale" /\ IsA(q.rec) /\ q.rec \in Record /\ q.rec.zone \in ZoneIds
      /\ q.gone \in SUBSET Ids
  BY Zenon DEF ApiInv, stale, At, Formed, Requests, IsA, Record
<1>2. CASE Goto(p, Idle) /\ UNCHANGED <<storeVars, dirty>>
  <2>1. Move /\ dirty' \subseteq ZoneIds
    BY Zenon, <1>2 DEF Move, ApiInv
  <2> QED BY Zenon, <1>2, <2>1, IdleFormed, Moved DEF Kept
<1>3. ASSUME NEW r \in q.gone, delete_record(r), dirty' = dirty \cup {q.rec.zone}, Goto(p, [q EXCEPT !.gone = @ \ {r}])
      PROVE  Kept
  <2> DEFINE G == q.gone \ {r}
             s == [q EXCEPT !.gone = G]
  <2>1. Move /\ dirty' \subseteq ZoneIds
    BY Zenon, <1>1, <1>3 DEF Move, ApiInv
  <2>2. G \in SUBSET Ids /\ Goto(p, s)
    BY Zenon, <1>1, <1>3
  <2> HIDE DEF G
  <2>3. /\ s \in Requests /\ s.op = q.op /\ s.id = q.id /\ s.rec = q.rec /\ s.old = q.old /\ s.rev = q.rev
        /\ s.at = q.at
    BY Zenon, <1>1, <2>2 DEF Requests
  <2> HIDE DEF s
  <2>4. Formed(s)
    BY Zenon, <1>1, <2>3, GoneFormed
  <2> QED BY Zenon, <1>1, <2>1, <2>2, <2>3, <2>4, Moved DEF Kept
<1>4. ASSUME NEW r \in FreshIds, create_record(r, q.rec), dirty' = dirty \cup {q.rec.zone},
             Goto(p, [q EXCEPT !.at = "sync"])
      PROVE  Kept
  <2>1. Move /\ dirty' \subseteq ZoneIds
    BY Zenon, <1>1, <1>4 DEF Move, IsPair, ApiInv
  <2>2. Ready(q, "sync", q.rev)
    BY Zenon, <1>1 DEF Ready, Stages
  <2>3. Formed([q EXCEPT !.at = "sync"]) /\ [q EXCEPT !.at = "sync"].at = "sync"
    BY Zenon, <1>1, <2>2, OnAt
  <2> HIDE DEF q
  <2> QED BY ZenonT(30), <1>4, <2>1, <2>3, Moved DEF Kept
<1> QED BY Zenon, <1>2, <1>3, <1>4 DEF stale

LEMMA NextRowStep == ASSUME ApiInv, NEW p \in Procs, next(p) PROVE Kept
<1> DEFINE q == proc[p]
<1>1. /\ Formed(q) /\ q \in Requests /\ q.at = "next" /\ Move /\ dirty' \subseteq ZoneIds
      /\ q.todo \in SUBSET [id : Ids, link : Link]
  BY Zenon DEF ApiInv, next, At, Formed, Requests, Move
<1>2. CASE Goto(p, Idle)
  BY Zenon, <1>1, <1>2, IdleFormed, Moved DEF Kept
<1>3. ASSUME NEW t \in q.todo,
             Goto(p, [q EXCEPT !.at = "unptr", !.id = t.id, !.old = t.link, !.todo = @ \ {t}])
      PROVE  Kept
  <2> DEFINE T == q.todo \ {t}
             s == [q EXCEPT !.at = "unptr", !.id = t.id, !.old = t.link, !.todo = T]
  <2>1. t.id \in Ids /\ t.link \in Link /\ T \in SUBSET [id : Ids, link : Link] /\ Goto(p, s)
    BY Zenon, <1>1, <1>3
  <2> HIDE DEF T
  <2>2. s \in Requests /\ s.at = "unptr" /\ s.op = q.op /\ s.id = t.id /\ s.rec = q.rec /\ s.old = t.link
    BY Zenon, <1>1, <2>1 DEF Requests, Stages
  <2> HIDE DEF s
  <2>3. q.op = "unregister"
    BY Zenon, <1>1 DEF Formed
  <2>4. Formed(s)
    BY Zenon, <2>1, <2>2, <2>3 DEF Formed
  <2> QED BY Zenon, <1>1, <2>1, <2>2, <2>4, Moved DEF Kept
<1> QED BY Zenon, <1>2, <1>3 DEF next

-----------------------------------------------------------------------------
(* Requests that begin, the others, and the theorem. *)

LEMMA RequestStep == ASSUME ApiInv, NEW c \in Procs, Request(c) PROVE Kept
<1>1. Idle \in Requests
  BY Zenon, IdleFormed DEF Formed
<1>2. ASSUME NEW z \in ZoneIds, NEW h \in Hosts, NEW ip \in Ips, NEW on \in BOOLEAN,
             rest_create_record(c, z, h, ip, on)
      PROVE  Kept
  <2> DEFINE s == [Idle EXCEPT !.op = "create", !.at = "dedupe", !.rec = A(z, h, ip, on)]
  <2>1. Goto(c, s) /\ Move /\ dirty' \subseteq ZoneIds /\ "create" \in Ops
    BY Zenon, <1>2 DEF rest_create_record, Move, ApiInv, Take
  <2>2. IsA(A(z, h, ip, on)) /\ A(z, h, ip, on) \in Record
    BY Zenon, ApiAssumption DEF A, IsA, Record
  <2>3. s \in Requests /\ s.at = "dedupe" /\ s.op = "create" /\ s.rec = A(z, h, ip, on)
    BY Zenon, <1>1, <2>1, <2>2 DEF Requests, Stages
  <2> HIDE DEF s
  <2>4. Formed(s)
    BY Zenon, <2>2, <2>3 DEF Formed
  <2> QED BY Zenon, <2>1, <2>3, <2>4, Moved DEF Kept
<1>3. ASSUME NEW r \in Ids, NEW op \in {"update", "grpc_update"}, NEW h \in Hosts, NEW ip \in Ips,
             NEW on \in BOOLEAN, update_record_begins(c, op, r, h, ip, on)
      PROVE  Kept
  <2> DEFINE new == [records[r] EXCEPT !.key = h, !.data = ip, !.enabled = on]
             l == LinkOf(records[r])
             s == [Idle EXCEPT !.op = op, !.at = "write", !.id = r, !.rec = new, !.old = l]
  <2>1. /\ Goto(c, s) /\ Move /\ dirty' \subseteq ZoneIds /\ op \in Ops /\ UNCHANGED records
        /\ records[r] # None /\ records[r].key \in Hosts
    BY Zenon, <1>3 DEF update_record_begins, Move, ApiInv, Take, storeVars
  <2>2. records[r] \in Record /\ IsA(records[r])
    BY Zenon, <2>1, ApiAssumption DEF ApiInv, IsPair, IsA
  <2>3. new \in Record /\ IsA(new) /\ new.zone = records[r].zone /\ l \in Link
    BY Zenon, <2>2, ApiAssumption DEF IsA, Record, LinkOf, Link
  <2> HIDE DEF new, l
  <2>4. s \in Requests /\ s.at = "write" /\ s.op = op /\ s.rec = new /\ s.id = r /\ s.old = l
    BY Zenon, <1>1, <2>1, <2>3 DEF Requests, Stages
  <2> HIDE DEF s
  <2>5. Formed(s)
    BY Zenon, <2>3, <2>4 DEF Formed
  <2> QED BY Zenon, <2>1, <2>3, <2>4, <2>5, Moved DEF Kept
<1>4. ASSUME NEW r \in Ids, rest_delete_record(c, r)
      PROVE  Kept
  <2> DEFINE row == records[r]
             l == LinkOf(records[r])
             s == [Idle EXCEPT !.op = "delete", !.at = "remove", !.id = r, !.rec = row, !.old = l]
  <2>1. /\ Goto(c, s) /\ Move /\ dirty' \subseteq ZoneIds /\ "delete" \in Ops
        /\ row # None /\ row.key \in Hosts
    BY Zenon, <1>4 DEF rest_delete_record, Move, ApiInv, Take
  <2>2. row \in Record /\ IsA(row)
    BY Zenon, <2>1, ApiAssumption DEF ApiInv, IsPair, IsA
  <2>3. l \in Link
    BY Zenon, <2>2 DEF IsA, LinkOf, Link
  <2> HIDE DEF row, l
  <2>4. s \in Requests /\ s.at = "remove" /\ s.op = "delete" /\ s.rec = row /\ s.id = r /\ s.old = l
    BY Zenon, <1>1, <2>1, <2>2, <2>3 DEF Requests, Stages
  <2> HIDE DEF s
  <2>5. Formed(s)
    BY Zenon, <2>2, <2>3, <2>4 DEF Formed
  <2> QED BY Zenon, <2>1, <2>4, <2>5, Moved DEF Kept
<1> QED BY Zenon, <1>2, <1>3, <1>4 DEF Request

LEMMA RegistrarStep ==
    ASSUME ApiInv, NEW h \in Hosts, unregister(h) \/ \E ip \in Ips : register_v4(h, ip)
    PROVE  Kept
<1>1. Idle \in Requests /\ "dhcp" \in Procs
  BY Zenon, IdleFormed DEF Formed, Procs
<1>2. ASSUME NEW ip \in Ips, register_v4(h, ip)
      PROVE  Kept
  <2> DEFINE z == nameIdx[Forward]
             G == query_records(z, h)
             a == A(z, h, ip, TRUE)
             s == [Idle EXCEPT !.op = "register", !.at = "stale", !.rec = a, !.gone = G]
  <2>1. Goto("dhcp", s) /\ Move /\ dirty' \subseteq ZoneIds /\ "register" \in Ops /\ z # None
    BY Zenon, <1>2 DEF register_v4, Move, ApiInv, Take
  <2>2. z \in ZoneIds
    BY Zenon, <2>1, Indexed
  <2>3. IsA(a) /\ a \in Record /\ G \in SUBSET Ids
    BY Zenon, <2>2, Indexed, ApiAssumption DEF A, IsA, Record
  <2> HIDE DEF z, G, a
  <2>4. s \in Requests /\ s.at = "stale" /\ s.op = "register" /\ s.rec = a
    BY Zenon, <1>1, <2>1, <2>3 DEF Requests, Stages
  <2> HIDE DEF s
  <2>5. Formed(s)
    BY Zenon, <2>3, <2>4 DEF Formed
  <2> QED BY Zenon, <1>1, <2>1, <2>4, <2>5, Moved DEF Kept
<1>3. ASSUME unregister(h)
      PROVE  Kept
  <2> DEFINE z == nameIdx[Forward]
             R == {r \in list_records(z) : records[r].key = h}
             T == {[id |-> r, link |-> LinkOf(records[r])] : r \in R}
             s == [Idle EXCEPT !.op = "unregister", !.at = "next", !.todo = T]
  <2>1. Goto("dhcp", s) /\ Move /\ dirty' \subseteq ZoneIds /\ "unregister" \in Ops /\ z # None
    BY Zenon, <1>3 DEF unregister, Move, ApiInv, Take
  <2>2. R \subseteq Ids /\ \A r \in R : records[r] # None /\ records[r].key \in Hosts
    BY <2>1, Indexed DEF list_records, Held, ApiInv, StoreInv, StoreTypeOK
  <2>3. \A r \in R : IsA(records[r])
    BY Zenon, <2>2, ApiAssumption DEF ApiInv, IsPair, IsA
  <2>4. \A r \in R : LinkOf(records[r]) \in Link
    BY Zenon, <2>3 DEF IsA, LinkOf, Link
  <2> HIDE DEF R
  <2>5. T \in SUBSET [id : Ids, link : Link]
    BY <2>2, <2>4
  <2> HIDE DEF T
  <2>6. s \in Requests /\ s.at = "next" /\ s.op = "unregister"
    BY Zenon, <1>1, <2>1, <2>5 DEF Requests, Stages
  <2> HIDE DEF s
  <2>7. Formed(s)
    BY Zenon, <2>6 DEF Formed
  <2> QED BY Zenon, <1>1, <2>1, <2>6, <2>7, Moved DEF Kept
<1> QED BY Zenon, <1>2, <1>3

LEMMA OthersStep == ASSUME ApiInv, Others PROVE Kept
<1>1. ASSUME NEW n \in ZoneNames, rest_create_zone(n)
      PROVE  Kept
  <2>1. Move /\ dirty' \subseteq ZoneIds /\ UNCHANGED proc
    BY Zenon, <1>1 DEF rest_create_zone, FreshZones, Move, ApiInv
  <2> QED BY Zenon, <2>1, MovedAlone DEF Kept
<1>2. ASSUME NEW z \in ZoneIds, rest_delete_zone(z)
      PROVE  Kept
  <2>1. Move /\ dirty' \subseteq ZoneIds /\ UNCHANGED proc
    BY Zenon, <1>2 DEF rest_delete_zone, Move, ApiInv
  <2> QED BY Zenon, <2>1, MovedAlone DEF Kept
<1>3. ASSUME NEW h \in Hosts, NEW ip \in Ips, NEW on \in BOOLEAN, NEW z \in ZoneIds, grpc_create_record(z, h, ip, on)
      PROVE  Kept
  <2>1. A(z, h, ip, on) \in Record /\ IsPair(A(z, h, ip, on))
    BY Zenon, ApiAssumption DEF A, IsPair, IsA, Record
  <2>2. Move /\ dirty' \subseteq ZoneIds /\ UNCHANGED proc
    BY Zenon, <1>3, <2>1 DEF grpc_create_record, Move, ApiInv
  <2> QED BY Zenon, <2>2, MovedAlone DEF Kept
<1>4. ASSUME NEW r \in Ids, grpc_delete_record(r)
      PROVE  Kept
  <2>1. delete_record(r) /\ UNCHANGED proc /\ dirty' = dirty \cup {records[r].zone}
    BY Zenon, <1>4 DEF grpc_delete_record
  <2>2. records[r].zone \in ZoneIds
    BY Zenon, <2>1 DEF delete_record, ApiInv, StoreInv, StoreTypeOK, Record
  <2>3. Move /\ dirty' \subseteq ZoneIds
    BY Zenon, <2>1, <2>2 DEF Move, ApiInv
  <2> QED BY Zenon, <2>1, <2>3, MovedAlone DEF Kept
<1>5. ASSUME NEW S \in {{}} \cup {{r} : r \in FreshIds}, Import(S)
      PROVE  Kept
  <2>1. PICK z \in IF nameIdx[Forward] = None THEN FreshZones ELSE {nameIdx[Forward]} :
               /\ \/ upsert_zone(z, Forward)
                  \/ \E h \in Hosts, ip \in Ips : replace_zone_records(z, [r \in S |-> A(z, h, ip, TRUE)])
               /\ dirty' = dirty \ {z}
    BY Zenon, <1>5 DEF Import
  <2>2. z \in ZoneIds /\ Forward \in ZoneNames /\ S \in SUBSET FreshIds
    BY <2>1, Indexed, ApiAssumption DEF FreshZones
  <2>3. \A h \in Hosts, ip \in Ips : /\ A(z, h, ip, TRUE) \in Record /\ IsPair(A(z, h, ip, TRUE))
                                     /\ A(z, h, ip, TRUE).zone = z
    BY Zenon, <2>2, ApiAssumption DEF A, IsPair, IsA, Record
  <2>4. ASSUME upsert_zone(z, Forward) PROVE Move
    <3>1. \E y \in ZoneIds, n \in ZoneNames : upsert_zone(y, n)
      BY <2>2, <2>4, Zenon
    <3> QED BY <3>1, Zenon DEF Move
  <2>5. ASSUME \E h \in Hosts, ip \in Ips : replace_zone_records(z, [r \in S |-> A(z, h, ip, TRUE)]) PROVE Move
    <3>0. PICK h \in Hosts, ip \in Ips : replace_zone_records(z, [r \in S |-> A(z, h, ip, TRUE)])
      BY <2>5, Zenon
    <3> DEFINE a == A(z, h, ip, TRUE)
    <3>1. a \in Record /\ IsPair(a) /\ a.zone = z /\ replace_zone_records(z, [r \in S |-> a])
      BY Zenon, <2>3, <3>0
    <3> HIDE DEF a
    <3>2. \E y \in ZoneIds, T \in SUBSET FreshIds, rec \in Record :
              IsPair(rec) /\ rec.zone = y /\ replace_zone_records(y, [r \in T |-> rec])
      BY Zenon, <2>2, <3>1
    <3> QED BY Zenon, <3>2 DEF Move
  <2>6. Move
    BY <2>1, <2>4, <2>5, Zenon
  <2>7. dirty' \subseteq ZoneIds /\ UNCHANGED proc
    BY Zenon, <1>5, <2>1 DEF Import, ApiInv
  <2> QED BY Zenon, <2>6, <2>7, MovedAlone DEF Kept
<1> QED BY Zenon, <1>1, <1>2, <1>3, <1>4, <1>5, RegistrarStep DEF Others

LEMMA CrashStep == ASSUME ApiInv, Crash PROVE Kept
<1>1. UNCHANGED storeVars /\ UNCHANGED dirty /\ proc' = [p \in Procs |-> Idle]
  BY Zenon DEF Crash
<1>2. proc' \in [Procs -> Requests] /\ \A p \in Procs : proc'[p] = Idle
  BY Zenon, <1>1, IdleFormed DEF Formed
<1>3. \A p \in Procs : Formed(proc'[p]) /\ proc'[p].at # "write"
  BY ZenonT(30), <1>2, IdleFormed
<1>4. \A r \in Ids : records'[r] # None => IsPair(records'[r])
  BY Zenon, <1>1 DEF storeVars, ApiInv
<1>5. StoreInv'
  BY Zenon, <1>1, StoreStepKeeps DEF ApiInv
<1> QED BY Zenon, <1>1, <1>2, <1>3, <1>4, <1>5 DEF Kept, ApiInv, SameZone

LEMMA ApiStarts == Init => ApiInv
<1> SUFFICES ASSUME Init PROVE ApiInv
  BY Zenon
<1>1. StoreInv /\ \A r \in Ids : records[r] = None
  BY Zenon, InvStart DEF Init, StoreInit
<1>2. proc \in [Procs -> Requests] /\ \A p \in Procs : proc[p] = Idle
  BY Zenon, IdleFormed DEF Init, Formed
<1>3. \A p \in Procs : Formed(proc[p]) /\ SameZone(proc[p])
  BY Zenon, <1>2, IdleFormed DEF SameZone
<1> QED BY Zenon, <1>1, <1>2, <1>3 DEF ApiInv, Init

LEMMA OneStep == ASSUME ApiInv, NEW p \in Procs, Step(p) PROVE Kept
  BY Zenon, DedupeStep, InsertStep, WriteRowStep, RemoveStep, BumpStep, UnptrStep, UnptrDeleteStep, UnptrBumpStep,
     SyncPtrStep, EnsureStep, QueryStep, ClearStep, SyncBumpStep, StaleStep, NextRowStep DEF Step

LEMMA ApiStep == ApiInv /\ [Next]_vars => ApiInv' /\ [StoreNext]_storeVars
<1> SUFFICES ASSUME ApiInv, [Next]_vars PROVE Kept
  BY Zenon DEF Kept, StoreNext
<1>1. CASE UNCHANGED vars
  <2>1. Move /\ dirty' \subseteq ZoneIds /\ UNCHANGED proc
    BY Zenon, <1>1 DEF vars, Move, ApiInv
  <2> QED BY Zenon, <2>1, MovedAlone DEF Kept
<1>2. CASE Next
  BY Zenon, <1>2, OneStep, RequestStep, OthersStep, CrashStep DEF Next, Procs
<1> QED BY Zenon, <1>1, <1>2

\* Whatever REST and gRPC requests, registrations and imports run at the same
\* time, and wherever a crash cuts them, the tables move as the store's
\* specification allows: a handler only uses Db's operations, with new ids, and
\* writes a row back to the zone it read it from (update_record).
THEOREM ApiImplementsStore == Spec => StoreSpec
<1>1. Init => StoreInit
  BY Zenon DEF Init
<1> QED BY <1>1, ApiStarts, ApiStep, PTL DEF Spec, StoreSpec

\* So the indexes are sound while requests interleave.
THEOREM ApiIndexesSound == Spec => []IndexesSound
  BY ApiImplementsStore, TablesSound, PTL

\* A zone that is deleted between the steps of other requests takes its records
\* with it.
THEOREM ApiDeleteTakesAll == Spec => DeleteTakesAll
  BY ApiImplementsStore, ZoneTakesRecords, PTL

-----------------------------------------------------------------------------
(* PTR upkeep: requests of operators that run one at a time and rename     *)
(* nothing leave the PTRs right and the serials bumped.                    *)
(*                                                                         *)
(* Neither is inductive: in the middle of a request PTRs and serials are   *)
(* behind.  AloneInv says by how much: what is not right is what the one   *)
(* request at work is about to do.                                         *)

AloneOps == Ops \subseteq {"zone", "create", "update", "disable", "delete"}

\* The PTRs of an address, the ones that name a host, and the rows they go back to.
PtrsOf(ip) == {r \in Ids : records[r] # None /\ records[r].key = ip}
Naming(l) == {r \in PtrsOf(l.ip) : records[r].data = l.host}
HasRow(l) == \E s \in Ids : records[s] # None /\ LinkOf(records[s]) = l
HasOwn(r, ip) == HasRow([host |-> records[r].data, ip |-> ip])

\* No zone goes, and one has the name; PTRs are enabled, in the reverse zone and
\* one for an address.
InZones ==
    /\ \A z \in ZoneIds : zones[z] # None => nameIdx[zones[z]] = z
    /\ \A r \in Ids : records[r] # None => zones[records[r].zone] # None
    /\ \A ip \in Ips : \A r \in PtrsOf(ip) : records[r].enabled /\ zones[records[r].zone] = Reverse
    /\ \A ip \in Ips : \A r, s \in PtrsOf(ip) : r = s

\* What a request knows of the tables while it is the only one.
Knows(q) ==
    /\ q.at \notin {"stale", "next"}
    /\ q.at = "write" => /\ q.op = "update" /\ records[q.id] # None
                         /\ q.rec.key = records[q.id].key /\ q.old = LinkOf(records[q.id])
    /\ q.at = "remove" => q.op = "delete" /\ records[q.id] = q.rec /\ q.old = LinkOf(q.rec)
    /\ q.at = "bump" => q.op \in {"create", "update", "delete"}
    /\ q.at \in {"unptr", "unptrDelete", "unptrBump"} => q.op \in {"update", "delete"}
    /\ q.at \in {"sync", "ensure", "query", "clear", "syncBump"} => q.op \in {"create", "update"}
    /\ q.at # "idle" => zones[q.rec.zone] # None
    /\ q.at \in {"query", "clear", "syncBump", "unptrDelete", "unptrBump"} => zones[q.rev] = Reverse
    /\ q.at \notin {"idle", "dedupe", "insert", "write"} /\ q.op \in {"create", "update"} => HasRow(LinkOf(q.rec))
    /\ q.at \in {"unptrDelete", "unptrBump"} => q.gone = Naming(q.old)
    /\ q.at = "clear" => q.gone = PtrsOf(q.rec.data)

\* A row changed, and the PTR of what it was is still to go.
Pending(q) == q.at \in {"bump", "unptr", "unptrDelete", "unptrBump"} /\ q.op \in {"update", "delete"}

\* The zones a request has changed and not bumped yet.
Due(q) == IF q.at = "bump" THEN {q.rec.zone}
          ELSE IF q.at \in {"clear", "unptrBump", "syncBump"} THEN {q.rev} ELSE {}

\* A PTR goes back to a row, or is the one that q is about to take away.
Backed(q) ==
    \A ip \in Ips : \A r \in PtrsOf(ip) :
        HasOwn(r, ip) \/ (Pending(q) /\ r \in Naming(q.old))

AllBacked == \A ip \in Ips : \A r \in PtrsOf(ip) : HasOwn(r, ip)

\* Nobody but p is at work, and what is not right is what p is about to do.
Alone(p) ==
    /\ \A o \in Procs \ {p} : proc[o].at = "idle"
    /\ Knows(proc[p]) /\ Backed(proc[p]) /\ dirty \subseteq Due(proc[p])

TidyInv == ApiInv /\ IndexExact /\ InZones

AloneInv == TidyInv /\ \E p \in Procs : Alone(p)

StaysAlone(p) == InZones' /\ [StoreStep(FALSE)]_storeVars /\ Alone(p)'

LEMMA IdleKnows == Knows(Idle) /\ ~Pending(Idle) /\ Due(Idle) = {} /\ Idle.at = "idle"
  BY Zenon DEF Knows, Pending, Due, Idle

\* The request goes on and leaves the tables as they are.
LEMMA Onward ==
    ASSUME ApiInv, InZones, NEW p \in Procs, \A o \in Procs \ {p} : proc[o].at = "idle",
           UNCHANGED storeVars, NEW s, Goto(p, s), Knows(s), Backed(s), dirty' \subseteq Due(s)
    PROVE  StaysAlone(p)
<1>1. zones' = zones /\ nameIdx' = nameIdx /\ records' = records
  BY Zenon DEF storeVars
<1>2. InZones' /\ [StoreStep(FALSE)]_storeVars
  BY Zenon, <1>1 DEF InZones, PtrsOf
<1>3. proc'[p] = s /\ \A o \in Procs \ {p} : proc'[o] = proc[o]
  BY Zenon DEF Goto, ApiInv
<1>4. Knows(proc[p])'
  BY Zenon, <1>1, <1>3 DEF Knows, HasRow, Naming, PtrsOf
<1>5. Backed(proc[p])'
  BY Zenon, <1>1, <1>3 DEF Backed, HasOwn, HasRow, Naming, PtrsOf, Pending
<1>6. (dirty \subseteq Due(proc[p]))'
  BY Zenon, <1>3 DEF Due
<1> QED BY Zenon, <1>2, <1>3, <1>4, <1>5, <1>6 DEF StaysAlone, Alone

LEMMA Done ==
    ASSUME ApiInv, InZones, NEW p \in Procs, \A o \in Procs \ {p} : proc[o].at = "idle",
           UNCHANGED storeVars, Goto(p, Idle), AllBacked, dirty' = {}
    PROVE  StaysAlone(p)
  BY Zenon, IdleKnows, Onward DEF Backed, AllBacked

\* An A row comes, changes or goes.
LEMMA RowMoves ==
    ASSUME ApiInv, InZones, NEW r \in Ids, \A s \in Ids \ {r} : records'[s] = records[s],
           records[r] = None \/ records[r].key \in Hosts,
           records'[r] = None \/ (records'[r].key \in Hosts /\ zones[records'[r].zone] # None),
           zones' = zones, nameIdx' = nameIdx
    PROVE  InZones' /\ \A ip \in Ips : PtrsOf(ip)' = PtrsOf(ip) /\ \A s \in PtrsOf(ip) : records'[s] = records[s]
<1>1. \A ip \in Ips : PtrsOf(ip)' = PtrsOf(ip) /\ \A s \in PtrsOf(ip) : s # r
  BY Zenon, ApiAssumption DEF PtrsOf
<1>2. \A ip \in Ips : \A s \in PtrsOf(ip) : s \in Ids /\ records'[s] = records[s]
  BY Zenon, <1>1 DEF PtrsOf
<1> QED BY <1>1, <1>2 DEF InZones

\* A PTR comes or goes: no row of a host does.
LEMMA PtrMoves ==
    ASSUME NEW r \in Ids, \A s \in Ids \ {r} : records'[s] = records[s],
           records[r] = None \/ records[r].key \in Ips, records'[r] = None \/ records'[r].key \in Ips
    PROVE  \A l \in Link : HasRow(l) => HasRow(l)'
<1> SUFFICES ASSUME NEW l \in Link, HasRow(l) PROVE HasRow(l)'
  BY Zenon
<1>1. PICK s \in Ids : records[s] # None /\ LinkOf(records[s]) = l
  BY Zenon DEF HasRow
<1>2. s # r
  BY Zenon, <1>1, ApiAssumption DEF LinkOf, Link
<1> QED BY Zenon, <1>1, <1>2 DEF HasRow

\* What the reverse zone answers for an address is all its PTRs.
LEMMA QueryPtrs ==
    ASSUME TidyInv, NEW z \in ZoneIds, zones[z] = Reverse, NEW ip \in Ips
    PROVE  query_records(z, ip) = PtrsOf(ip)
<1>1. byZone[z][ip] = {r \in Ids : records[r] # None /\ records[r].zone = z /\ records[r].key = ip}
  BY ApiAssumption DEF TidyInv, IndexExact
<1>2. \A r \in PtrsOf(ip) : records[r].enabled /\ records[r].zone = z
  <2> SUFFICES ASSUME NEW r \in PtrsOf(ip) PROVE records[r].enabled /\ records[r].zone = z
    BY Zenon
  <2>1. r \in Ids /\ records[r] # None /\ records[r].enabled /\ zones[records[r].zone] = Reverse
    BY Zenon DEF TidyInv, InZones, PtrsOf
  <2>2. records[r].zone \in ZoneIds /\ Reverse # None
    BY Zenon, <2>1, ApiAssumption, StoreAssumption DEF TidyInv, ApiInv, StoreInv, StoreTypeOK, Record
  <2>3. nameIdx[Reverse] = z /\ nameIdx[Reverse] = records[r].zone
    BY Zenon, <2>1, <2>2 DEF TidyInv, InZones
  <2> QED BY Zenon, <2>1, <2>3
<1> QED BY Zenon, <1>1, <1>2 DEF query_records, PtrsOf

LEMMA AloneFacts ==
    ASSUME TidyInv, NEW p \in Procs, Alone(p)
    PROVE  /\ ApiInv /\ InZones /\ Formed(proc[p]) /\ proc[p] \in Requests /\ Knows(proc[p])
           /\ ~Pending(proc[p]) => AllBacked
           /\ dirty \subseteq Due(proc[p]) /\ \A o \in Procs \ {p} : proc[o].at = "idle"
  BY Zenon DEF TidyInv, ApiInv, Formed, Alone, Backed, AllBacked

\* A step of the request that is at work, put together.
LEMMA Stays ==
    ASSUME TidyInv, NEW p \in Procs, Alone(p), \A o \in Procs \ {p} : proc'[o] = proc[o],
           InZones', [StoreStep(FALSE)]_storeVars,
           Knows(proc[p])', Backed(proc[p])', (dirty \subseteq Due(proc[p]))'
    PROVE  StaysAlone(p)
<1>1. (\A o \in Procs \ {p} : proc[o].at = "idle")'
  BY Zenon DEF Alone
<1> QED BY Zenon, <1>1 DEF StaysAlone, Alone

LEMMA AloneDedupe == ASSUME TidyInv, NEW p \in Procs, Alone(p), dedupe(p) PROVE StaysAlone(p)
<1> DEFINE q == proc[p]
           s == [q EXCEPT !.at = "insert"]
<1>1. q \in Requests /\ q.at = "dedupe" /\ Knows(q) /\ UNCHANGED storeVars /\ dirty' = dirty
  BY Zenon, AloneFacts DEF dedupe, At
<1>2. AllBacked /\ dirty = {} /\ zones[q.rec.zone] # None
  BY Zenon, <1>1, AloneFacts DEF Pending, Due, Knows
<1>3. Goto(p, Idle) \/ Goto(p, s)
  BY Zenon DEF dedupe
<1>4. s.at = "insert" /\ s.rec = q.rec
  BY Zenon, <1>1 DEF Requests
<1> HIDE DEF s
<1>5. Knows(s) /\ Backed(s)
  BY Zenon, <1>2, <1>4 DEF Knows, Backed, AllBacked
<1>6. CASE Goto(p, s)
  BY Zenon, <1>1, <1>2, <1>5, <1>6, AloneFacts, Onward
<1>7. CASE Goto(p, Idle)
  BY Zenon, <1>1, <1>2, <1>7, AloneFacts, Done
<1> QED BY Zenon, <1>3, <1>6, <1>7

LEMMA AloneInsert == ASSUME TidyInv, NEW p \in Procs, Alone(p), insert(p) PROVE StaysAlone(p)
<1> DEFINE q == proc[p]
           s == [q EXCEPT !.at = "bump"]
<1>1. q \in Requests /\ q.at = "insert" /\ Knows(q) /\ dirty' = dirty \cup {q.rec.zone} /\ Goto(p, s)
  BY Zenon, AloneFacts DEF insert, At
<1>2. AllBacked /\ dirty = {} /\ zones[q.rec.zone] # None
  BY Zenon, <1>1, AloneFacts DEF Pending, Due, Knows
<1>3. IsA(q.rec) /\ q.rec \in Record /\ q.op = "create" /\ q.rec # None
  BY Zenon, <1>1, AloneFacts, StoreAssumption DEF Formed, IsA
<1>4. PICK r \in FreshIds : create_record(r, q.rec)
  BY Zenon DEF insert
<1>5. r \in Ids /\ FreshId(r) /\ records[r] = None
  BY Zenon DEF FreshIds, FreshId
<1>6. [StoreStep(FALSE)]_storeVars
  BY Zenon, <1>3, <1>4, <1>5 DEF StoreStep
<1>7. /\ zones' = zones /\ nameIdx' = nameIdx /\ records'[r] = q.rec
      /\ \A t \in Ids \ {r} : records'[t] = records[t]
  BY Zenon, <1>4, <1>5 DEF create_record, TidyInv, ApiInv, StoreInv, StoreTypeOK
<1>8. InZones' /\ \A ip \in Ips : PtrsOf(ip)' = PtrsOf(ip) /\ \A t \in PtrsOf(ip) : records'[t] = records[t]
  BY Zenon, <1>2, <1>3, <1>5, <1>7, AloneFacts, RowMoves DEF IsA
<1>9. s.at = "bump" /\ s.rec = q.rec /\ s.op = "create"
  BY Zenon, <1>1, <1>3 DEF Requests
<1> HIDE DEF s
<1>10. proc'[p] = s /\ \A o \in Procs \ {p} : proc'[o] = proc[o]
  BY Zenon, <1>1, AloneFacts DEF Goto, ApiInv
<1>11. \A l : HasRow(l) => HasRow(l)'
  BY Zenon, <1>5, <1>7 DEF HasRow
<1>12. HasRow(LinkOf(q.rec))'
  <2>1. \E t \in Ids : records'[t] # None /\ LinkOf(records'[t]) = LinkOf(q.rec)
    BY Zenon, <1>3, <1>5, <1>7
  <2> QED BY Zenon, <1>9, <1>10, <2>1 DEF HasRow, LinkOf
<1>13. Knows(proc[p])'
  BY Zenon, <1>2, <1>7, <1>9, <1>10, <1>12 DEF Knows
<1>14. Backed(proc[p])'
  BY Zenon, <1>2, <1>8, <1>11 DEF Backed, AllBacked, HasOwn
<1>15. (dirty \subseteq Due(proc[p]))'
  BY Zenon, <1>1, <1>2, <1>9, <1>10 DEF Due
<1> QED BY Zenon, <1>6, <1>8, <1>10, <1>13, <1>14, <1>15, Stays

\* A row of link l changes or goes: only PTRs of l can lose their row.
LEMMA LinkMoves ==
    ASSUME AllBacked, NEW r \in Ids, \A s \in Ids \ {r} : records'[s] = records[s],
           \A ip \in Ips : PtrsOf(ip)' = PtrsOf(ip) /\ \A s \in PtrsOf(ip) : records'[s] = records[s]
    PROVE  \A ip \in Ips : \A s \in PtrsOf(ip)' :
              \/ HasOwn(s, ip)'
              \/ records'[s].data = LinkOf(records[r]).host /\ ip = LinkOf(records[r]).ip
<1> SUFFICES ASSUME NEW ip \in Ips, NEW s \in PtrsOf(ip)
             PROVE  \/ HasOwn(s, ip)'
                    \/ records'[s].data = LinkOf(records[r]).host /\ ip = LinkOf(records[r]).ip
  BY Zenon
<1>1. records'[s] = records[s]
  BY Zenon
<1>2. PICK t \in Ids : records[t] # None /\ LinkOf(records[t]) = [host |-> records[s].data, ip |-> ip]
  BY Zenon DEF AllBacked, HasOwn, HasRow
<1>3. CASE t = r
  BY <1>1, <1>2, <1>3
<1>4. CASE t # r
  <2>1. records'[t] # None /\ LinkOf(records'[t]) = [host |-> records'[s].data, ip |-> ip]
    BY Zenon, <1>1, <1>2, <1>4
  <2> QED BY Zenon, <2>1 DEF HasOwn, HasRow, LinkOf
<1> QED BY Zenon, <1>3, <1>4

LEMMA AloneWrite == ASSUME TidyInv, NEW p \in Procs, Alone(p), write(p) PROVE StaysAlone(p)
<1> DEFINE q == proc[p]
           s == [q EXCEPT !.at = "bump"]
           r == q.id
<1>1. q \in Requests /\ q.at = "write" /\ Knows(q)
  BY Zenon, AloneFacts DEF write, At
<1>2. AllBacked /\ dirty = {} /\ zones[q.rec.zone] # None
  BY Zenon, <1>1, AloneFacts DEF Pending, Due, Knows
<1>3. /\ q.op = "update" /\ records[r] # None /\ q.rec.key = records[r].key /\ q.old = LinkOf(records[r])
      /\ records[r].zone = q.rec.zone /\ r \in Ids /\ IsA(q.rec) /\ q.rec \in Record
  BY Zenon, <1>1, AloneFacts DEF Knows, Formed, IsA, ApiInv, SameZone
<1>4. update_record(r, q.rec) /\ dirty' = dirty \cup {q.rec.zone} /\ Goto(p, s)
  BY Zenon, <1>3 DEF write
<1>5. [StoreStep(FALSE)]_storeVars
  BY Zenon, <1>3, <1>4 DEF StoreStep
<1>6. /\ zones' = zones /\ nameIdx' = nameIdx /\ records'[r] = q.rec
      /\ \A t \in Ids \ {r} : records'[t] = records[t]
  BY Zenon, <1>3, <1>4 DEF update_record, TidyInv, ApiInv, StoreInv, StoreTypeOK
<1>7. InZones' /\ \A ip \in Ips : PtrsOf(ip)' = PtrsOf(ip) /\ \A t \in PtrsOf(ip) : records'[t] = records[t]
  BY Zenon, <1>2, <1>3, <1>6, AloneFacts, RowMoves DEF IsA
<1>8. s.at = "bump" /\ s.rec = q.rec /\ s.op = "update" /\ s.old = q.old
  BY Zenon, <1>1, <1>3 DEF Requests
<1>9. proc'[p] = s /\ \A o \in Procs \ {p} : proc'[o] = proc[o]
  BY Zenon, <1>4, AloneFacts DEF Goto, ApiInv
<1> HIDE DEF s
<1>10. \A ip \in Ips : \A t \in PtrsOf(ip)' :
          HasOwn(t, ip)' \/ (records'[t].data = q.old.host /\ ip = q.old.ip)
  <2>1. \A ip \in Ips : \A t \in PtrsOf(ip)' :
           HasOwn(t, ip)' \/ (records'[t].data = LinkOf(records[r]).host /\ ip = LinkOf(records[r]).ip)
    BY Zenon, <1>2, <1>3, <1>6, <1>7, LinkMoves
  <2>2. q.old = LinkOf(records[r])
    BY Zenon, <1>3
  <2> QED BY Zenon, <2>1, <2>2
<1>11. Backed(proc[p])'
  BY Zenon, <1>8, <1>9, <1>10 DEF Backed, Pending, Naming
<1>12. HasRow(LinkOf(proc[p].rec))'
  <2>1. \E t \in Ids : records'[t] # None /\ LinkOf(records'[t]) = LinkOf(s.rec)
    BY Zenon, <1>3, <1>6, <1>8, StoreAssumption
  <2> QED BY Zenon, <1>9, <2>1 DEF HasRow, LinkOf
<1>13. Knows(proc[p])'
  BY Zenon, <1>2, <1>6, <1>8, <1>9, <1>12 DEF Knows
<1>14. (dirty \subseteq Due(proc[p]))'
  BY Zenon, <1>2, <1>4, <1>8, <1>9 DEF Due
<1> QED BY Zenon, <1>5, <1>7, <1>9, <1>11, <1>13, <1>14, Stays

LEMMA AloneRemove == ASSUME TidyInv, NEW p \in Procs, Alone(p), remove(p) PROVE StaysAlone(p)
<1> DEFINE q == proc[p]
           s == [q EXCEPT !.at = "bump"]
           r == q.id
<1>1. q \in Requests /\ q.at = "remove" /\ Knows(q)
  BY Zenon, AloneFacts DEF remove, At
<1>2. AllBacked /\ dirty = {} /\ zones[q.rec.zone] # None
  BY Zenon, <1>1, AloneFacts DEF Pending, Due, Knows
<1>3. q.op = "delete" /\ records[r] = q.rec /\ q.old = LinkOf(records[r]) /\ r \in Ids /\ IsA(q.rec) /\ q.rec # None
  BY Zenon, <1>1, AloneFacts, StoreAssumption DEF Knows, Formed, IsA
<1>4. delete_record(r) /\ dirty' = dirty \cup {q.rec.zone} /\ Goto(p, s)
  BY Zenon, <1>3 DEF remove
<1>5. [StoreStep(FALSE)]_storeVars
  BY Zenon, <1>3, <1>4 DEF StoreStep
<1>6. /\ zones' = zones /\ nameIdx' = nameIdx /\ records'[r] = None
      /\ \A t \in Ids \ {r} : records'[t] = records[t]
  BY Zenon, <1>3, <1>4 DEF delete_record, TidyInv, ApiInv, StoreInv, StoreTypeOK
<1>7. InZones' /\ \A ip \in Ips : PtrsOf(ip)' = PtrsOf(ip) /\ \A t \in PtrsOf(ip) : records'[t] = records[t]
  BY Zenon, <1>3, <1>6, AloneFacts, RowMoves DEF IsA
<1>8. s.at = "bump" /\ s.rec = q.rec /\ s.op = "delete" /\ s.old = q.old
  BY Zenon, <1>1, <1>3 DEF Requests
<1>9. proc'[p] = s /\ \A o \in Procs \ {p} : proc'[o] = proc[o]
  BY Zenon, <1>4, AloneFacts DEF Goto, ApiInv
<1> HIDE DEF s
<1>10. \A ip \in Ips : \A t \in PtrsOf(ip)' :
          HasOwn(t, ip)' \/ (records'[t].data = q.old.host /\ ip = q.old.ip)
  <2>1. \A ip \in Ips : \A t \in PtrsOf(ip)' :
           HasOwn(t, ip)' \/ (records'[t].data = LinkOf(records[r]).host /\ ip = LinkOf(records[r]).ip)
    BY Zenon, <1>2, <1>3, <1>6, <1>7, LinkMoves
  <2>2. q.old = LinkOf(records[r])
    BY Zenon, <1>3
  <2> QED BY Zenon, <2>1, <2>2
<1>11. Backed(proc[p])'
  BY Zenon, <1>8, <1>9, <1>10 DEF Backed, Pending, Naming
<1>12. Knows(proc[p])'
  BY Zenon, <1>2, <1>6, <1>8, <1>9 DEF Knows
<1>13. (dirty \subseteq Due(proc[p]))'
  BY Zenon, <1>2, <1>4, <1>8, <1>9 DEF Due
<1> QED BY Zenon, <1>5, <1>7, <1>9, <1>11, <1>12, <1>13, Stays

LEMMA AloneBump == ASSUME TidyInv, NEW p \in Procs, Alone(p), bump(p) PROVE StaysAlone(p)
<1> DEFINE q == proc[p]
<1>1. q \in Requests /\ q.at = "bump" /\ Knows(q) /\ Backed(q) /\ UNCHANGED storeVars
  BY Zenon, AloneFacts DEF bump, At, Alone
<1>2. /\ q.op \in {"create", "update", "delete"} /\ zones[q.rec.zone] # None
      /\ q.op \in {"create", "update"} => HasRow(LinkOf(q.rec))
  BY Zenon, <1>1 DEF Knows
<1>3. dirty' = {}
  BY Zenon, <1>1, <1>2, AloneFacts DEF Due, bump, increment_soa_serial
<1>4. \/ q.op = "create" /\ Goto(p, [q EXCEPT !.at = "sync"])
      \/ q.op \in {"update", "delete"} /\ Goto(p, [q EXCEPT !.at = "unptr"])
      \/ q.op = "update" /\ q.old = LinkOf(q.rec) /\ Goto(p, Idle)
  BY Zenon, <1>2 DEF bump
<1>5. CASE q.op = "create" /\ Goto(p, [q EXCEPT !.at = "sync"])
  <2> DEFINE s == [q EXCEPT !.at = "sync"]
  <2>1. s.at = "sync" /\ s.op = q.op /\ s.rec = q.rec /\ Goto(p, s)
    BY Zenon, <1>1, <1>5 DEF Requests
  <2> HIDE DEF s
  <2>2. AllBacked
    BY Zenon, <1>5, AloneFacts DEF Pending
  <2>3. Knows(s) /\ Backed(s)
    BY Zenon, <1>2, <1>5, <2>1, <2>2 DEF Knows, Backed, AllBacked
  <2> QED BY Zenon, <1>1, <1>3, <2>1, <2>3, AloneFacts, Onward
<1>6. CASE q.op \in {"update", "delete"} /\ Goto(p, [q EXCEPT !.at = "unptr"])
  <2> DEFINE s == [q EXCEPT !.at = "unptr"]
  <2>1. s.at = "unptr" /\ s.op = q.op /\ s.rec = q.rec /\ s.old = q.old /\ Goto(p, s)
    BY Zenon, <1>1, <1>6 DEF Requests
  <2> HIDE DEF s
  <2>2. Knows(s) /\ Backed(s)
    BY Zenon, <1>1, <1>2, <1>6, <2>1 DEF Knows, Backed, Pending
  <2> QED BY Zenon, <1>1, <1>3, <2>1, <2>2, AloneFacts, Onward
<1>7. CASE q.op = "update" /\ q.old = LinkOf(q.rec) /\ Goto(p, Idle)
  <2>1. ASSUME NEW ip \in Ips, NEW r \in PtrsOf(ip), r \in Naming(q.old) PROVE HasOwn(r, ip)
    <3>1. ip = q.rec.data /\ records[r].data = q.rec.key
      BY <1>7, <2>1 DEF Naming, PtrsOf, LinkOf
    <3> QED BY Zenon, <1>2, <1>7, <3>1 DEF HasOwn, LinkOf
  <2>2. AllBacked
    BY Zenon, <1>1, <2>1 DEF Backed, AllBacked
  <2> QED BY Zenon, <1>1, <1>3, <1>7, <2>2, AloneFacts, Done
<1> QED BY Zenon, <1>4, <1>5, <1>6, <1>7

\* The old PTR is gone: an update goes on, a delete is over.
LEMMA AloneAfterUnptr ==
    ASSUME TidyInv, NEW p \in Procs, Alone(p), proc[p].at \in {"unptr", "unptrDelete"},
           Goto(p, AfterUnptr(proc[p])), UNCHANGED storeVars, dirty' = dirty, AllBacked
    PROVE  StaysAlone(p)
<1> DEFINE q == proc[p]
<1>1. q \in Requests /\ Knows(q)
  BY Zenon, AloneFacts
<1>2. /\ q.op \in {"update", "delete"} /\ zones[q.rec.zone] # None /\ dirty' = {}
      /\ q.op = "update" => HasRow(LinkOf(q.rec))
  BY Zenon, <1>1, AloneFacts DEF Knows, Due
<1>3. CASE q.op = "update"
  <2> DEFINE s == [q EXCEPT !.at = "sync", !.rev = None, !.todo = {}]
  <2>1. s.at = "sync" /\ s.op = q.op /\ s.rec = q.rec /\ Goto(p, s)
    BY Zenon, <1>1, <1>3 DEF Requests, AfterUnptr
  <2> HIDE DEF s
  <2>2. Knows(s) /\ Backed(s)
    BY Zenon, <1>2, <1>3, <2>1 DEF Knows, Backed, AllBacked
  <2> QED BY Zenon, <1>2, <2>1, <2>2, AloneFacts, Onward
<1>4. CASE q.op = "delete"
  <2>1. Goto(p, Idle)
    BY Zenon, <1>4 DEF AfterUnptr
  <2> QED BY Zenon, <1>2, <2>1, AloneFacts, Done
<1> QED BY Zenon, <1>2, <1>3, <1>4

LEMMA AloneUnptr == ASSUME TidyInv, NEW p \in Procs, Alone(p), unptr(p) PROVE StaysAlone(p)
<1> DEFINE q == proc[p]
           z == nameIdx[Reverse]
<1>1. q \in Requests /\ q.at = "unptr" /\ Knows(q) /\ Backed(q) /\ UNCHANGED storeVars /\ dirty' = dirty
  BY Zenon, AloneFacts DEF unptr, At, Alone
<1>2. /\ q.op \in {"update", "delete"} /\ zones[q.rec.zone] # None /\ dirty' = {}
      /\ q.op = "update" => HasRow(LinkOf(q.rec))
  BY Zenon, <1>1, AloneFacts DEF Knows, Due
<1>3. CASE z = None
  <2>1. \A ip \in Ips : PtrsOf(ip) = {}
    <3> SUFFICES ASSUME NEW ip \in Ips, NEW r \in PtrsOf(ip) PROVE FALSE
      BY Zenon
    <3>1. r \in Ids /\ records[r] # None /\ zones[records[r].zone] = Reverse
      BY Zenon DEF TidyInv, InZones, PtrsOf
    <3>2. records[r].zone \in ZoneIds /\ Reverse # None /\ None \notin ZoneIds
      BY Zenon, <3>1, ApiAssumption, StoreAssumption DEF TidyInv, ApiInv, StoreInv, StoreTypeOK, Record
    <3> QED BY Zenon, <1>3, <3>1, <3>2 DEF TidyInv, InZones
  <2>2. AllBacked /\ Goto(p, AfterUnptr(q))
    BY Zenon, <1>3, <2>1 DEF AllBacked, unptr
  <2> QED BY Zenon, <1>1, <2>2, AloneAfterUnptr
<1>4. CASE z # None
  <2> DEFINE s == [q EXCEPT !.at = "unptrDelete", !.rev = z,
                            !.gone = {r \in query_records(z, q.old.ip) : records[r].data = q.old.host}]
  <2>1. Goto(p, s)
    BY Zenon, <1>4 DEF unptr
  <2>2. z \in ZoneIds /\ zones[z] = Reverse /\ q.old \in Link
    BY Zenon, <1>1, <1>4, ApiAssumption, AloneFacts DEF ApiInv, StoreInv, StoreTypeOK, NameIndexSound, Formed
  <2>3. q.old.ip \in Ips
    BY Zenon, <2>2 DEF Link
  <2>4. {r \in query_records(z, q.old.ip) : records[r].data = q.old.host} = Naming(q.old)
    BY Zenon, <2>2, <2>3, QueryPtrs DEF Naming
  <2>5. s.at = "unptrDelete" /\ s.op = q.op /\ s.rec = q.rec /\ s.old = q.old /\ s.rev = z /\ s.gone = Naming(q.old)
    BY Zenon, <1>1, <2>4 DEF Requests
  <2> HIDE DEF s
  <2>6. Knows(s)
    BY Zenon, <1>2, <2>2, <2>5 DEF Knows
  <2>7. Backed(s)
    BY Zenon, <1>1, <1>2, <2>5 DEF Backed, Pending
  <2> QED BY Zenon, <1>1, <1>2, <2>1, <2>6, <2>7, AloneFacts, Onward
<1> QED BY Zenon, <1>3, <1>4

LEMMA AloneUnptrBump == ASSUME TidyInv, NEW p \in Procs, Alone(p), unptrBump(p) PROVE StaysAlone(p)
<1> DEFINE q == proc[p]
           s == [q EXCEPT !.at = "unptrDelete"]
<1>1. q \in Requests /\ q.at = "unptrBump" /\ Knows(q) /\ Backed(q) /\ UNCHANGED storeVars
  BY Zenon, AloneFacts DEF unptrBump, At, Alone
<1>2. /\ q.op \in {"update", "delete"} /\ zones[q.rec.zone] # None /\ zones[q.rev] = Reverse
      /\ q.gone = Naming(q.old) /\ Reverse # None
      /\ q.op = "update" => HasRow(LinkOf(q.rec))
  BY Zenon, <1>1, ApiAssumption, StoreAssumption DEF Knows
<1>3. dirty' = {} /\ Goto(p, s)
  BY Zenon, <1>1, <1>2, AloneFacts DEF Due, unptrBump, increment_soa_serial
<1>4. s.at = "unptrDelete" /\ s.op = q.op /\ s.rec = q.rec /\ s.old = q.old /\ s.rev = q.rev /\ s.gone = q.gone
  BY Zenon, <1>1 DEF Requests
<1> HIDE DEF s
<1>5. Knows(s) /\ Backed(s)
  BY Zenon, <1>1, <1>2, <1>4 DEF Knows, Backed, Pending
<1> QED BY Zenon, <1>1, <1>3, <1>5, AloneFacts, Onward

\* A PTR goes back to a pair of a host and an address.
LEMMA PtrLinks ==
    ASSUME ApiInv, NEW ip \in Ips, NEW r \in PtrsOf(ip)
    PROVE  r \in Ids /\ records[r] # None /\ records[r].key = ip /\ [host |-> records[r].data, ip |-> ip] \in Link
  BY Zenon, ApiAssumption DEF ApiInv, PtrsOf, IsPair, IsA, Link

LEMMA PtrGoes ==
    ASSUME TidyInv, NEW i \in Ips, NEW r \in PtrsOf(i), delete_record(r)
    PROVE  /\ InZones' /\ [StoreStep(FALSE)]_storeVars /\ zones' = zones
           /\ \A ip \in Ips : PtrsOf(ip)' = PtrsOf(ip) \ {r}
           /\ \A ip \in Ips : \A t \in PtrsOf(ip) \ {r} : records'[t] = records[t] /\ (HasOwn(t, ip) => HasOwn(t, ip)')
           /\ \A l \in Link : HasRow(l) => HasRow(l)'
<1>1. ApiInv /\ InZones /\ r \in Ids /\ records[r] # None /\ records[r].key \in Ips
  BY Zenon, PtrLinks DEF TidyInv
<1>2. /\ zones' = zones /\ nameIdx' = nameIdx /\ records'[r] = None
      /\ \A t \in Ids \ {r} : records'[t] = records[t]
  BY Zenon, <1>1 DEF delete_record, ApiInv, StoreInv, StoreTypeOK
<1>3. [StoreStep(FALSE)]_storeVars
  BY Zenon, <1>1 DEF StoreStep
<1>4. \A ip \in Ips : PtrsOf(ip)' = PtrsOf(ip) \ {r}
  BY Zenon, <1>2 DEF PtrsOf
<1>5. \A l \in Link : HasRow(l) => HasRow(l)'
  BY Zenon, <1>1, <1>2, PtrMoves
<1>6. \A ip \in Ips : \A t \in PtrsOf(ip) \ {r} : t \in Ids /\ records'[t] = records[t]
  BY Zenon, <1>2 DEF PtrsOf
<1>7. \A ip \in Ips : \A t \in PtrsOf(ip) \ {r} : HasOwn(t, ip) => HasOwn(t, ip)'
  BY <1>1, <1>5, <1>6, PtrLinks DEF HasOwn
<1>8. InZones'
  BY <1>1, <1>2, <1>4, <1>6 DEF InZones
<1> QED BY Zenon, <1>2, <1>3, <1>4, <1>5, <1>6, <1>7, <1>8

LEMMA AloneUnptrDelete == ASSUME TidyInv, NEW p \in Procs, Alone(p), unptrDelete(p) PROVE StaysAlone(p)
<1> DEFINE q == proc[p]
<1>1. q \in Requests /\ q.at = "unptrDelete" /\ Knows(q) /\ Backed(q) /\ q.old \in Link
  BY Zenon, AloneFacts DEF unptrDelete, At, Alone, Formed
<1>2. /\ q.op \in {"update", "delete"} /\ zones[q.rec.zone] # None /\ zones[q.rev] = Reverse
      /\ q.gone = Naming(q.old) /\ dirty = {}
      /\ q.op = "update" => HasRow(LinkOf(q.rec))
  BY Zenon, <1>1, AloneFacts DEF Knows, Due
<1>3. CASE q.gone = {}
  <2>1. Goto(p, AfterUnptr(q)) /\ UNCHANGED storeVars /\ dirty' = dirty
    BY Zenon, <1>3 DEF unptrDelete
  <2>2. AllBacked
    BY Zenon, <1>1, <1>2, <1>3 DEF Backed, AllBacked
  <2> QED BY Zenon, <1>1, <2>1, <2>2, AloneAfterUnptr
<1>4. CASE q.gone # {}
  <2>1. \A r \in q.gone : r \in PtrsOf(q.old.ip) /\ records[r] # None
    BY Zenon, <1>2 DEF Naming, PtrsOf
  <2>2. PICK r \in q.gone : /\ delete_record(r) /\ dirty' = dirty \cup {q.rev}
                            /\ Goto(p, [q EXCEPT !.at = "unptrBump", !.gone = @ \ {r}])
    BY Zenon, <1>4, <2>1 DEF unptrDelete
  <2> DEFINE s == [q EXCEPT !.at = "unptrBump", !.gone = @ \ {r}]
  <2>3. q.old.ip \in Ips /\ r \in PtrsOf(q.old.ip) /\ IsA(q.rec) /\ LinkOf(q.rec) \in Link
    BY Zenon, <1>1, <1>2, <2>1, AloneFacts DEF Link, Formed, IsA, LinkOf
  <2>4. /\ InZones' /\ [StoreStep(FALSE)]_storeVars /\ zones' = zones
        /\ \A ip \in Ips : PtrsOf(ip)' = PtrsOf(ip) \ {r}
        /\ \A ip \in Ips : \A t \in PtrsOf(ip) \ {r} : records'[t] = records[t] /\ (HasOwn(t, ip) => HasOwn(t, ip)')
        /\ \A l \in Link : HasRow(l) => HasRow(l)'
    BY Zenon, <2>2, <2>3, PtrGoes
  <2>5. proc'[p] = s /\ \A o \in Procs \ {p} : proc'[o] = proc[o]
    BY Zenon, <2>2, AloneFacts DEF Goto, ApiInv
  <2>6. /\ s.at = "unptrBump" /\ s.op = q.op /\ s.rec = q.rec /\ s.old = q.old /\ s.rev = q.rev
        /\ s.gone = Naming(q.old) \ {r}
    BY Zenon, <1>1, <1>2 DEF Requests
  <2> HIDE DEF s
  <2>7. Naming(proc[p].old)' = Naming(q.old) \ {r}
    BY <2>3, <2>4, <2>5, <2>6 DEF Naming
  <2>8. Backed(proc[p])'
    BY Zenon, <1>1, <1>2, <2>4, <2>5, <2>6, <2>7 DEF Backed, Pending
  <2>9. q.op = "update" => HasRow(LinkOf(proc[p].rec))'
    <3>1. ASSUME NEW l \in Link, HasRow(l), l = LinkOf(proc'[p].rec) PROVE HasRow(LinkOf(proc[p].rec))'
      BY Zenon, <2>4, <3>1 DEF HasRow, LinkOf
    <3> QED BY Zenon, <1>2, <2>3, <2>5, <2>6, <3>1
  <2>10. Knows(proc[p])'
    BY Zenon, <1>2, <2>4, <2>5, <2>6, <2>7, <2>9 DEF Knows
  <2>11. (dirty \subseteq Due(proc[p]))'
    BY Zenon, <1>2, <2>2, <2>5, <2>6 DEF Due
  <2> QED BY Zenon, <2>4, <2>5, <2>8, <2>10, <2>11, Stays
<1> QED BY Zenon, <1>3, <1>4

\* What is known while the PTR of a record is brought up to date.
LEMMA AloneSyncing ==
    ASSUME TidyInv, NEW p \in Procs, Alone(p), proc[p].at \in {"sync", "ensure", "query", "clear", "syncBump"}
    PROVE  /\ proc[p] \in Requests /\ proc[p].op \in {"create", "update"} /\ zones[proc[p].rec.zone] # None
           /\ HasRow(LinkOf(proc[p].rec)) /\ IsA(proc[p].rec) /\ AllBacked
           /\ proc[p].at \in {"sync", "ensure", "query"} => dirty = {}
           /\ AfterSync(proc[p]) = Idle
  BY Zenon, AloneFacts DEF Knows, Formed, Due, AfterSync, Pending

LEMMA AloneSync == ASSUME TidyInv, NEW p \in Procs, Alone(p), sync(p) PROVE StaysAlone(p)
<1> DEFINE q == proc[p]
           z == nameIdx[Reverse]
           s == [q EXCEPT !.at = IF z = None THEN "ensure" ELSE "query", !.rev = z]
<1>1. q.at = "sync" /\ UNCHANGED storeVars /\ dirty' = dirty /\ Goto(p, s)
  BY Zenon DEF sync, At
<1>2. /\ q \in Requests /\ q.op \in {"create", "update"} /\ zones[q.rec.zone] # None
      /\ HasRow(LinkOf(q.rec)) /\ AllBacked /\ dirty = {}
  BY Zenon, <1>1, AloneSyncing
<1>3. z # None => zones[z] = Reverse
  BY Zenon, ApiAssumption, AloneFacts DEF ApiInv, StoreInv, NameIndexSound
<1>4. s.at = (IF z = None THEN "ensure" ELSE "query") /\ s.op = q.op /\ s.rec = q.rec /\ s.rev = z
  BY Zenon, <1>2 DEF Requests
<1> HIDE DEF s
<1>5. Knows(s) /\ Backed(s)
  BY Zenon, <1>2, <1>3, <1>4 DEF Knows, Backed, AllBacked
<1> QED BY Zenon, <1>1, <1>2, <1>5, AloneFacts, Onward

\* A zone comes.
LEMMA ZoneComes ==
    ASSUME TidyInv, NEW z \in FreshZones, NEW n \in ZoneNames, create_zone(z, n)
    PROVE  /\ InZones' /\ [StoreStep(FALSE)]_storeVars /\ records' = records
           /\ zones'[z] = n /\ \A y \in ZoneIds : zones[y] # None => zones'[y] = zones[y]
<1>1. z \in ZoneIds /\ FreshZone(z) /\ zones[z] = None
  BY Zenon DEF FreshZones, FreshZone
<1>2. /\ nameIdx[n] = None /\ zones' = [zones EXCEPT ![z] = n] /\ nameIdx' = [nameIdx EXCEPT ![n] = z]
      /\ records' = records
  BY Zenon DEF create_zone
<1>3. [StoreStep(FALSE)]_storeVars
  BY Zenon, <1>1 DEF StoreStep
<1>4. StoreTypeOK /\ None \notin ZoneIds /\ None \notin ZoneNames
  BY Zenon, StoreAssumption DEF TidyInv, ApiInv, StoreInv
<1>5. zones'[z] = n /\ \A y \in ZoneIds \ {z} : zones'[y] = zones[y]
  BY Zenon, <1>1, <1>2, <1>4 DEF StoreTypeOK
<1>6. \A y \in ZoneIds : zones'[y] # None => nameIdx'[zones'[y]] = y
  BY <1>1, <1>2, <1>4, <1>5 DEF StoreTypeOK, TidyInv, InZones
<1>7. \A r \in Ids : records[r] # None =>
         /\ records[r].zone \in ZoneIds /\ zones[records[r].zone] # None
         /\ zones'[records[r].zone] = zones[records[r].zone]
  BY <1>1, <1>4, <1>5 DEF StoreTypeOK, Record, TidyInv, InZones
<1>8. \A ip \in Ips : PtrsOf(ip)' = PtrsOf(ip) /\ \A r \in PtrsOf(ip) : r \in Ids /\ records[r] # None
  BY Zenon, <1>2 DEF PtrsOf
<1>9. InZones'
  <2>1. \A ip \in Ips : \A r \in PtrsOf(ip) : records[r].enabled /\ zones[records[r].zone] = Reverse
    BY Zenon DEF TidyInv, InZones
  <2>2. \A ip \in Ips : \A r, s \in PtrsOf(ip) : r = s
    BY Zenon DEF TidyInv, InZones
  <2>3. \A r \in Ids : records'[r] # None => zones'[records'[r].zone] # None
    BY Zenon, <1>2, <1>7
  <2>4. \A ip \in Ips : \A r \in PtrsOf(ip)' : records'[r].enabled /\ zones'[records'[r].zone] = Reverse
    BY Zenon, <1>2, <1>7, <1>8, <2>1
  <2>5. \A ip \in Ips : \A r, s \in PtrsOf(ip)' : r = s
    BY Zenon, <1>8, <2>2
  <2> QED BY Zenon, <1>6, <2>3, <2>4, <2>5 DEF InZones
<1> QED BY Zenon, <1>1, <1>2, <1>3, <1>5, <1>9

LEMMA AloneEnsure == ASSUME TidyInv, NEW p \in Procs, Alone(p), ensure(p) PROVE StaysAlone(p)
<1> DEFINE q == proc[p]
<1>1. q.at = "ensure" /\ dirty' = dirty
  BY Zenon DEF ensure, At
<1>2. /\ q \in Requests /\ q.op \in {"create", "update"} /\ zones[q.rec.zone] # None
      /\ HasRow(LinkOf(q.rec)) /\ AllBacked /\ dirty = {} /\ AfterSync(q) = Idle /\ q.rec.zone \in ZoneIds
  BY Zenon, <1>1, AloneSyncing DEF IsA, Record
<1>3. CASE nameIdx[Reverse] # None
  <2>1. Goto(p, Idle) /\ UNCHANGED storeVars
    BY Zenon, <1>2, <1>3 DEF ensure
  <2> QED BY Zenon, <1>1, <1>2, <2>1, AloneFacts, Done
<1>4. CASE nameIdx[Reverse] = None
  <2>1. PICK z \in FreshZones : create_zone(z, Reverse) /\ Goto(p, [q EXCEPT !.at = "query", !.rev = z])
    BY Zenon, <1>4 DEF ensure
  <2> DEFINE s == [q EXCEPT !.at = "query", !.rev = z]
  <2>2. /\ InZones' /\ [StoreStep(FALSE)]_storeVars /\ records' = records
        /\ zones'[z] = Reverse /\ \A y \in ZoneIds : zones[y] # None => zones'[y] = zones[y]
    BY Zenon, <2>1, ZoneComes, ApiAssumption
  <2>3. proc'[p] = s /\ \A o \in Procs \ {p} : proc'[o] = proc[o]
    BY Zenon, <2>1, AloneFacts DEF Goto, ApiInv
  <2>4. s.at = "query" /\ s.op = q.op /\ s.rec = q.rec /\ s.rev = z
    BY Zenon, <1>2 DEF Requests
  <2> HIDE DEF s
  <2>5. HasRow(LinkOf(proc[p].rec))'
    BY Zenon, <1>2, <2>2, <2>3, <2>4 DEF HasRow, LinkOf
  <2>6. Knows(proc[p])'
    BY Zenon, <1>2, <2>2, <2>3, <2>4, <2>5 DEF Knows
  <2>7. Backed(proc[p])'
    BY Zenon, <1>2, <2>2 DEF Backed, AllBacked, HasOwn, HasRow, PtrsOf
  <2> QED BY Zenon, <1>1, <1>2, <2>2, <2>3, <2>6, <2>7, AloneFacts DEF StaysAlone, Alone
<1> QED BY Zenon, <1>3, <1>4

LEMMA AloneQuery == ASSUME TidyInv, NEW p \in Procs, Alone(p), query(p) PROVE StaysAlone(p)
<1> DEFINE q == proc[p]
           existing == query_records(q.rev, q.rec.data)
           s == [q EXCEPT !.at = "clear", !.gone = existing]
<1>1. q.at = "query" /\ UNCHANGED storeVars /\ dirty' = dirty
  BY Zenon DEF query, At
<1>2. /\ q \in Requests /\ q.op \in {"create", "update"} /\ zones[q.rec.zone] # None
      /\ HasRow(LinkOf(q.rec)) /\ AllBacked /\ dirty = {} /\ AfterSync(q) = Idle /\ q.rec.data \in Ips
  BY Zenon, <1>1, AloneSyncing DEF IsA
<1>3. q.rev \in ZoneIds /\ zones[q.rev] = Reverse
  BY Zenon, <1>1, AloneFacts DEF Formed, Knows
<1>4. existing = PtrsOf(q.rec.data)
  BY Zenon, <1>2, <1>3, QueryPtrs
<1>5. Goto(p, Idle) \/ Goto(p, s)
  BY Zenon, <1>2 DEF query
<1>6. s.at = "clear" /\ s.op = q.op /\ s.rec = q.rec /\ s.rev = q.rev /\ s.gone = PtrsOf(q.rec.data)
  BY Zenon, <1>2, <1>4 DEF Requests
<1> HIDE DEF s
<1>7. Knows(s) /\ Backed(s)
  BY Zenon, <1>2, <1>3, <1>6 DEF Knows, Backed, AllBacked
<1>8. CASE Goto(p, s)
  BY Zenon, <1>1, <1>2, <1>7, <1>8, AloneFacts, Onward
<1>9. CASE Goto(p, Idle)
  BY Zenon, <1>1, <1>2, <1>9, AloneFacts, Done
<1> QED BY Zenon, <1>5, <1>8, <1>9

LEMMA AloneSyncBump == ASSUME TidyInv, NEW p \in Procs, Alone(p), syncBump(p) PROVE StaysAlone(p)
<1>1. proc[p].at = "syncBump" /\ UNCHANGED storeVars
  BY Zenon DEF syncBump, At
<1>2. zones[proc[p].rev] # None /\ dirty \subseteq {proc[p].rev}
  BY Zenon, <1>1, AloneFacts, ApiAssumption, StoreAssumption DEF Knows, Due
<1>3. dirty' = {} /\ Goto(p, Idle) /\ AllBacked
  BY Zenon, <1>1, <1>2, AloneSyncing DEF syncBump, increment_soa_serial
<1> QED BY Zenon, <1>1, <1>3, AloneFacts, Done

LEMMA AloneClear == ASSUME TidyInv, NEW p \in Procs, Alone(p), clear(p) PROVE StaysAlone(p)
<1> DEFINE q == proc[p]
           i == q.rec.data
<1>1. q.at = "clear"
  BY Zenon DEF clear, At
<1>2. /\ q \in Requests /\ q.op \in {"create", "update"} /\ zones[q.rec.zone] # None
      /\ HasRow(LinkOf(q.rec)) /\ AllBacked /\ IsA(q.rec) /\ LinkOf(q.rec) \in Link /\ i \in Ips
  BY Zenon, <1>1, AloneSyncing DEF IsA, LinkOf, Link
<1>3. q.rev \in ZoneIds /\ zones[q.rev] = Reverse /\ q.gone = PtrsOf(i) /\ dirty \subseteq {q.rev}
  BY Zenon, <1>1, AloneFacts DEF Formed, Knows, Due
<1>4. \A r \in q.gone : records[r] # None
  BY Zenon, <1>3 DEF PtrsOf
<1>5. CASE \E r \in q.gone : /\ delete_record(r) /\ dirty' = dirty \cup {q.rev}
                             /\ Goto(p, [q EXCEPT !.gone = @ \ {r}])
  <2>1. PICK r \in q.gone : /\ delete_record(r) /\ dirty' = dirty \cup {q.rev}
                            /\ Goto(p, [q EXCEPT !.gone = @ \ {r}])
    BY Zenon, <1>5
  <2> DEFINE s == [q EXCEPT !.gone = @ \ {r}]
  <2>2. /\ InZones' /\ [StoreStep(FALSE)]_storeVars /\ zones' = zones
        /\ \A ip \in Ips : PtrsOf(ip)' = PtrsOf(ip) \ {r}
        /\ \A ip \in Ips : \A t \in PtrsOf(ip) \ {r} : records'[t] = records[t] /\ (HasOwn(t, ip) => HasOwn(t, ip)')
        /\ \A l \in Link : HasRow(l) => HasRow(l)'
    BY Zenon, <1>2, <1>3, <2>1, PtrGoes
  <2>3. proc'[p] = s /\ \A o \in Procs \ {p} : proc'[o] = proc[o]
    BY Zenon, <2>1, AloneFacts DEF Goto, ApiInv
  <2>4. s.at = "clear" /\ s.op = q.op /\ s.rec = q.rec /\ s.rev = q.rev /\ s.gone = PtrsOf(i) \ {r}
    BY Zenon, <1>1, <1>2, <1>3 DEF Requests
  <2> HIDE DEF s
  <2>5. HasRow(LinkOf(proc[p].rec))'
    <3>1. ASSUME NEW l \in Link, HasRow(l), l = LinkOf(proc'[p].rec) PROVE HasRow(LinkOf(proc[p].rec))'
      BY Zenon, <2>2, <3>1 DEF HasRow, LinkOf
    <3> QED BY Zenon, <1>2, <2>3, <2>4, <3>1
  <2>6. PtrsOf(proc[p].rec.data)' = PtrsOf(i) \ {r}
    <3>1. ASSUME NEW ip \in Ips, ip = proc'[p].rec.data PROVE PtrsOf(proc[p].rec.data)' = PtrsOf(ip)'
      BY Zenon, <3>1 DEF PtrsOf
    <3> QED BY Zenon, <1>2, <2>2, <2>3, <2>4, <3>1
  <2>7. Knows(proc[p])'
    BY Zenon, <1>2, <1>3, <2>2, <2>3, <2>4, <2>5, <2>6 DEF Knows
  <2>8. Backed(proc[p])'
    BY Zenon, <1>2, <2>2 DEF Backed, AllBacked
  <2> QED BY Zenon, <1>3, <2>1, <2>2, <2>3, <2>4, <2>7, <2>8, AloneFacts DEF StaysAlone, Alone, Due
<1>6. CASE /\ q.gone = {}
           /\ \E r \in FreshIds : create_record(r,
                 [zone |-> q.rev, key |-> q.rec.data, data |-> q.rec.key, enabled |-> TRUE])
           /\ dirty' = dirty \cup {q.rev}
           /\ Goto(p, [q EXCEPT !.at = "syncBump"])
  <2> DEFINE ptr == [zone |-> q.rev, key |-> q.rec.data, data |-> q.rec.key, enabled |-> TRUE]
             s == [q EXCEPT !.at = "syncBump"]
  <2>1. PICK r \in FreshIds : create_record(r, ptr)
    BY Zenon, <1>6
  <2>2. r \in Ids /\ FreshId(r) /\ records[r] = None
    BY Zenon DEF FreshIds, FreshId
  <2>3. ptr \in Record /\ ptr # None /\ ptr.zone = q.rev /\ ptr.key = i /\ ptr.data = q.rec.key /\ ptr.enabled
    <3>1. q.rev \in ZoneIds /\ i \in Keys /\ q.rec.key \in Data
      BY Zenon, <1>2, <1>3, ApiAssumption DEF IsA
    <3>2. ptr \in Record
      BY Zenon, <3>1 DEF Record
    <3> QED BY Zenon, <3>2, StoreAssumption
  <2> HIDE DEF ptr
  <2>4. [StoreStep(FALSE)]_storeVars
    BY Zenon, <2>1, <2>2, <2>3 DEF StoreStep
  <2>5. /\ zones' = zones /\ nameIdx' = nameIdx /\ records'[r] = ptr
        /\ \A t \in Ids \ {r} : records'[t] = records[t]
    BY Zenon, <2>1, <2>2 DEF create_record, TidyInv, ApiInv, StoreInv, StoreTypeOK
  <2>6. \A l \in Link : HasRow(l) => HasRow(l)'
    BY Zenon, <1>2, <2>2, <2>3, <2>5, PtrMoves
  <2>7. PtrsOf(i) = {} /\ \A ip \in Ips : PtrsOf(ip)' = IF ip = i THEN {r} ELSE PtrsOf(ip)
    BY <1>3, <1>6, <2>2, <2>3, <2>5 DEF PtrsOf
  <2>8. \A ip \in Ips : \A t \in PtrsOf(ip) : t \in Ids /\ records'[t] = records[t]
    BY Zenon, <2>2, <2>5 DEF PtrsOf
  <2>9. InZones'
    <3>1. \A t \in Ids : records'[t] # None => zones'[records'[t].zone] # None
      <4>1. Reverse # None
        BY Zenon, ApiAssumption, StoreAssumption
      <4>2. \A t \in Ids : records[t] # None => zones[records[t].zone] # None
        BY Zenon DEF TidyInv, InZones
      <4> QED BY Zenon, <1>3, <2>3, <2>5, <4>1, <4>2
    <3>2. \A ip \in Ips : \A t \in PtrsOf(ip)' : records'[t].enabled /\ zones'[records'[t].zone] = Reverse
      <4>1. \A ip \in Ips : \A t \in PtrsOf(ip) : records[t].enabled /\ zones[records[t].zone] = Reverse
        BY Zenon DEF TidyInv, InZones
      <4>2. ASSUME NEW ip \in Ips, NEW t \in PtrsOf(ip)' PROVE t = r \/ t \in PtrsOf(ip)
        BY Zenon, <2>7, <4>2
      <4> TAKE ip \in Ips
      <4> TAKE t \in PtrsOf(ip)'
      <4>3. CASE t = r
        BY Zenon, <1>3, <2>3, <2>5, <4>3
      <4>4. CASE t \in PtrsOf(ip)
        BY Zenon, <2>5, <2>8, <4>1, <4>4
      <4> QED BY Zenon, <4>2, <4>3, <4>4
    <3>3. ASSUME NEW ip \in Ips, NEW t \in PtrsOf(ip)', NEW u \in PtrsOf(ip)' PROVE t = u
      <4>1. \A a, b \in PtrsOf(ip) : a = b
        BY Zenon DEF TidyInv, InZones
      <4>2. CASE ip = i
        <5>1. PtrsOf(ip)' = {r}
          BY Zenon, <2>7, <4>2
        <5> QED BY Zenon, <5>1
      <4>3. CASE ip # i
        <5>1. PtrsOf(ip)' = PtrsOf(ip)
          BY Zenon, <2>7, <4>3
        <5> QED BY Zenon, <4>1, <5>1
      <4> QED BY Zenon, <4>2, <4>3
    <3> QED BY Zenon, <2>5, <3>1, <3>2, <3>3 DEF TidyInv, InZones
  <2>10. proc'[p] = s /\ \A o \in Procs \ {p} : proc'[o] = proc[o]
    BY Zenon, <1>6, AloneFacts DEF Goto, ApiInv
  <2>11. s.at = "syncBump" /\ s.op = q.op /\ s.rec = q.rec /\ s.rev = q.rev
    BY Zenon, <1>2 DEF Requests
  <2> HIDE DEF s
  <2>12. HasRow(LinkOf(proc[p].rec))'
    <3>1. ASSUME NEW l \in Link, HasRow(l), l = LinkOf(proc'[p].rec) PROVE HasRow(LinkOf(proc[p].rec))'
      BY Zenon, <2>6, <3>1 DEF HasRow, LinkOf
    <3> QED BY Zenon, <1>2, <2>10, <2>11, <3>1
  <2>13. Knows(proc[p])'
    BY Zenon, <1>2, <1>3, <2>5, <2>10, <2>11, <2>12 DEF Knows
  <2>14. \A ip \in Ips : \A t \in PtrsOf(ip) : HasOwn(t, ip)'
    BY Zenon, <1>2, <2>6, <2>8, AloneFacts, PtrLinks DEF AllBacked, HasOwn
  <2>15. Backed(proc[p])'
    <3>1. ASSUME NEW ip \in Ips, NEW t \in PtrsOf(ip)' PROVE HasOwn(t, ip)'
      <4>1. CASE ip = i
        <5>1. t = r
          BY Zenon, <2>7, <4>1
        <5>2. records'[t].data = proc'[p].rec.key /\ ip = proc'[p].rec.data
          BY Zenon, <2>3, <2>5, <2>10, <2>11, <4>1, <5>1
        <5> QED BY Zenon, <2>12, <5>2 DEF HasOwn, HasRow, LinkOf
      <4>2. CASE ip # i
        BY Zenon, <2>7, <2>14, <4>2
      <4> QED BY Zenon, <4>1, <4>2
    <3> QED BY Zenon, <3>1 DEF Backed
  <2> QED BY Zenon, <1>3, <1>6, <2>4, <2>9, <2>10, <2>11, <2>13, <2>15, AloneFacts DEF StaysAlone, Alone, Due
<1> QED BY Zenon, <1>4, <1>5, <1>6 DEF clear

LEMMA AloneRequest ==
    ASSUME AloneOps, TidyInv, Quiet, NEW o \in Procs, Alone(o), NEW c \in Clients, Request(c)
    PROVE  StaysAlone(c)
<1>1. /\ ApiInv /\ InZones /\ c \in Procs /\ AllBacked /\ dirty = {}
      /\ \A p \in Procs \ {c} : proc[p].at = "idle"
  BY Zenon, AloneFacts DEF Procs, Quiet, At, Pending, Due
<1>2. ASSUME NEW r \in Ids, rest_delete_record(c, r) PROVE StaysAlone(c)
  <2> DEFINE s == [Idle EXCEPT !.op = "delete", !.at = "remove", !.id = r,
                               !.rec = records[r], !.old = LinkOf(records[r])]
  <2>1. Goto(c, s) /\ UNCHANGED storeVars /\ dirty' = dirty /\ records[r] # None
    BY Zenon, <1>2 DEF rest_delete_record
  <2>2. s.at = "remove" /\ s.op = "delete" /\ s.id = r /\ s.rec = records[r] /\ s.old = LinkOf(records[r])
    BY Zenon DEF Idle
  <2> HIDE DEF s
  <2>3. Knows(s) /\ Backed(s)
    BY Zenon, <1>1, <2>1, <2>2 DEF Knows, Backed, AllBacked, InZones
  <2> QED BY Zenon, <1>1, <2>1, <2>3, Onward
<1>3. ASSUME NEW h \in Hosts, NEW ip \in Ips, NEW on \in BOOLEAN, NEW z \in ZoneIds,
             rest_create_record(c, z, h, ip, on)
      PROVE  StaysAlone(c)
  <2> DEFINE s == [Idle EXCEPT !.op = "create", !.at = "dedupe", !.rec = A(z, h, ip, on)]
  <2>1. Goto(c, s) /\ UNCHANGED storeVars /\ dirty' = dirty /\ zones[z] # None
    BY Zenon, <1>3, ApiAssumption, StoreAssumption DEF rest_create_record
  <2>2. s.at = "dedupe" /\ s.rec.zone = z
    BY Zenon DEF Idle, A
  <2> HIDE DEF s
  <2>3. Knows(s) /\ Backed(s)
    BY Zenon, <1>1, <2>1, <2>2 DEF Knows, Backed, AllBacked
  <2> QED BY Zenon, <1>1, <2>1, <2>3, Onward
<1>4. ASSUME NEW h \in Hosts, NEW ip \in Ips, NEW on \in BOOLEAN, NEW r \in Ids,
             NEW op \in {"update", "grpc_update"}, update_record_begins(c, op, r, h, ip, on)
      PROVE  StaysAlone(c)
  <2> DEFINE rec == [records[r] EXCEPT !.key = h, !.data = ip, !.enabled = on]
             s == [Idle EXCEPT !.op = op, !.at = "write", !.id = r, !.rec = rec, !.old = LinkOf(records[r])]
  <2>1. /\ Goto(c, s) /\ UNCHANGED storeVars /\ dirty' = dirty /\ op = "update"
        /\ records[r] # None /\ h = records[r].key
    BY Zenon, <1>4 DEF update_record_begins, Take, AloneOps
  <2>2. records[r] \in Record
    BY Zenon, <1>1, <2>1 DEF ApiInv, StoreInv, StoreTypeOK
  <2>3. rec.zone = records[r].zone /\ rec.key = records[r].key
    BY Zenon, <2>1, <2>2 DEF Record
  <2> HIDE DEF rec
  <2>4. s.at = "write" /\ s.op = "update" /\ s.id = r /\ s.rec = rec /\ s.old = LinkOf(records[r])
    BY Zenon, <2>1 DEF Idle
  <2> HIDE DEF s
  <2>5. Knows(s) /\ Backed(s)
    BY Zenon, <1>1, <2>1, <2>3, <2>4 DEF Knows, Backed, AllBacked, InZones
  <2> QED BY Zenon, <1>1, <2>1, <2>5, Onward
<1> QED BY Zenon, <1>2, <1>3, <1>4 DEF Request

LEMMA AloneOthers ==
    ASSUME AloneOps, TidyInv, Quiet, NEW o \in Procs, Alone(o), Others
    PROVE  StaysAlone(o)
<1>1. PICK n \in ZoneNames : rest_create_zone(n)
  BY Zenon DEF Others, AloneOps, rest_delete_zone, grpc_create_record, grpc_delete_record,
         unregister, register_v4, Import, Take
<1>2. PICK z \in FreshZones : create_zone(z, n)
  BY Zenon, <1>1 DEF rest_create_zone
<1>3. InZones' /\ [StoreStep(FALSE)]_storeVars /\ records' = records
  BY Zenon, <1>2, ZoneComes
<1>4. proc' = proc /\ dirty' = dirty
  BY Zenon, <1>1 DEF rest_create_zone
<1>5. AllBacked /\ proc[o].at = "idle"
  BY Zenon, AloneFacts DEF Quiet, At, Pending
<1>6. Knows(proc[o])'
  BY Zenon, <1>4, <1>5 DEF Knows
<1>7. Backed(proc[o])'
  BY Zenon, <1>3, <1>5 DEF Backed, AllBacked, HasOwn, HasRow, PtrsOf
<1> QED BY Zenon, <1>3, <1>4, <1>6, <1>7, AloneFacts DEF StaysAlone, Alone, Due

LEMMA AloneStarts == Init => AloneInv
<1> SUFFICES ASSUME Init PROVE AloneInv
  BY Zenon
<1>1. ApiInv /\ IndexExact
  BY Zenon, ApiStarts, InvStart DEF Init
<1>2. \A ip \in Ips : PtrsOf(ip) = {}
  BY Zenon DEF Init, StoreInit, PtrsOf
<1>3. InZones
  BY Zenon, <1>2 DEF Init, StoreInit, InZones
<1>4. \A p \in Procs : proc[p] = Idle
  BY Zenon DEF Init
<1>5. "dhcp" \in Procs
  BY Zenon DEF Procs
<1>6. Alone("dhcp")
  BY Zenon, <1>2, <1>4, <1>5, IdleKnows DEF Alone, Backed, Init
<1> QED BY Zenon, <1>1, <1>3, <1>5, <1>6 DEF AloneInv, TidyInv

LEMMA AloneStep == ASSUME AloneOps PROVE AloneInv /\ [AloneNext]_vars => AloneInv'
<1> SUFFICES ASSUME AloneInv, [AloneNext]_vars PROVE AloneInv'
  BY Zenon
<1>1. PICK o \in Procs : Alone(o)
  BY Zenon DEF AloneInv
<1>2. TidyInv
  BY Zenon DEF AloneInv
<1>3. [Next]_vars
  BY Zenon DEF AloneNext, Next, Request
<1>4. ApiInv'
  BY Zenon, <1>2, <1>3, ApiStep DEF TidyInv
<1>5. ASSUME NEW p \in Procs, StaysAlone(p) PROVE AloneInv'
  <2>1. IndexExact'
    <3>1. StoreInv /\ IndexExact /\ [StoreStep(FALSE)]_storeVars
      BY Zenon, <1>2, <1>5 DEF TidyInv, ApiInv, StaysAlone
    <3> QED BY Zenon, <3>1, ExactStep
  <2> QED BY Zenon, <1>4, <1>5, <2>1 DEF AloneInv, TidyInv, StaysAlone
<1>6. ASSUME NEW p \in Procs, Step(p) PROVE AloneInv'
  <2>1. p = o
    <3>1. proc[p].at # "idle"
      BY Zenon, <1>6 DEF Step, dedupe, insert, write, remove, bump, unptr, unptrDelete, unptrBump,
                  sync, ensure, query, clear, syncBump, stale, next, At
    <3> QED BY Zenon, <1>1, <3>1 DEF Alone
  <2>2. ~stale(o) /\ ~next(o)
    BY Zenon, <1>1, <1>2, AloneFacts DEF Knows, stale, next, At
  <2>3. StaysAlone(o)
    BY Zenon, <1>1, <1>2, <1>6, <2>1, <2>2, AloneDedupe, AloneInsert, AloneWrite, AloneRemove, AloneBump,
       AloneUnptr, AloneUnptrDelete, AloneUnptrBump, AloneSync, AloneEnsure, AloneQuery, AloneClear,
       AloneSyncBump DEF Step
  <2> QED BY Zenon, <1>5, <2>3
<1>7. ASSUME Quiet, NEW c \in Clients, Request(c) PROVE AloneInv'
  BY Zenon, <1>1, <1>2, <1>5, <1>7, AloneRequest DEF Procs
<1>8. ASSUME Quiet, Others PROVE AloneInv'
  BY Zenon, <1>1, <1>2, <1>5, <1>8, AloneOthers
<1>9. CASE UNCHANGED vars
  <2>1. StaysAlone(o)
    <3>1. UNCHANGED storeVars /\ dirty' = dirty /\ Goto(o, proc[o])
      BY Zenon, <1>2, <1>9 DEF vars, Goto, TidyInv, ApiInv
    <3> QED BY Zenon, <1>1, <1>2, <3>1, AloneFacts, Onward DEF Alone
  <2> QED BY Zenon, <1>5, <2>1
<1>10. CASE AloneNext
  <2>1. ASSUME NEW c \in Clients, NEW r \in Ids, rest_delete_record(c, r) PROVE Request(c)
    BY Zenon, <2>1 DEF Request
  <2> QED BY Zenon, <1>6, <1>7, <1>8, <1>10, <2>1 DEF AloneNext
<1> QED BY Zenon, <1>9, <1>10

\* One request after the other, none of them renaming a record: an address has
\* one PTR at every moment, and between requests it names a host that has a
\* record with that address (sync_ptr_for_a, delete_ptr_for_a and the order in
\* which the REST handlers call them).
THEOREM PtrsStayRight == ASSUME AloneOps PROVE AloneSpec => []PtrsRight
<1>1. ASSUME AloneInv PROVE PtrsRight
  <2>1. PICK o \in Procs : Alone(o)
    BY Zenon, <1>1 DEF AloneInv
  <2>2. TidyInv
    BY Zenon, <1>1 DEF AloneInv
  <2>3. TypeOK
    BY Zenon, <2>2 DEF TidyInv, ApiInv, StoreInv, TypeOK, Requests
  <2>4. \A z \in ReverseZone : \A ip \in Ips : query_records(z, ip) = PtrsOf(ip)
    BY Zenon, <2>2, QueryPtrs DEF ReverseZone
  <2>5. OnePtr
    BY <2>2, <2>4 DEF OnePtr, TidyInv, InZones
  <2>6. PtrTrue
    <3> SUFFICES ASSUME Quiet PROVE AllBacked
      BY Zenon, <2>4 DEF PtrTrue, AllBacked, HasOwn, HasRow
    <3> QED BY Zenon, <2>1, <2>2, AloneFacts DEF Quiet, At, Pending
  <2> QED BY Zenon, <2>3, <2>5, <2>6 DEF PtrsRight
<1> QED BY <1>1, AloneStarts, AloneStep, PTL DEF AloneSpec

\* A request that is over has bumped the serial of every zone it changed, the
\* reverse zone included (increment_soa_serial in records.rs and reverse.rs).
THEOREM SerialsBumped == ASSUME AloneOps PROVE AloneSpec => []Bumped
<1>1. ASSUME AloneInv PROVE Bumped
  <2>1. PICK o \in Procs : Alone(o)
    BY Zenon, <1>1 DEF AloneInv
  <2>2. TidyInv
    BY Zenon, <1>1 DEF AloneInv
  <2> QED BY Zenon, <2>1, <2>2, AloneFacts DEF Bumped, Quiet, At, Due
<1> QED BY <1>1, AloneStarts, AloneStep, PTL DEF AloneSpec

=============================================================================
