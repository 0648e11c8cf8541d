------------------------- MODULE ZoneTransferProofs -------------------------
(***************************************************************************)
(* Proofs about ZoneTransfer, for any zones, ids and number of changes:    *)
(* types, whoever pulls; and, when only the agent pulls, what the serial   *)
(* of the copy promises.                                                   *)
(***************************************************************************)
EXTENDS ZoneTransfer, TLAPS

\* Serials and versions stay within the bound on changes.
Counted == \A z \in Zones : serial[z] + unbumped[z] <= version[z] + 1

\* What a puller has filled in by each stage.
StageOK(p) ==
    /\ pull[p].stage = "idle" => pull[p] = Idle
    /\ pull[p].stage # "idle" => pull[p].zone \in Zones
    /\ pull[p].stage \in {"soa", "got", "found", "upserted"} =>
           /\ pull[p].serial \in Serials
           /\ pull[p].serial <= serial[pull[p].zone]
    /\ pull[p].stage \in {"got", "found", "upserted"} => pull[p].version \in Versions
    /\ pull[p].stage \in {"found", "upserted"} => pull[p].id \in Ids

PullsOK == \A p \in Pullers : StageOK(p)

TInv == TypeOK /\ Counted /\ PullsOK

LEMMA Numbers ==
    ASSUME TInv
    PROVE  \A z \in Zones : serial[z] \in Nat /\ unbumped[z] \in Nat /\ version[z] \in Nat
BY TransferAssumption DEF TInv, TypeOK, Serials, Versions

\* Pulls under way stay in order while nobody pulls and serials only grow.
LEMMA PullsUntouched ==
    ASSUME TInv, pull' = pull, serial' \in [Zones -> Serials],
           \A z \in Zones : serial[z] <= serial'[z]
    PROVE  PullsOK'
<1>1. Serials \subseteq Nat
  BY TransferAssumption DEF Serials
<1>2. ASSUME NEW p \in Pullers,
             pull[p].stage \in {"soa", "got", "found", "upserted"}
      PROVE  pull[p].serial <= serial'[pull[p].zone]
  <2>1. /\ pull[p].zone \in Zones /\ pull[p].serial \in Serials
        /\ pull[p].serial <= serial[pull[p].zone]
    BY Zenon, <1>2 DEF TInv, PullsOK, StageOK
  <2>2. /\ serial[pull[p].zone] \in Nat /\ serial'[pull[p].zone] \in Nat
        /\ pull[p].serial \in Nat
    BY <1>1, <2>1, Zenon DEF TInv, TypeOK
  <2> QED BY <2>1, <2>2
<1> QED BY Zenon, <1>2 DEF TInv, PullsOK, StageOK

\* The primary's steps keep the types, the count and the pulls in order.
LEMMA PrimaryTypes ==
    ASSUME TInv, NEW z \in Zones,
           \/ Change(z) \/ QuietChange(z) \/ increment_soa_serial(z) \/ notify_zone(z)
           \/ PrimaryRestart(z) \/ PowerLoss(z)
    PROVE  TInv'
<1>1. CASE Change(z)
  <2>1. version' \in [Zones -> Versions] /\ unbumped' \in [Zones -> Versions]
    <3>1. /\ version \in [Zones -> Versions] /\ unbumped \in [Zones -> Versions]
          /\ serial[z] \in Serials /\ serial[z] + unbumped[z] <= version[z] + 1
          /\ version[z] < MaxVersion
      BY Zenon, <1>1 DEF TInv, TypeOK, Counted, Change
    <3>2. version[z] \in Versions /\ unbumped[z] \in Versions /\ MaxVersion \in Nat
      BY Zenon, <3>1, TransferAssumption
    <3>3. version[z] + 1 \in Versions /\ unbumped[z] + 1 \in Versions
      BY <3>1, <3>2 DEF Serials, Versions
    <3> QED BY Zenon, <1>1, <3>1, <3>3 DEF Change
  <2>2. TypeOK'
    BY Zenon, <1>1, <2>1 DEF TInv, TypeOK, Change, agentVars, dbVars
  <2>3. Counted'
    <3>1. version \in [Zones -> Versions] /\ unbumped \in [Zones -> Versions] /\ Counted
      BY Zenon DEF TInv, TypeOK
    <3> QED BY <1>1, <3>1, Numbers DEF Counted, Change
  <2>4. PullsOK'
    BY Zenon, <1>1 DEF TInv, PullsOK, StageOK, Change
  <2> QED BY Zenon, <2>2, <2>3, <2>4 DEF TInv
<1>2. CASE QuietChange(z)
  <2>1. version' \in [Zones -> Versions]
    BY <1>2, TransferAssumption DEF TInv, TypeOK, Counted, QuietChange, Serials, Versions
  <2>2. TypeOK'
    BY Zenon, <1>2, <2>1 DEF TInv, TypeOK, QuietChange, agentVars, dbVars
  <2>3. Counted'
    <3>1. version \in [Zones -> Versions] /\ Counted
      BY Zenon DEF TInv, TypeOK
    <3> QED BY <1>2, <3>1, Numbers DEF Counted, QuietChange
  <2>4. PullsOK'
    BY Zenon, <1>2 DEF TInv, PullsOK, StageOK, QuietChange
  <2> QED BY Zenon, <2>2, <2>3, <2>4 DEF TInv
<1>3. CASE increment_soa_serial(z)
  <2>1. /\ serial' \in [Zones -> Serials] /\ unbumped' \in [Zones -> Versions]
        /\ published' \in [Zones -> [Serials -> Versions]]
    <3>1. /\ serial \in [Zones -> Serials] /\ unbumped \in [Zones -> Versions]
          /\ version \in [Zones -> Versions]
          /\ published \in [Zones -> [Serials -> Versions]]
          /\ serial[z] + unbumped[z] <= version[z] + 1
      BY Zenon DEF TInv, TypeOK, Counted
    <3>2. serial[z] + 1 \in Serials /\ unbumped[z] - 1 \in Versions
      <4>1. serial[z] \in Serials /\ unbumped[z] \in Versions /\ version[z] \in Versions
        BY Zenon, <3>1
      <4>2. unbumped[z] > 0
        BY Zenon, <1>3 DEF increment_soa_serial
      <4>3. MaxVersion \in Nat
        BY Zenon, TransferAssumption
      <4>4. serial[z] + unbumped[z] <= version[z] + 1
        BY Zenon, <3>1
      <4> QED BY <4>1, <4>2, <4>3, <4>4 DEF Serials, Versions
    <3> QED BY Zenon, <1>3, <3>1, <3>2 DEF increment_soa_serial
  <2>2. TypeOK'
    BY Zenon, <1>3, <2>1 DEF TInv, TypeOK, increment_soa_serial, agentVars, dbVars
  <2>3. Counted'
    <3>1. serial \in [Zones -> Serials] /\ unbumped \in [Zones -> Versions] /\ Counted
      BY Zenon DEF TInv, TypeOK
    <3> QED BY <1>3, <3>1, Numbers DEF Counted, increment_soa_serial
  <2>4. \A y \in Zones : serial[y] <= serial'[y]
    BY <1>3, TransferAssumption DEF TInv, TypeOK, increment_soa_serial, Serials
  <2>5. PullsOK'
    BY Zenon, <1>3, <2>2, <2>4, PullsUntouched DEF TInv, TypeOK, increment_soa_serial
  <2> QED BY Zenon, <2>2, <2>3, <2>5 DEF TInv
<1>4. CASE notify_zone(z)
  <2>1. inbox' \subseteq Zones
    BY Zenon, <1>4 DEF TInv, TypeOK, notify_zone, handle_notify
  <2>2. TypeOK'
    BY Zenon, <1>4, <2>1 DEF TInv, TypeOK, notify_zone, agentVars, dbVars
  <2>3. Counted'
    BY Zenon, <1>4, TransferAssumption DEF TInv, TypeOK, Counted, notify_zone, Serials, Versions
  <2>4. PullsOK'
    BY Zenon, <1>4 DEF TInv, PullsOK, StageOK, notify_zone
  <2> QED BY Zenon, <2>2, <2>3, <2>4 DEF TInv
<1>5. CASE PrimaryRestart(z)
  <2>1. unbumped' \in [Zones -> Versions]
    BY <1>5, TransferAssumption DEF TInv, TypeOK, Counted, PrimaryRestart, Serials, Versions
  <2>2. TypeOK'
    BY Zenon, <1>5, <2>1 DEF TInv, TypeOK, PrimaryRestart, agentVars, dbVars
  <2>3. Counted'
    <3>1. unbumped \in [Zones -> Versions] /\ Counted
      BY Zenon DEF TInv, TypeOK
    <3> QED BY <1>5, <3>1, Numbers DEF Counted, PrimaryRestart
  <2>4. PullsOK'
    BY Zenon, <1>5 DEF TInv, PullsOK, StageOK, PrimaryRestart
  <2> QED BY Zenon, <2>2, <2>3, <2>4 DEF TInv
<1>6. CASE PowerLoss(z)
  <2>1. dead' \subseteq Zones
    BY Zenon, <1>6 DEF TInv, TypeOK, PowerLoss
  <2>2. TypeOK'
    BY Zenon, <1>6, <2>1 DEF TInv, TypeOK, PowerLoss, agentVars, dbVars
  <2>3. Counted'
    BY Zenon, <1>6, TransferAssumption DEF TInv, TypeOK, Counted, PowerLoss, Serials, Versions
  <2>4. PullsOK'
    BY Zenon, <1>6 DEF TInv, PullsOK, StageOK, PowerLoss
  <2> QED BY Zenon, <2>2, <2>3, <2>4 DEF TInv
<1> QED BY Zenon, <1>1, <1>2, <1>3, <1>4, <1>5, <1>6

\* The agent's scheduling keeps them too: it starts no pull.
LEMMA SchedulingTypes ==
    ASSUME TInv,
           \/ TakeNotifies \/ TakeDue
           \/ \E z \in Zones : RefreshElapses(z)
           \/ \E S \in SUBSET Zones : ApplySettings(S)
    PROVE  TInv'
<1>1. /\ UNCHANGED <<pull, primaryVars, dbVars>>
      /\ inbox' \subseteq Zones /\ mirrored' \subseteq Zones
      /\ waiting' \subseteq Zones /\ todo' \subseteq Zones
  BY Zenon DEF TInv, TypeOK, TakeNotifies, TakeDue, RefreshElapses, ApplySettings
<1>2. TypeOK' /\ Counted'
  BY Zenon, <1>1 DEF TInv, TypeOK, Counted, primaryVars, dbVars
<1>3. PullsOK'
  BY Zenon, <1>1 DEF TInv, PullsOK, StageOK, primaryVars
<1> QED BY Zenon, <1>2, <1>3 DEF TInv

Record == [stage: Stages, zone: Zones \cup {None}, serial: Serials \cup {None},
           version: Versions \cup {None}, id: Ids \cup {None}]

\* A step that touches one puller, and perhaps the secondary's tables, keeps
\* them when what it leaves of the puller and the tables is in order.
LEMMA OnePull ==
    ASSUME TInv, NEW p \in Pullers, NEW r \in Record,
           pull' = [pull EXCEPT ![p] = r], StageOK(p)',
           UNCHANGED primaryVars, inbox' \subseteq Zones, mirrored' \subseteq Zones,
           waiting' \subseteq Zones, todo' \subseteq Zones,
           zoneRow' \in [Ids -> [zone: Zones, serial: Serials] \cup {None}],
           contents' \in [Ids -> Versions \cup {None}],
           nameIdx' \in [Zones -> Ids \cup {None}]
    PROVE  TInv'
<1>1. pull' \in [Pullers -> Record]
  BY Zenon DEF TInv, TypeOK, Record
<1>2. TypeOK'
  BY Zenon, <1>1 DEF TInv, TypeOK, Record, primaryVars
<1>3. Counted'
  BY Zenon DEF TInv, Counted, primaryVars
<1>4. PullsOK'
  <2> SUFFICES ASSUME NEW q \in Pullers, q # p PROVE StageOK(q)'
    BY Zenon DEF PullsOK
  <2>1. pull'[q] = pull[q] /\ serial' = serial /\ StageOK(q)
    BY Zenon DEF TInv, TypeOK, PullsOK, primaryVars
  <2> QED BY Zenon, <2>1 DEF StageOK
<1> QED BY Zenon, <1>2, <1>3, <1>4 DEF TInv

\* Ending a pull keeps the types.
LEMMA FinishTypes ==
    ASSUME TInv, NEW p \in Pullers, NEW z \in Zones, Finish(p, z),
           UNCHANGED <<inbox, mirrored, primaryVars, zoneRow, nameIdx>>,
           contents' \in [Ids -> Versions \cup {None}]
    PROVE  TInv'
<1>1. Idle \in Record
  BY Zenon DEF Idle, Record, Stages
<1>2. /\ pull' = [pull EXCEPT ![p] = Idle]
      /\ waiting' \subseteq Zones /\ todo' \subseteq Zones
  BY DEF Finish, TInv, TypeOK
<1>3. StageOK(p)'
  BY Zenon, <1>2 DEF StageOK, TInv, TypeOK, Idle
<1> QED BY <1>1, <1>2, <1>3, OnePull, Zenon DEF TInv, TypeOK

\* Every step of a puller keeps the types.
LEMMA PullTypes ==
    ASSUME TInv, NEW p \in Pullers, PullStep(p)
    PROVE  TInv'
<1> DEFINE q == pull[p]
<1>1. q \in Record /\ StageOK(p) /\ DOMAIN pull = Pullers
  BY Zenon DEF TInv, TypeOK, PullsOK, Record
<1>2. /\ inbox \subseteq Zones /\ mirrored \subseteq Zones
      /\ waiting \subseteq Zones /\ todo \subseteq Zones
      /\ zoneRow \in [Ids -> [zone: Zones, serial: Serials] \cup {None}]
      /\ contents \in [Ids -> Versions \cup {None}]
      /\ nameIdx \in [Zones -> Ids \cup {None}]
  BY Zenon DEF TInv, TypeOK
<1>3. serial \in [Zones -> Serials] /\ version \in [Zones -> Versions]
  BY Zenon DEF TInv, TypeOK
<1>4. CASE axfr_soa(p)
  <2>1. q.zone \in Zones
    BY Zenon, <1>1, <1>4 DEF axfr_soa, StageOK
  <2>2. serial[q.zone] <= serial[q.zone]
    BY <2>1, Numbers
  <2> DEFINE r == [q EXCEPT !.stage = "soa", !.serial = serial[q.zone]]
  <2>3. r \in Record
    BY <1>1, <1>3, <2>1, Zenon DEF Record, Stages
  <2>4. pull' = [pull EXCEPT ![p] = r]
    BY <1>1, <1>4, Zenon DEF axfr_soa
  <2>5. StageOK(p)'
    BY <1>1, <1>3, <1>4, <2>1, <2>2, <2>4 DEF StageOK, Record, axfr_soa, primaryVars
  <2> QED BY <1>2, <1>4, <2>3, <2>4, <2>5, OnePull, Zenon DEF axfr_soa, agentVars, dbVars
<1>5. CASE axfr_records(p)
  <2>1. q.zone \in Zones
    BY Zenon, <1>1, <1>5 DEF axfr_records, StageOK
  <2> DEFINE r == [q EXCEPT !.stage = "got", !.version = version[q.zone]]
  <2>3. r \in Record
    BY <1>1, <1>3, <2>1, Zenon DEF Record, Stages
  <2>4. pull' = [pull EXCEPT ![p] = r]
    BY <1>1, <1>5, Zenon DEF axfr_records
  <2>5. StageOK(p)'
    BY <1>1, <1>3, <1>5, <2>1, <2>4 DEF StageOK, Record, axfr_records, primaryVars
  <2> QED BY <1>2, <1>5, <2>3, <2>4, <2>5, OnePull, Zenon DEF axfr_records, agentVars, dbVars
<1>6. CASE axfr_fails(p)
  <2>1. q.zone \in Zones
    BY Zenon, <1>1, <1>6 DEF axfr_fails, StageOK
  <2> QED BY Zenon, <1>2, <1>6, <2>1, FinishTypes DEF axfr_fails, dbVars
<1>7. CASE axfr_lookup(p)
  <2>1. q.zone \in Zones
    BY Zenon, <1>1, <1>7 DEF axfr_lookup, StageOK
  <2>2. PICK i \in Ids : pull' = [pull EXCEPT ![p].stage = "found", ![p].id = i]
    BY <1>2, <1>7, <2>1, Zenon DEF axfr_lookup, FreshIds
  <2> DEFINE r == [q EXCEPT !.stage = "found", !.id = i]
  <2>3. r \in Record
    BY <1>1, Zenon DEF Record, Stages
  <2>4. pull' = [pull EXCEPT ![p] = r]
    BY <1>1, <2>2, Zenon
  <2>5. StageOK(p)'
    BY <1>1, <1>7, <2>4, Zenon DEF StageOK, Record, axfr_lookup, primaryVars
  <2> QED BY <1>2, <1>7, <2>3, <2>4, <2>5, OnePull, Zenon DEF axfr_lookup, agentVars, dbVars
<1>8. CASE upsert_zone(p)
  <2>1. q.zone \in Zones /\ q.serial \in Serials /\ q.id \in Ids
    BY Zenon, <1>1, <1>8 DEF upsert_zone, StageOK
  <2> DEFINE r == [q EXCEPT !.stage = "upserted"]
  <2>3. r \in Record
    BY Zenon, <1>1 DEF Record, Stages
  <2>4. pull' = [pull EXCEPT ![p] = r]
    BY Zenon, <1>1, <1>8 DEF upsert_zone
  <2>5. StageOK(p)'
    BY Zenon, <1>1, <1>8, <2>4 DEF StageOK, Record, upsert_zone, primaryVars
  <2>6. /\ zoneRow' \in [Ids -> [zone: Zones, serial: Serials] \cup {None}]
        /\ nameIdx' \in [Zones -> Ids \cup {None}]
    BY Zenon, <1>2, <1>8, <2>1 DEF upsert_zone
  <2> QED BY <1>2, <1>8, <2>3, <2>4, <2>5, <2>6, OnePull, Zenon DEF upsert_zone, agentVars
<1>9. CASE replace_zone_records(p)
  <2>1. q.zone \in Zones /\ q.version \in Versions /\ q.id \in Ids
    BY Zenon, <1>1, <1>9 DEF replace_zone_records, StageOK
  <2>2. contents' \in [Ids -> Versions \cup {None}]
    BY Zenon, <1>2, <1>9, <2>1 DEF replace_zone_records
  <2> QED BY Zenon, <1>9, <2>1, <2>2, FinishTypes DEF replace_zone_records
<1> QED BY Zenon, <1>4, <1>5, <1>6, <1>7, <1>8, <1>9 DEF PullStep

\* The agent's check and a pull by hand keep the types, and so does a crash.
LEMMA CheckTypes ==
    ASSUME TInv,
           \/ \E z \in Zones : remote_serial(z) \/ remote_serial_fails(z)
           \/ compare
           \/ \E p \in Pullers, z \in Zones : transfer_zone(p, z)
           \/ SecondaryRestart
    PROVE  TInv'
<1>1. /\ inbox \subseteq Zones /\ mirrored \subseteq Zones
      /\ waiting \subseteq Zones /\ todo \subseteq Zones
      /\ zoneRow \in [Ids -> [zone: Zones, serial: Serials] \cup {None}]
      /\ contents \in [Ids -> Versions \cup {None}]
      /\ nameIdx \in [Zones -> Ids \cup {None}]
      /\ serial \in [Zones -> Serials]
      /\ pull \in [Pullers -> Record]
      /\ "agent" \in Pullers
  BY Zenon, TransferAssumption DEF TInv, TypeOK, Record
<1>2. ASSUME NEW z \in Zones, remote_serial(z) PROVE TInv'
  <2> DEFINE r == [Idle EXCEPT !.stage = "asked", !.zone = z, !.serial = serial[z]]
  <2>1. r \in Record /\ pull' = [pull EXCEPT !["agent"] = r]
    BY <1>1, <1>2, Zenon DEF remote_serial, Idle, Record, Stages
  <2>2. StageOK("agent")'
    BY Zenon, <1>1, <2>1 DEF StageOK, Idle
  <2> QED BY <1>1, <1>2, <2>1, <2>2, OnePull, Zenon DEF remote_serial, agentVars, dbVars
<1>3. ASSUME NEW z \in Zones, remote_serial_fails(z) PROVE TInv'
  BY Zenon, <1>1, <1>3, FinishTypes DEF remote_serial_fails, dbVars
<1>4. CASE compare
  <2>1. pull["agent"].zone \in Zones
    BY Zenon, <1>1, <1>4 DEF compare, TInv, PullsOK, StageOK
  <2>2. CASE LocalSerial(pull["agent"].zone) = pull["agent"].serial
    BY Zenon, <1>1, <1>4, <2>1, <2>2, FinishTypes DEF compare, dbVars
  <2>3. CASE LocalSerial(pull["agent"].zone) # pull["agent"].serial
    <3> DEFINE r == [pull["agent"] EXCEPT !.stage = "connect", !.serial = None]
    <3>0. pull["agent"] \in Record
      BY Zenon, <1>1
    <3>1. r \in Record /\ pull' = [pull EXCEPT !["agent"] = r]
      <4>1. r \in Record
        BY <3>0, Zenon DEF Record, Stages
      <4>2. pull' = [pull EXCEPT !["agent"] = r]
        BY <1>1, <1>4, <2>3, Zenon DEF compare
      <4> QED BY Zenon, <4>1, <4>2
    <3>2. pull'["agent"] = r /\ r.stage = "connect" /\ r.zone \in Zones
      BY Zenon, <1>1, <2>1, <3>1 DEF Record
    <3>3. StageOK("agent")'
      BY Zenon, <3>2 DEF StageOK
    <3> QED BY <1>1, <1>4, <2>3, <3>1, <3>3, OnePull, Zenon DEF compare, agentVars, dbVars
  <2> QED BY Zenon, <2>2, <2>3
<1>5. ASSUME NEW p \in Pullers, NEW z \in Zones, transfer_zone(p, z) PROVE TInv'
  <2> DEFINE r == [Idle EXCEPT !.stage = "connect", !.zone = z]
  <2>1. r \in Record /\ pull' = [pull EXCEPT ![p] = r]
    BY <1>1, <1>5, Zenon DEF transfer_zone, Idle, Record, Stages
  <2>2. StageOK(p)'
    BY Zenon, <1>1, <2>1 DEF StageOK, Idle
  <2> QED BY <1>1, <1>5, <2>1, <2>2, OnePull, Zenon DEF transfer_zone, agentVars, dbVars
<1>6. CASE SecondaryRestart
  <2>1. pull' = [p \in Pullers |-> Idle] /\ Idle \in Record
    BY Zenon, <1>6 DEF SecondaryRestart, Idle, Record, Stages
  <2>2. TypeOK' /\ Counted'
    BY Zenon, <1>6, <2>1 DEF TInv, TypeOK, Counted, SecondaryRestart, Record, primaryVars, dbVars
  <2>3. PullsOK'
    BY Zenon, <2>1 DEF PullsOK, StageOK, Idle
  <2> QED BY Zenon, <2>2, <2>3 DEF TInv
<1> QED BY Zenon, <1>2, <1>3, <1>4, <1>5, <1>6

LEMMA TypeStart == Init => TInv
<1> SUFFICES ASSUME Init PROVE TInv
  BY Zenon
<1>1. Idle \in Record
  BY Zenon DEF Idle, Record, Stages
<1>2. 0 \in Versions /\ 1 \in Serials
  BY TransferAssumption DEF Versions, Serials
<1>3. TypeOK
  BY Zenon, <1>1, <1>2 DEF Init, TypeOK, Record
<1>4. Counted /\ PullsOK
  BY DEF Init, Counted, PullsOK, StageOK, Idle
<1> QED BY Zenon, <1>3, <1>4 DEF TInv

LEMMA TypeStep == TInv /\ [Next]_vars => TInv'
<1> SUFFICES ASSUME TInv, [Next]_vars PROVE TInv'
  BY Zenon
<1>1. CASE UNCHANGED vars
  BY Zenon, <1>1 DEF TInv, TypeOK, Counted, PullsOK, StageOK, vars, primaryVars, dbVars, agentVars
<1>2. CASE Common
  BY Zenon, <1>2, PrimaryTypes, SchedulingTypes, PullTypes, CheckTypes DEF Common, AgentStep
<1>3. CASE SecondaryRestart
  BY Zenon, <1>3, CheckTypes
<1>4. CASE \E z \in Zones : QuietChange(z) \/ PrimaryRestart(z) \/ PowerLoss(z)
  BY Zenon, <1>4, PrimaryTypes
<1> QED BY Zenon, <1>1, <1>2, <1>3, <1>4 DEF Next

\* Whatever happens, and whoever pulls, the variables of ZoneTransfer keep
\* their types: in particular no serial outgrows the changes made, and a puller
\* that stores a zone has a serial, a version and an id to store.
THEOREM TransferTypes == Spec => []TypeOK
<1>1. TInv => TypeOK
  BY Zenon DEF TInv
<1> QED BY <1>1, TypeStart, TypeStep, PTL DEF Spec

-----------------------------------------------------------------------------
(* The copy, when only the agent pulls.                                    *)

\* No serial promises more than the primary has.
PublishedOK ==
    \A z \in Zones, s \in Serials : published[z][s] <= version[z]

\* The tables: names lead to rows of that name; a row is no newer than the
\* primary; only a row that is being swapped may lag behind its serial.
RowsOK ==
    /\ \A z \in Zones : nameIdx[z] # None =>
           /\ zoneRow[nameIdx[z]] # None
           /\ zoneRow[nameIdx[z]].zone = z
    /\ \A i \in Ids : zoneRow[i] = None => contents[i] = None
    /\ \A i \in Ids : zoneRow[i] # None =>
           /\ zoneRow[i].serial <= serial[zoneRow[i].zone]
           /\ contents[i] # None => contents[i] <= version[zoneRow[i].zone]
           /\ \/ pull["agent"].stage = "upserted" /\ pull["agent"].id = i
              \/ /\ contents[i] # None
                 /\ published[zoneRow[i].zone][zoneRow[i].serial] <= contents[i]

\* Row i holds a copy of zone z.
HeldFor(z, i) == zoneRow[i] # None /\ zoneRow[i].zone = z /\ contents[i] # None

\* The pull: what it carries keeps its serial's promise and is no older than
\* any copy of the zone, and it goes to a row of the zone or a new one.
CarriedOK ==
    LET q == pull["agent"] IN
    /\ q.stage \in {"got", "found", "upserted"} =>
           /\ published[q.zone][q.serial] <= q.version
           /\ q.version <= version[q.zone]
           /\ \A i \in Ids : HeldFor(q.zone, i) => contents[i] <= q.version
    /\ q.stage = "found" /\ zoneRow[q.id] # None => zoneRow[q.id].zone = q.zone
    /\ q.stage = "upserted" => zoneRow[q.id] = [zone |-> q.zone, serial |-> q.serial]

CopyInv == TInv /\ PublishedOK /\ RowsOK /\ CarriedOK

\* The types the arguments about the copy use.
LEMMA CopyTypes ==
    ASSUME TInv
    PROVE  /\ Versions \subseteq Nat /\ Serials \subseteq Nat
           /\ "agent" \in Pullers /\ StageOK("agent")
           /\ version \in [Zones -> Versions] /\ serial \in [Zones -> Serials]
           /\ published \in [Zones -> [Serials -> Versions]]
           /\ zoneRow \in [Ids -> [zone: Zones, serial: Serials] \cup {None}]
           /\ contents \in [Ids -> Versions \cup {None}]
           /\ nameIdx \in [Zones -> Ids \cup {None}]
           /\ pull \in [Pullers -> Record]
           /\ None \notin Nat
BY TransferAssumption DEF TInv, TypeOK, PullsOK, Versions, Serials, Record

PrimaryStep(z) ==
    \/ Change(z) \/ QuietChange(z) \/ increment_soa_serial(z) \/ notify_zone(z)
    \/ PrimaryRestart(z) \/ PowerLoss(z)

\* A step of a primary only adds: contents and serials grow, and what a serial
\* that is in use has promised does not change.
LEMMA PrimaryGrows ==
    ASSUME TInv, PublishedOK, NEW z \in Zones, PrimaryStep(z)
    PROVE  /\ UNCHANGED <<pull, dbVars>>
           /\ \A y \in Zones : version[y] <= version'[y] /\ serial[y] <= serial'[y]
           /\ \A y \in Zones, s \in Serials :
                  s <= serial[y] => published'[y][s] = published[y][s]
           /\ PublishedOK'
<1>0. /\ version \in [Zones -> Versions] /\ serial \in [Zones -> Serials]
      /\ published \in [Zones -> [Serials -> Versions]]
      /\ Versions \subseteq Nat /\ Serials \subseteq Nat
  BY Zenon, CopyTypes
<1>1. \A y \in Zones : /\ version[y] \in Nat /\ serial[y] \in Nat
                       /\ \A s \in Serials : s \in Nat /\ published[y][s] \in Nat
  BY <1>0, Zenon
<1>2. UNCHANGED <<pull, dbVars>>
  BY Zenon DEF PrimaryStep, Change, QuietChange, increment_soa_serial, notify_zone,
         PrimaryRestart, PowerLoss
<1>3. CASE Change(z) \/ QuietChange(z)
  <2>1. version' = [version EXCEPT ![z] = @ + 1] /\ UNCHANGED <<serial, published>>
    BY Zenon, <1>3 DEF Change, QuietChange
  <2>2. \A y \in Zones : version'[y] \in Nat /\ version[y] <= version'[y]
    <3>1. \A y \in Zones : version'[y] = IF y = z THEN version[y] + 1 ELSE version[y]
      BY Zenon, <1>0, <2>1
    <3> QED BY <1>1, <3>1
  <2>3. \A y \in Zones : serial[y] <= serial'[y]
    BY <1>1, <2>1
  <2>4. ASSUME NEW y \in Zones, NEW s \in Serials PROVE published'[y][s] <= version'[y]
    <3>1. published[y][s] <= version[y] /\ published[y][s] \in Nat /\ version[y] \in Nat
      BY Zenon, <1>1 DEF PublishedOK
    <3> QED BY <2>1, <2>2, <3>1
  <2> QED BY Zenon, <1>2, <2>1, <2>2, <2>3, <2>4 DEF PublishedOK
<1>4. CASE increment_soa_serial(z)
  <2>1. /\ serial' = [serial EXCEPT ![z] = @ + 1]
        /\ published' = [published EXCEPT ![z][serial[z] + 1] = version[z]]
        /\ UNCHANGED version
    BY Zenon, <1>4 DEF increment_soa_serial
  <2>2. \A y \in Zones : version[y] <= version'[y] /\ serial[y] <= serial'[y]
    <3>1. \A y \in Zones : serial'[y] = IF y = z THEN serial[y] + 1 ELSE serial[y]
      BY Zenon, <1>0, <2>1
    <3> QED BY <1>1, <2>1, <3>1
  <2>3. ASSUME NEW y \in Zones, NEW s \in Serials
        PROVE  published'[y][s] = IF y = z /\ s = serial[z] + 1 THEN version[z]
                                                                 ELSE published[y][s]
    BY Zenon, <1>0, <2>1
  <2>4. \A y \in Zones, s \in Serials :
            s <= serial[y] => published'[y][s] = published[y][s]
    BY <1>1, <2>3
  <2>5. PublishedOK'
    <3> SUFFICES ASSUME NEW y \in Zones, NEW s \in Serials
                 PROVE  published'[y][s] <= version[y]
      BY Zenon, <2>1 DEF PublishedOK
    <3>1. published[y][s] <= version[y]
      BY Zenon DEF PublishedOK
    <3> QED BY <1>1, <2>3, <3>1
  <2> QED BY Zenon, <1>2, <2>2, <2>4, <2>5
<1>5. CASE notify_zone(z) \/ PrimaryRestart(z) \/ PowerLoss(z)
  <2>1. UNCHANGED <<version, serial, published>>
    BY Zenon, <1>5 DEF notify_zone, PrimaryRestart, PowerLoss
  <2> QED BY <1>1, <1>2, <2>1 DEF PublishedOK
<1> QED BY Zenon, <1>3, <1>4, <1>5 DEF PrimaryStep

\* So the copy and the pull under way stay in order.
LEMMA PrimaryKeepsCopy ==
    ASSUME CopyInv, NEW z \in Zones, PrimaryStep(z)
    PROVE  CopyInv' /\ UNCHANGED contents
<1>1. TInv /\ TInv'
  BY Zenon, PrimaryTypes DEF CopyInv, PrimaryStep
<1>2. /\ UNCHANGED <<pull, zoneRow, contents, nameIdx>>
      /\ \A y \in Zones : version[y] <= version'[y] /\ serial[y] <= serial'[y]
      /\ \A y \in Zones, s \in Serials :
             s <= serial[y] => published'[y][s] = published[y][s]
      /\ PublishedOK'
  BY Zenon, PrimaryGrows DEF CopyInv, dbVars
<1>3. \A y \in Zones : /\ version[y] \in Nat /\ version'[y] \in Nat
                       /\ serial[y] \in Nat /\ serial'[y] \in Nat
  <2>1. /\ version \in [Zones -> Versions] /\ version' \in [Zones -> Versions]
        /\ serial \in [Zones -> Serials] /\ serial' \in [Zones -> Serials]
        /\ Versions \subseteq Nat /\ Serials \subseteq Nat
    BY Zenon, <1>1, CopyTypes DEF TInv, TypeOK
  <2> QED BY <2>1, Zenon
<1>4. RowsOK'
  <2>1. ASSUME NEW i \in Ids, zoneRow[i] # None
        PROVE  /\ zoneRow[i].serial <= serial'[zoneRow[i].zone]
               /\ contents[i] # None => contents[i] <= version'[zoneRow[i].zone]
               /\ published'[zoneRow[i].zone][zoneRow[i].serial]
                    = published[zoneRow[i].zone][zoneRow[i].serial]
    <3>1. /\ zoneRow[i].zone \in Zones /\ zoneRow[i].serial \in Serials
          /\ zoneRow[i].serial \in Nat
          /\ contents[i] # None => contents[i] \in Nat
      BY Zenon, <1>1, <2>1, CopyTypes
    <3>2. /\ zoneRow[i].serial <= serial[zoneRow[i].zone]
          /\ contents[i] # None => contents[i] <= version[zoneRow[i].zone]
      BY Zenon, <2>1 DEF CopyInv, RowsOK
    <3> QED BY <1>2, <1>3, <3>1, <3>2
  <2> QED BY Zenon, <1>2, <2>1 DEF CopyInv, RowsOK
<1>5. CarriedOK'
  <2> DEFINE q == pull["agent"]
  <2>1. ASSUME q.stage \in {"got", "found", "upserted"}
        PROVE  /\ published'[q.zone][q.serial] = published[q.zone][q.serial]
               /\ q.version <= version'[q.zone]
    <3>1. /\ q.zone \in Zones /\ q.serial \in Serials /\ q.version \in Nat
          /\ q.serial <= serial[q.zone]
      BY Zenon, <1>1, <2>1, CopyTypes DEF StageOK
    <3>2. q.version <= version[q.zone]
      BY Zenon, <2>1 DEF CopyInv, CarriedOK
    <3> QED BY <1>2, <1>3, <3>1, <3>2
  <2> QED BY Zenon, <1>2, <2>1 DEF CopyInv, CarriedOK, HeldFor
<1> QED BY Zenon, <1>1, <1>2, <1>4, <1>5 DEF CopyInv

\* A step of the secondary that leaves the tables alone, and does not abandon
\* a swap, keeps the copy in order if what it leaves in the pull is.
LEMMA TablesUntouched ==
    ASSUME CopyInv, TInv', UNCHANGED <<primaryVars, dbVars>>,
           pull["agent"].stage # "upserted", CarriedOK'
    PROVE  CopyInv' /\ UNCHANGED contents
<1>1. PublishedOK' /\ RowsOK'
  BY Zenon DEF CopyInv, PublishedOK, RowsOK, primaryVars, dbVars
<1> QED BY Zenon, <1>1 DEF CopyInv, dbVars

\* A pull with nothing to store yet is in order.
LEMMA EarlyPull ==
    ASSUME pull["agent"].stage \notin {"got", "found", "upserted"}
    PROVE  CarriedOK
BY Zenon DEF CarriedOK

\* The steps before the swap.
LEMMA BeforeSwap ==
    ASSUME CopyInv, TInv',
           \/ \E z \in Zones : remote_serial(z) \/ remote_serial_fails(z)
           \/ compare \/ CleanRestart
           \/ axfr_soa("agent") \/ axfr_records("agent") \/ axfr_fails("agent")
           \/ axfr_lookup("agent")
    PROVE  CopyInv' /\ UNCHANGED contents
<1> DEFINE q == pull["agent"]
<1>0. TInv /\ PublishedOK /\ RowsOK /\ CarriedOK
  BY Zenon DEF CopyInv
<1>1. /\ "agent" \in Pullers /\ pull \in [Pullers -> Record] /\ StageOK("agent")
      /\ zoneRow \in [Ids -> [zone: Zones, serial: Serials] \cup {None}]
      /\ contents \in [Ids -> Versions \cup {None}]
      /\ nameIdx \in [Zones -> Ids \cup {None}]
      /\ version \in [Zones -> Versions] /\ Versions \subseteq Nat
  BY Zenon, <1>0, CopyTypes
<1>2. UNCHANGED <<primaryVars, dbVars>> /\ q.stage # "upserted"
  <2>1. UNCHANGED <<primaryVars, dbVars>>
    BY Zenon DEF remote_serial, remote_serial_fails, compare, CleanRestart, SecondaryRestart,
           axfr_soa, axfr_records, axfr_fails, axfr_lookup
  <2>2. q.stage # "upserted"
    <3>1. Idle.stage # "upserted"
      BY Zenon DEF Idle
    <3>2. CASE CleanRestart
      BY Zenon, <1>1, <3>2 DEF CleanRestart, MidSwap
    <3>3. CASE \E z \in Zones : remote_serial(z) \/ remote_serial_fails(z)
      BY <3>1, <3>3, Zenon DEF remote_serial, remote_serial_fails
    <3>4. CASE \/ compare \/ axfr_soa("agent") \/ axfr_records("agent")
               \/ axfr_fails("agent") \/ axfr_lookup("agent")
      BY Zenon, <3>4 DEF compare, axfr_soa, axfr_records, axfr_fails, axfr_lookup
    <3> QED BY Zenon, <3>2, <3>3, <3>4
  <2> QED BY Zenon, <2>1, <2>2
<1>3. CASE \/ \E z \in Zones : remote_serial(z) \/ remote_serial_fails(z)
           \/ compare \/ CleanRestart \/ axfr_soa("agent") \/ axfr_fails("agent")
  <2>1. pull'["agent"].stage \in {"idle", "asked", "connect", "soa"}
    <3>1. CASE \E z \in Zones : remote_serial(z)
      BY <1>1, <3>1, Zenon DEF remote_serial, Idle
    <3>2. CASE \E z \in Zones : remote_serial_fails(z)
      BY <1>1, <3>2 DEF remote_serial_fails, Finish, Idle
    <3>3. CASE compare
      BY <1>1, <3>3 DEF compare, Finish, Idle, Record
    <3>4. CASE CleanRestart
      BY Zenon, <1>1, <3>4 DEF CleanRestart, SecondaryRestart, Idle
    <3>5. CASE axfr_soa("agent")
      BY <1>1, <3>5 DEF axfr_soa, Record
    <3>6. CASE axfr_fails("agent")
      BY Zenon, <1>1, <3>6 DEF axfr_fails, Finish, Idle
    <3> QED BY Zenon, <1>3, <3>1, <3>2, <3>3, <3>4, <3>5, <3>6
  <2>2. CarriedOK'
    BY Zenon, <2>1 DEF CarriedOK
  <2> QED BY Zenon, <1>2, <2>2, TablesUntouched
<1>4. CASE axfr_records("agent")
  <2>1. /\ q.zone \in Zones /\ q.serial \in Serials
        /\ pull'["agent"] = [q EXCEPT !.stage = "got", !.version = version[q.zone]]
    BY Zenon, <1>1, <1>4 DEF axfr_records, StageOK
  <2>2. /\ pull'["agent"].stage = "got" /\ pull'["agent"].zone = q.zone
        /\ pull'["agent"].serial = q.serial /\ pull'["agent"].version = version[q.zone]
    BY <1>1, <2>1 DEF Record
  <2>3. /\ published[q.zone][q.serial] <= version[q.zone]
        /\ version[q.zone] <= version[q.zone]
        /\ \A i \in Ids : HeldFor(q.zone, i) => contents[i] <= version[q.zone]
    BY <1>0, <1>1, <2>1 DEF PublishedOK, RowsOK, HeldFor
  <2>4. CarriedOK'
    BY Zenon, <1>2, <2>2, <2>3 DEF CarriedOK, HeldFor, primaryVars, dbVars
  <2> QED BY Zenon, <1>2, <2>4, TablesUntouched
<1>5. CASE axfr_lookup("agent")
  <2>1. q.stage = "got" /\ q.zone \in Zones
    BY <1>1, <1>5, Zenon DEF axfr_lookup, StageOK
  <2>2. PICK i \in Ids :
             /\ pull' = [pull EXCEPT !["agent"].stage = "found", !["agent"].id = i]
             /\ zoneRow[i] = None \/ i = nameIdx[q.zone]
    BY <1>1, <1>5, <2>1, Zenon DEF axfr_lookup, FreshIds
  <2>3. /\ pull'["agent"].stage = "found" /\ pull'["agent"].zone = q.zone
        /\ pull'["agent"].serial = q.serial /\ pull'["agent"].version = q.version
        /\ pull'["agent"].id = i
    <3>1. q \in Record
      BY Zenon, <1>1
    <3> DEFINE r == [q EXCEPT !.stage = "found", !.id = i]
    <3>2. pull' = [pull EXCEPT !["agent"] = r]
      BY <1>1, <2>2, Zenon
    <3>3. pull'["agent"] = r
      BY Zenon, <1>1, <3>2
    <3> QED BY Zenon, <3>1, <3>3 DEF Record
  <2>4. zoneRow[i] # None => zoneRow[i].zone = q.zone
    BY <1>0, <1>1, <2>1, <2>2, TransferAssumption DEF RowsOK
  <2>5. CarriedOK'
    BY Zenon, <1>0, <1>2, <2>1, <2>3, <2>4 DEF CarriedOK, HeldFor, primaryVars, dbVars
  <2> QED BY Zenon, <1>2, <2>5, TablesUntouched
<1> QED BY Zenon, <1>3, <1>4, <1>5

\* The first half of the swap: the row takes its new serial, and until the
\* second half is the one row that may lag behind it.
LEMMA UpsertKeepsCopy ==
    ASSUME CopyInv, TInv', upsert_zone("agent")
    PROVE  CopyInv' /\ UNCHANGED contents
<1> DEFINE q == pull["agent"]
<1>0. TInv /\ PublishedOK /\ RowsOK /\ CarriedOK
  BY Zenon DEF CopyInv
<1>1. /\ "agent" \in Pullers /\ pull \in [Pullers -> Record] /\ StageOK("agent")
      /\ zoneRow \in [Ids -> [zone: Zones, serial: Serials] \cup {None}]
      /\ contents \in [Ids -> Versions \cup {None}]
      /\ nameIdx \in [Zones -> Ids \cup {None}]
  BY Zenon, <1>0, CopyTypes
<1>2. /\ q.stage = "found" /\ q.zone \in Zones /\ q.id \in Ids /\ q.serial \in Serials
      /\ q.serial <= serial[q.zone]
      /\ zoneRow[q.id] # None => zoneRow[q.id].zone = q.zone
      /\ q.version <= version[q.zone] /\ published[q.zone][q.serial] <= q.version
      /\ \A i \in Ids : HeldFor(q.zone, i) => contents[i] <= q.version
  BY Zenon, <1>0, <1>1 DEF upsert_zone, StageOK, CarriedOK
<1>3. /\ UNCHANGED <<primaryVars, contents>>
      /\ pull'["agent"].stage = "upserted" /\ pull'["agent"].zone = q.zone
      /\ pull'["agent"].serial = q.serial /\ pull'["agent"].version = q.version
      /\ pull'["agent"].id = q.id
  BY Zenon, <1>1 DEF upsert_zone, Record
<1>4. /\ zoneRow'[q.id] = [zone |-> q.zone, serial |-> q.serial]
      /\ \A i \in Ids : i # q.id => zoneRow'[i] = zoneRow[i]
      /\ nameIdx'[q.zone] = q.id
      /\ \A z \in Zones : z # q.zone => nameIdx'[z] = nameIdx[z]
  BY Zenon, <1>1, <1>2 DEF upsert_zone
<1>5. zoneRow'[q.id] # None /\ zoneRow'[q.id].zone = q.zone /\ zoneRow'[q.id].serial = q.serial
  BY <1>2, <1>4, TransferAssumption
<1>6. RowsOK'
  <2>1. ASSUME NEW z \in Zones, nameIdx'[z] # None
        PROVE  zoneRow'[nameIdx'[z]] # None /\ zoneRow'[nameIdx'[z]].zone = z
    <3>1. CASE z = q.zone
      BY Zenon, <1>4, <1>5, <3>1
    <3>2. CASE z # q.zone
      <4>1. nameIdx'[z] = nameIdx[z] /\ nameIdx[z] \in Ids
        BY Zenon, <1>1, <1>4, <2>1, <3>2
      <4>2. zoneRow[nameIdx[z]] # None /\ zoneRow[nameIdx[z]].zone = z
        BY Zenon, <1>0, <2>1, <4>1 DEF RowsOK
      <4>3. nameIdx[z] # q.id
        BY Zenon, <1>2, <3>2, <4>2
      <4> QED BY Zenon, <1>4, <4>1, <4>2, <4>3
    <3> QED BY Zenon, <3>1, <3>2
  <2>2. ASSUME NEW i \in Ids, i # q.id
        PROVE  /\ zoneRow'[i] = None => contents'[i] = None
               /\ zoneRow'[i] # None =>
                     /\ zoneRow'[i].serial <= serial'[zoneRow'[i].zone]
                     /\ contents'[i] # None => contents'[i] <= version'[zoneRow'[i].zone]
                     /\ contents'[i] # None
                     /\ published'[zoneRow'[i].zone][zoneRow'[i].serial] <= contents'[i]
    BY Zenon, <1>0, <1>2, <1>3, <1>4, <2>2 DEF RowsOK, primaryVars
  <2>3. contents[q.id] # None => contents[q.id] <= version[q.zone]
    BY Zenon, <1>0, <1>2 DEF RowsOK
  <2> QED BY Zenon, <1>2, <1>3, <1>5, <2>1, <2>2, <2>3 DEF RowsOK, primaryVars
<1>7. CarriedOK'
  <2>1. ASSUME NEW i \in Ids, HeldFor(q.zone, i)' PROVE contents[i] <= q.version
    <3>1. contents[i] # None
      BY Zenon, <1>3, <2>1 DEF HeldFor
    <3>2. zoneRow[i] # None
      BY Zenon, <1>0, <3>1 DEF RowsOK
    <3>3. zoneRow[i].zone = q.zone
      <4>1. CASE i = q.id
        BY Zenon, <1>2, <3>2, <4>1
      <4>2. CASE i # q.id
        BY Zenon, <1>3, <1>4, <2>1, <4>2 DEF HeldFor
      <4> QED BY Zenon, <4>1, <4>2
    <3> QED BY Zenon, <1>2, <3>1, <3>2, <3>3 DEF HeldFor
  <2> QED BY <1>2, <1>3, <1>4, <2>1, Zenon DEF CarriedOK, HeldFor, primaryVars
<1>8. PublishedOK'
  BY Zenon, <1>0, <1>3 DEF PublishedOK, primaryVars
<1> QED BY Zenon, <1>3, <1>6, <1>7, <1>8 DEF CopyInv

\* The second half: the row holds what its serial promises, and nothing older
\* than it held before.
LEMMA ReplaceKeepsCopy ==
    ASSUME CopyInv, TInv', replace_zone_records("agent")
    PROVE  /\ CopyInv'
           /\ \A i \in Ids : contents[i] # None =>
                  contents'[i] # None /\ contents[i] <= contents'[i]
<1> DEFINE q == pull["agent"]
<1>0. TInv /\ PublishedOK /\ RowsOK /\ CarriedOK
  BY Zenon DEF CopyInv
<1>1. /\ "agent" \in Pullers /\ pull \in [Pullers -> Record] /\ StageOK("agent")
      /\ zoneRow \in [Ids -> [zone: Zones, serial: Serials] \cup {None}]
      /\ contents \in [Ids -> Versions \cup {None}]
      /\ Versions \subseteq Nat /\ None \notin Nat
  BY Zenon, <1>0, CopyTypes
<1>2. /\ q.stage = "upserted" /\ q.zone \in Zones /\ q.id \in Ids /\ q.serial \in Serials
      /\ q.version \in Versions
      /\ zoneRow[q.id] = [zone |-> q.zone, serial |-> q.serial]
      /\ q.version <= version[q.zone] /\ published[q.zone][q.serial] <= q.version
      /\ \A i \in Ids : HeldFor(q.zone, i) => contents[i] <= q.version
  BY Zenon, <1>0, <1>1 DEF replace_zone_records, StageOK, CarriedOK
<1>3. /\ UNCHANGED <<primaryVars, zoneRow, nameIdx>>
      /\ pull'["agent"].stage = "idle"
  BY Zenon, <1>1 DEF replace_zone_records, Finish, Idle
<1>4. /\ contents'[q.id] = q.version /\ contents'[q.id] # None
      /\ \A i \in Ids : i # q.id => contents'[i] = contents[i]
  BY <1>1, <1>2, Zenon DEF replace_zone_records
<1>5. zoneRow[q.id] # None /\ zoneRow[q.id].zone = q.zone /\ zoneRow[q.id].serial = q.serial
  BY <1>2, TransferAssumption
<1>6. RowsOK'
  <2>1. ASSUME NEW i \in Ids, i # q.id
        PROVE  /\ zoneRow[i] = None => contents'[i] = None
               /\ zoneRow[i] # None =>
                     /\ contents'[i] # None => contents'[i] <= version[zoneRow[i].zone]
                     /\ contents'[i] # None
                     /\ published[zoneRow[i].zone][zoneRow[i].serial] <= contents'[i]
    BY <1>0, <1>2, <1>4, <2>1, Zenon DEF RowsOK
  <2>2. /\ \A z \in Zones : nameIdx[z] # None =>
               zoneRow[nameIdx[z]] # None /\ zoneRow[nameIdx[z]].zone = z
        /\ \A i \in Ids : zoneRow[i] # None =>
               zoneRow[i].serial <= serial[zoneRow[i].zone]
    BY Zenon, <1>0 DEF RowsOK
  <2> QED BY <1>2, <1>3, <1>4, <1>5, <2>1, <2>2, Zenon DEF RowsOK, primaryVars
<1>7. CarriedOK' /\ PublishedOK'
  BY <1>0, <1>3, Zenon DEF CarriedOK, PublishedOK, primaryVars
<1>8. ASSUME NEW i \in Ids, contents[i] # None
      PROVE  contents'[i] # None /\ contents[i] <= contents'[i]
  <2>1. contents[i] \in Nat
    BY Zenon, <1>1, <1>8
  <2>2. CASE i = q.id
    BY <1>2, <1>4, <1>5, <1>8, <2>2, Zenon DEF HeldFor
  <2>3. CASE i # q.id
    BY <1>4, <1>8, <2>1, <2>3
  <2> QED BY Zenon, <2>2, <2>3
<1> QED BY Zenon, <1>6, <1>7, <1>8 DEF CopyInv

LEMMA CopyStart == Init => CopyInv
<1> SUFFICES ASSUME Init PROVE CopyInv
  BY Zenon
<1>1. TInv
  BY Zenon, TypeStart
<1>2. PublishedOK /\ RowsOK
  BY DEF Init, PublishedOK, RowsOK
<1>3. CarriedOK
  BY Zenon, TransferAssumption DEF Init, CarriedOK, Idle
<1> QED BY Zenon, <1>1, <1>2, <1>3 DEF CopyInv

\* Every step, when only the agent pulls and no swap is cut in two.
LEMMA CopyStep ==
    ASSUME Pullers = {"agent"}, CopyInv, [UncutNext]_vars
    PROVE  /\ CopyInv'
           /\ \A i \in Ids : contents[i] # None =>
                  contents'[i] # None /\ contents[i] <= contents'[i]
<1>1. TInv'
  BY Zenon, TypeStep DEF CopyInv, UncutNext, Next, CleanRestart
<1>2. ASSUME UNCHANGED contents, NEW i \in Ids, contents[i] # None
      PROVE  contents'[i] # None /\ contents[i] <= contents'[i]
  <2>1. contents \in [Ids -> Versions \cup {None}] /\ Versions \subseteq Nat
    BY Zenon, CopyTypes DEF CopyInv
  <2>2. contents[i] \in Nat
    BY <1>2, <2>1, Zenon
  <2> QED BY <1>2, <2>2
<1>3. CASE UNCHANGED <<pull, primaryVars, dbVars>>
  BY Zenon, <1>1, <1>2, <1>3 DEF CopyInv, PublishedOK, RowsOK, CarriedOK, HeldFor, primaryVars, dbVars
<1>4. CASE \E z \in Zones : PrimaryStep(z)
  BY Zenon, <1>2, <1>4, PrimaryKeepsCopy
<1>5. CASE \/ \E z \in Zones : remote_serial(z) \/ remote_serial_fails(z)
           \/ compare \/ CleanRestart
           \/ axfr_soa("agent") \/ axfr_records("agent") \/ axfr_fails("agent")
           \/ axfr_lookup("agent")
  BY Zenon, <1>1, <1>2, <1>5, BeforeSwap
<1>6. CASE upsert_zone("agent")
  BY Zenon, <1>1, <1>2, <1>6, UpsertKeepsCopy
<1>7. CASE replace_zone_records("agent")
  BY Zenon, <1>1, <1>7, ReplaceKeepsCopy
<1>8. CASE UNCHANGED vars
  BY Zenon, <1>3, <1>8 DEF vars
<1>9. CASE \/ TakeNotifies \/ TakeDue \/ \E z \in Zones : RefreshElapses(z)
           \/ \E S \in SUBSET Zones : ApplySettings(S)
  BY Zenon, <1>3, <1>9 DEF TakeNotifies, TakeDue, RefreshElapses, ApplySettings
<1>10. ASSUME NEW p \in Pullers, NEW z \in Zones PROVE ~transfer_zone(p, z)
  BY Zenon, <1>10 DEF transfer_zone
<1>11. CASE \E p \in Pullers : PullStep(p)
  BY Zenon, <1>5, <1>6, <1>7, <1>11 DEF PullStep
<1>12. CASE Common
  BY Zenon, <1>4, <1>5, <1>9, <1>10, <1>11, <1>12 DEF Common, AgentStep, PrimaryStep
<1> QED BY Zenon, <1>4, <1>5, <1>8, <1>12 DEF UncutNext, PrimaryStep

\* Mirroring is honest and monotone: when only the agent pulls and no swap is
\* cut in two by a crash, the copy held under a serial always has what the
\* primary had when it took that serial, and never goes back, whatever the
\* primary's writers and crashes, lost messages and edited settings do.
THEOREM MirrorHonest ==
    Pullers = {"agent"} /\ UncutSpec => []HonestSerial /\ NeverBackwards
<1> SUFFICES ASSUME Pullers = {"agent"} PROVE UncutSpec => []HonestSerial /\ NeverBackwards
  BY Zenon
<1> DEFINE Kept == \A i \in Ids : contents[i] # None =>
                       contents'[i] # None /\ contents[i] <= contents'[i]
<1>1. CopyInv => HonestSerial
  BY Zenon DEF CopyInv, RowsOK, HonestSerial, MidSwap
<1>2. CopyInv /\ [UncutNext]_vars => CopyInv'
  BY Zenon, CopyStep
<1>3. CopyInv /\ [UncutNext]_vars => [Kept]_vars
  BY Zenon, CopyStep
<1> QED BY <1>1, <1>2, <1>3, CopyStart, PTL DEF UncutSpec, NeverBackwards

\* With no writer between change and bump, the last serial stands for all the
\* primary has.
BumpedOK ==
    \A z \in Zones : unbumped[z] = 0 => published[z][serial[z]] = version[z]

\* The health check of the manual is sound: when every writer bumps and no
\* crash cuts a change or a swap in two, equal serials mean an equal zone.
THEOREM HealthCheck ==
    Pullers = {"agent"} /\ TidySpec => []SerialTellsAll
<1> SUFFICES ASSUME Pullers = {"agent"} PROVE TidySpec => []SerialTellsAll
  BY Zenon
<1>1. Init => CopyInv /\ BumpedOK
  BY CopyStart, TransferAssumption DEF Init, BumpedOK, Serials
<1>2. CopyInv /\ [TidyNext]_vars => CopyInv'
  BY Zenon, CopyStep DEF TidyNext, UncutNext, CleanPrimaryRestart
<1>3. CopyInv /\ BumpedOK /\ [TidyNext]_vars => BumpedOK'
  <2> SUFFICES ASSUME CopyInv, BumpedOK, [TidyNext]_vars PROVE BumpedOK'
    BY Zenon
  <2>1. /\ serial \in [Zones -> Serials] /\ version \in [Zones -> Versions]
        /\ published \in [Zones -> [Serials -> Versions]]
        /\ unbumped \in [Zones -> Versions] /\ Versions \subseteq Nat
        /\ serial' \in [Zones -> Serials]
    BY Zenon, <1>2, CopyTypes DEF CopyInv, TInv, TypeOK
  <2>2. ASSUME NEW z \in Zones, Change(z) PROVE BumpedOK'
    <3>1. \A y \in Zones : unbumped'[y] = 0 =>
              y # z /\ unbumped[y] = 0 /\ version'[y] = version[y]
      <4>1. \A y \in Zones : unbumped[y] \in Nat
        BY Zenon, Numbers DEF CopyInv
      <4>2. /\ unbumped'[z] = unbumped[z] + 1
            /\ \A y \in Zones : y # z => /\ unbumped'[y] = unbumped[y]
                                        /\ version'[y] = version[y]
        BY Zenon, <2>1, <2>2 DEF Change
      <4> QED BY <4>1, <4>2
    <3> QED BY Zenon, <2>2, <3>1 DEF BumpedOK, Change
  <2>3. ASSUME NEW z \in Zones, increment_soa_serial(z) PROVE BumpedOK'
    BY Zenon, <2>1, <2>3 DEF BumpedOK, increment_soa_serial
  <2>4. ASSUME NEW z \in Zones, CleanPrimaryRestart(z) PROVE BumpedOK'
    BY Zenon, <2>1, <2>4 DEF BumpedOK, CleanPrimaryRestart, PrimaryRestart
  <2>5. CASE UNCHANGED <<version, serial, published, unbumped>>
    BY Zenon, <2>5 DEF BumpedOK
  <2>6. CASE CleanRestart \/ UNCHANGED vars
    BY Zenon, <2>5, <2>6 DEF CleanRestart, SecondaryRestart, vars, primaryVars
  <2>7. CASE Common
    BY <2>2, <2>3, <2>5, <2>7, Zenon
       DEF Common, AgentStep, PullStep, TakeNotifies, TakeDue, compare, RefreshElapses,
           remote_serial, remote_serial_fails, axfr_soa, axfr_records, axfr_fails,
           axfr_lookup, upsert_zone, replace_zone_records, transfer_zone, notify_zone,
           ApplySettings, primaryVars
  <2> QED BY Zenon, <2>4, <2>6, <2>7 DEF TidyNext
<1>4. CopyInv /\ BumpedOK => SerialTellsAll
  <2> SUFFICES ASSUME CopyInv, BumpedOK, NEW z \in Zones, pull["agent"] = Idle,
                      unbumped[z] = 0, LocalSerial(z) = serial[z]
               PROVE  contents[nameIdx[z]] = version[z]
    BY Zenon DEF SerialTellsAll
  <2> DEFINE i == nameIdx[z]
  <2>1. /\ serial[z] \in Nat /\ version[z] \in Nat /\ i \in Ids \cup {None}
        /\ contents \in [Ids -> Versions \cup {None}] /\ Versions \subseteq Nat
        /\ None \notin Nat
    BY Zenon, CopyTypes DEF CopyInv
  <2>2. i \in Ids /\ zoneRow[i].serial = serial[z]
    BY Zenon, <2>1 DEF LocalSerial
  <2>3. zoneRow[i] # None /\ zoneRow[i].zone = z
    BY <2>1, <2>2, TransferAssumption, Zenon DEF CopyInv, RowsOK
  <2>4. /\ contents[i] # None /\ contents[i] <= version[z]
        /\ published[z][serial[z]] <= contents[i]
    <3>1. RowsOK /\ pull["agent"].stage # "upserted"
      BY DEF CopyInv, Idle
    <3>2. /\ contents[i] # None => contents[i] <= version[zoneRow[i].zone]
          /\ contents[i] # None
          /\ published[zoneRow[i].zone][zoneRow[i].serial] <= contents[i]
      BY Zenon, <2>2, <2>3, <3>1 DEF RowsOK
    <3> QED BY Zenon, <2>2, <2>3, <3>2
  <2>5. published[z][serial[z]] = version[z]
    BY Zenon DEF BumpedOK
  <2>6. contents[i] \in Nat
    BY <2>1, <2>2, <2>4, Zenon
  <2> QED BY <2>1, <2>4, <2>5, <2>6
<1> QED BY <1>1, <1>2, <1>3, <1>4, PTL DEF TidySpec

-----------------------------------------------------------------------------
(* A zone that is served stays served, whoever pulls.                      *)

Storing(p) == pull[p].stage \in {"found", "upserted"}

\* An id belongs to one zone: names lead to rows of that name, and a puller
\* stores under an id that has no row or one of its zone, and that no other
\* puller has for another zone.
IdsApart ==
    /\ \A z \in Zones : nameIdx[z] # None =>
           zoneRow[nameIdx[z]] # None /\ zoneRow[nameIdx[z]].zone = z
    /\ \A p \in Pullers : Storing(p) /\ zoneRow[pull[p].id] # None =>
           zoneRow[pull[p].id].zone = pull[p].zone
    /\ \A p, o \in Pullers : Storing(p) /\ Storing(o) /\ pull[p].id = pull[o].id =>
           pull[p].zone = pull[o].zone

\* Steps other than the look-up and the first half of a swap: no row and no name
\* changes, and whoever is about to store was so before.
LEMMA NoNewStore ==
    ASSUME IdsApart, UNCHANGED <<zoneRow, nameIdx>>,
           \A o \in Pullers : Storing(o)' => Storing(o) /\ pull'[o] = pull[o]
    PROVE  IdsApart'
BY DEF IdsApart, Storing

LEMMA StoringTypes ==
    ASSUME TInv
    PROVE  /\ pull \in [Pullers -> Record]
           /\ zoneRow \in [Ids -> [zone: Zones, serial: Serials] \cup {None}]
           /\ contents \in [Ids -> Versions \cup {None}]
           /\ nameIdx \in [Zones -> Ids \cup {None}]
           /\ None \notin [zone: Zones, serial: Serials] /\ None \notin Versions
           /\ "agent" \in Pullers /\ Idle.stage = "idle"
           /\ \A p \in Pullers : Storing(p) => /\ pull[p].id \in Ids /\ pull[p].zone \in Zones
                                               /\ pull[p].serial \in Serials /\ pull[p].version \in Versions
BY TransferAssumption DEF TInv, TypeOK, PullsOK, StageOK, Storing, Record, Versions, Idle

\* A puller that goes back to idle, or on to a stage before the look-up.
LEMMA EarlyStage ==
    ASSUME TInv, NEW p \in Pullers, NEW r, pull' = [pull EXCEPT ![p] = r],
           r.stage \notin {"found", "upserted"}
    PROVE  \A o \in Pullers : Storing(o)' => Storing(o) /\ pull'[o] = pull[o]
BY Zenon, StoringTypes DEF Storing

Swaps == \E p \in Pullers : axfr_lookup(p) \/ upsert_zone(p) \/ replace_zone_records(p)

LEMMA BesideSwaps ==
    ASSUME TInv, [Next]_vars, ~Swaps
    PROVE  /\ UNCHANGED dbVars
           /\ \A o \in Pullers : Storing(o)' => Storing(o) /\ pull'[o] = pull[o]
<1>1. pull \in [Pullers -> Record] /\ "agent" \in Pullers /\ Idle.stage = "idle"
  BY Zenon, StoringTypes
<1>2. CASE UNCHANGED <<pull, dbVars>>
  BY Zenon, <1>2 DEF Storing
<1>3. ASSUME NEW p \in Pullers, NEW z, Finish(p, z), UNCHANGED dbVars
      PROVE  \A o \in Pullers : Storing(o)' => Storing(o) /\ pull'[o] = pull[o]
  BY <1>1, <1>3, EarlyStage, Zenon DEF Finish
<1>4. ASSUME NEW z \in Zones, remote_serial(z) \/ remote_serial_fails(z)
      PROVE  /\ UNCHANGED dbVars
             /\ \A o \in Pullers : Storing(o)' => Storing(o) /\ pull'[o] = pull[o]
  <2>1. CASE remote_serial(z)
    <3> DEFINE r == [Idle EXCEPT !.stage = "asked", !.zone = z, !.serial = serial[z]]
    <3>1. r.stage = "asked"
      BY Zenon DEF Idle
    <3>2. pull' = [pull EXCEPT !["agent"] = r] /\ UNCHANGED dbVars
      BY Zenon, <2>1 DEF remote_serial
    <3> HIDE DEF r
    <3> QED BY Zenon, <1>1, <3>1, <3>2, EarlyStage
  <2>2. CASE remote_serial_fails(z)
    BY Zenon, <1>1, <1>3, <2>2 DEF remote_serial_fails
  <2> QED BY Zenon, <1>4, <2>1, <2>2
<1>5. ASSUME compare
      PROVE  /\ UNCHANGED dbVars
             /\ \A o \in Pullers : Storing(o)' => Storing(o) /\ pull'[o] = pull[o]
  <2>1. UNCHANGED dbVars
    BY Zenon, <1>5 DEF compare
  <2>2. CASE Finish("agent", pull["agent"].zone)
    BY Zenon, <1>1, <1>3, <2>1, <2>2
  <2>3. CASE pull' = [pull EXCEPT !["agent"].stage = "connect", !["agent"].serial = None]
    <3>1. pull'["agent"].stage = "connect" /\ \A o \in Pullers \ {"agent"} : pull'[o] = pull[o]
      BY Zenon, <1>1, <2>3 DEF Record
    <3> QED BY Zenon, <2>1, <3>1 DEF Storing
  <2> QED BY Zenon, <1>5, <2>1, <2>2, <2>3 DEF compare
<1>6. ASSUME NEW p \in Pullers, NEW z \in Zones, transfer_zone(p, z)
      PROVE  /\ UNCHANGED dbVars
             /\ \A o \in Pullers : Storing(o)' => Storing(o) /\ pull'[o] = pull[o]
  <2> DEFINE r == [Idle EXCEPT !.stage = "connect", !.zone = z]
  <2>1. r.stage = "connect"
    BY Zenon DEF Idle
  <2>2. pull' = [pull EXCEPT ![p] = r] /\ UNCHANGED dbVars
    BY Zenon, <1>6 DEF transfer_zone
  <2> HIDE DEF r
  <2> QED BY Zenon, <1>6, <2>1, <2>2, EarlyStage
<1>7. ASSUME NEW p \in Pullers, axfr_soa(p) \/ axfr_records(p) \/ axfr_fails(p)
      PROVE  /\ UNCHANGED dbVars
             /\ \A o \in Pullers : Storing(o)' => Storing(o) /\ pull'[o] = pull[o]
  <2>1. UNCHANGED dbVars
    BY Zenon, <1>7 DEF axfr_soa, axfr_records, axfr_fails
  <2>2. CASE axfr_soa(p) \/ axfr_records(p)
    <3>1. pull'[p].stage \in {"soa", "got"} /\ \A o \in Pullers \ {p} : pull'[o] = pull[o]
      BY <1>1, <1>7, <2>2 DEF axfr_soa, axfr_records, Record
    <3> QED BY Zenon, <2>1, <3>1 DEF Storing
  <2>3. CASE axfr_fails(p)
    BY Zenon, <1>3, <1>7, <2>1, <2>3 DEF axfr_fails
  <2> QED BY Zenon, <1>7, <2>2, <2>3
<1>8. CASE SecondaryRestart
  BY Zenon, <1>1, <1>8 DEF SecondaryRestart, Storing
<1>9. CASE TakeNotifies \/ TakeDue \/ (\E z \in Zones : RefreshElapses(z)) \/ (\E S \in SUBSET Zones : ApplySettings(S))
  BY Zenon, <1>2, <1>9 DEF TakeNotifies, TakeDue, RefreshElapses, ApplySettings
<1>10. CASE \E z \in Zones : PrimaryStep(z)
  BY Zenon, <1>2, <1>10 DEF PrimaryStep, Change, QuietChange, increment_soa_serial, notify_zone, PrimaryRestart,
                     PowerLoss
<1>11. CASE UNCHANGED vars
  BY Zenon, <1>2, <1>11 DEF vars
<1> QED BY <1>4, <1>5, <1>6, <1>7, <1>8, <1>9, <1>10, <1>11, Zenon
        DEF Next, Common, AgentStep, PullStep, PrimaryStep, Swaps

LEMMA LookupApart == ASSUME TInv, IdsApart, NEW p \in Pullers, axfr_lookup(p) PROVE IdsApart'
<1>1. /\ pull \in [Pullers -> Record] /\ UNCHANGED <<zoneRow, nameIdx>>
      /\ pull[p].zone \in Zones
  BY Zenon, StoringTypes DEF axfr_lookup, dbVars, TInv, PullsOK, StageOK
<1>2. PICK i \in (IF nameIdx[pull[p].zone] = None THEN FreshIds ELSE {nameIdx[pull[p].zone]}) :
          pull' = [pull EXCEPT ![p].stage = "found", ![p].id = i]
  BY Zenon DEF axfr_lookup
<1>3. /\ pull'[p].id = i /\ pull'[p].zone = pull[p].zone
      /\ \A o \in Pullers \ {p} : pull'[o] = pull[o]
  BY <1>1, <1>2 DEF Record
<1>4. zoneRow[i] # None => zoneRow[i].zone = pull[p].zone
  BY Zenon, <1>1, <1>2 DEF IdsApart, FreshIds
<1>5. ASSUME NEW o \in Pullers \ {p}, Storing(o), pull[o].id = i PROVE pull[o].zone = pull[p].zone
  BY <1>1, <1>2, <1>5 DEF IdsApart, FreshIds
<1>6. \A o \in Pullers \ {p} : Storing(o)' <=> Storing(o)
  BY Zenon, <1>3 DEF Storing
<1> QED BY <1>1, <1>3, <1>4, <1>5, <1>6 DEF IdsApart

\* The row that a puller writes was none, or of the same zone.
LEMMA UpsertFacts ==
    ASSUME TInv, IdsApart, NEW p \in Pullers, upsert_zone(p)
    PROVE  /\ UNCHANGED contents /\ Storing(p) /\ pull[p].id \in Ids /\ pull[p].zone \in Zones
           /\ zoneRow'[pull[p].id] # None /\ zoneRow'[pull[p].id].zone = pull[p].zone
           /\ \A i \in Ids \ {pull[p].id} : zoneRow'[i] = zoneRow[i]
           /\ nameIdx'[pull[p].zone] = pull[p].id
           /\ \A z \in Zones \ {pull[p].zone} : nameIdx'[z] = nameIdx[z]
           /\ \A o \in Pullers : (Storing(o)' <=> Storing(o)) /\ pull'[o].id = pull[o].id
                                 /\ pull'[o].zone = pull[o].zone
<1>1. Storing(p)
  BY Zenon DEF upsert_zone, Storing
<1>2. pull[p].id \in Ids /\ pull[p].zone \in Zones /\ pull[p].serial \in Serials
  BY Zenon, <1>1, StoringTypes
<1>3. [zone |-> pull[p].zone, serial |-> pull[p].serial] # None
  BY <1>2, StoringTypes
<1>4. /\ zoneRow' = [zoneRow EXCEPT ![pull[p].id] = [zone |-> pull[p].zone, serial |-> pull[p].serial]]
      /\ nameIdx' = [nameIdx EXCEPT ![pull[p].zone] = pull[p].id]
      /\ UNCHANGED contents
  BY Zenon DEF upsert_zone
<1>5. /\ zoneRow'[pull[p].id] # None /\ zoneRow'[pull[p].id].zone = pull[p].zone
      /\ \A i \in Ids \ {pull[p].id} : zoneRow'[i] = zoneRow[i]
  BY Zenon, <1>2, <1>3, <1>4, StoringTypes
<1>6. /\ nameIdx'[pull[p].zone] = pull[p].id
      /\ \A z \in Zones \ {pull[p].zone} : nameIdx'[z] = nameIdx[z]
  BY Zenon, <1>2, <1>4, StoringTypes
<1>7. \A o \in Pullers : (Storing(o)' <=> Storing(o)) /\ pull'[o].id = pull[o].id
                         /\ pull'[o].zone = pull[o].zone
  BY <1>1, StoringTypes DEF upsert_zone, Record, Storing
<1> QED BY Zenon, <1>1, <1>2, <1>4, <1>5, <1>6, <1>7

LEMMA UpsertApart == ASSUME TInv, IdsApart, NEW p \in Pullers, upsert_zone(p) PROVE IdsApart'
<1>1. nameIdx \in [Zones -> Ids \cup {None}] /\ \A o \in Pullers : Storing(o) => pull[o].id \in Ids
  BY Zenon, StoringTypes
<1>2. ASSUME NEW z \in Zones, nameIdx'[z] # None
      PROVE  zoneRow'[nameIdx'[z]] # None /\ zoneRow'[nameIdx'[z]].zone = z
  BY <1>1, <1>2, UpsertFacts DEF IdsApart
<1>3. ASSUME NEW o \in Pullers, Storing(o)', zoneRow'[pull'[o].id] # None
      PROVE  zoneRow'[pull'[o].id].zone = pull'[o].zone
  BY <1>1, <1>3, UpsertFacts DEF IdsApart
<1>4. ASSUME NEW s \in Pullers, NEW o \in Pullers, Storing(s)', Storing(o)', pull'[s].id = pull'[o].id
      PROVE  pull'[s].zone = pull'[o].zone
  BY <1>4, UpsertFacts DEF IdsApart
<1> QED BY Zenon, <1>2, <1>3, <1>4 DEF IdsApart

LEMMA ReplaceFacts ==
    ASSUME TInv, NEW p \in Pullers, replace_zone_records(p)
    PROVE  /\ UNCHANGED <<zoneRow, nameIdx>>
           /\ \A i \in Ids : contents[i] # None => contents'[i] # None
           /\ \A o \in Pullers : Storing(o)' => Storing(o) /\ pull'[o] = pull[o]
<1>1. Storing(p) /\ UNCHANGED <<zoneRow, nameIdx>> /\ pull' = [pull EXCEPT ![p] = Idle]
      /\ contents' = [contents EXCEPT ![pull[p].id] = pull[p].version]
  BY Zenon DEF replace_zone_records, Finish, Storing
<1>2. pull[p].version # None
  BY Zenon, <1>1, StoringTypes
<1>3. \A i \in Ids : contents[i] # None => contents'[i] # None
  BY Zenon, <1>1, <1>2, StoringTypes
<1>4. \A o \in Pullers : Storing(o)' => Storing(o) /\ pull'[o] = pull[o]
  BY Zenon, <1>1, StoringTypes, EarlyStage
<1> QED BY Zenon, <1>1, <1>3, <1>4

LEMMA ApartStep == TInv /\ IdsApart /\ [Next]_vars => IdsApart'
<1> SUFFICES ASSUME TInv, IdsApart, [Next]_vars PROVE IdsApart'
  BY Zenon
<1>1. CASE ~Swaps
  BY Zenon, <1>1, BesideSwaps, NoNewStore DEF dbVars
<1>2. ASSUME NEW p \in Pullers, replace_zone_records(p) PROVE IdsApart'
  BY Zenon, <1>2, ReplaceFacts, NoNewStore
<1> QED BY Zenon, <1>1, <1>2, LookupApart, UpsertApart DEF Swaps

\* A step leaves the zone's row where it is and what it holds.
LEMMA ServeStep ==
    ASSUME TInv, IdsApart, [Next]_vars, NEW z \in Zones, OneId(z),
           NEW i \in ServedIds(z), contents[i] # None
    PROVE  i \in ServedIds(z)' /\ contents'[i] # None
<1>1. i \in Ids /\ zoneRow[i] # None /\ zoneRow[i].zone = z
  BY Zenon DEF ServedIds
<1>2. ASSUME UNCHANGED zoneRow PROVE i \in ServedIds(z)'
  BY Zenon, <1>2 DEF ServedIds
<1>3. CASE ~Swaps
  BY Zenon, <1>2, <1>3, BesideSwaps DEF dbVars
<1>4. ASSUME NEW p \in Pullers, axfr_lookup(p) PROVE UNCHANGED <<zoneRow, contents>>
  BY Zenon, <1>4 DEF axfr_lookup, dbVars
<1>5. ASSUME NEW p \in Pullers, replace_zone_records(p) PROVE UNCHANGED zoneRow /\ contents'[i] # None
  BY Zenon, <1>1, <1>5, ReplaceFacts
<1>6. ASSUME NEW p \in Pullers, upsert_zone(p) PROVE i \in ServedIds(z)' /\ contents'[i] # None
  <2>1. /\ UNCHANGED contents /\ Storing(p) /\ pull[p].id \in Ids
        /\ zoneRow'[pull[p].id] # None /\ zoneRow'[pull[p].id].zone = pull[p].zone
        /\ \A j \in Ids \ {pull[p].id} : zoneRow'[j] = zoneRow[j]
    BY Zenon, <1>6, UpsertFacts
  <2>2. CASE pull[p].zone = z
    <3>1. pull[p].id = i
      BY Zenon, <1>1, <2>1, <2>2 DEF OneId
    <3>2. \A j \in Ids : j < i => zoneRow'[j] = zoneRow[j]
      BY <1>1, <2>1, <3>1, TransferAssumption
    <3> QED BY Zenon, <1>1, <2>1, <2>2, <3>1, <3>2 DEF ServedIds
  <2>3. CASE pull[p].zone # z
    <3>1. pull[p].id # i
      BY Zenon, <1>1, <2>1, <2>3 DEF IdsApart
    <3>2. \A j \in Ids : zoneRow'[j] = zoneRow[j] \/ zoneRow'[j].zone # z
      BY Zenon, <2>1, <2>3
    <3> QED BY Zenon, <1>1, <2>1, <3>1, <3>2 DEF ServedIds
  <2> QED BY Zenon, <2>2, <2>3
<1> QED BY Zenon, <1>2, <1>3, <1>4, <1>5, <1>6 DEF Swaps

\* A zone that is answered from a copy stays so through transfers, races of two
\* pullers and crashes, as long as it has one id (the comment in axfr_pull on the
\* window of deleting first), for any number of zones, ids and pullers.
THEOREM ServingKept == Spec => KeepsServing
<1>1. Init => IdsApart
  BY DEF Init, IdsApart, Storing, Idle
<1>2. TInv /\ IdsApart /\ [Next]_vars =>
          [\A z \in Zones : OneId(z) /\ (\E i \in ServedIds(z) : contents[i] # None)
               => \E i \in ServedIds(z)' : contents'[i] # None]_vars
  BY Zenon, ServeStep
<1> QED BY <1>1, <1>2, TypeStart, TypeStep, ApartStep, PTL DEF Spec, KeepsServing

=============================================================================
