---------------------------- MODULE ZoneTransfer ----------------------------
(***************************************************************************)
(* Zone transfer: primaries that change their zones, bump the SOA serial   *)
(* and announce it (Db::increment_soa_serial, the hook and notify_agent of *)
(* main.rs, auth/notify.rs), and one secondary that mirrors the zones      *)
(* (auth/secondary.rs, auth/transfer.rs) while the API may pull a zone by  *)
(* hand (rest/zones.rs transfer_zone).                                     *)
(*                                                                         *)
(* What a zone contains is a version number that every change increases.   *)
(* A pull is a sequence of steps, because the primary reads the SOA and    *)
(* the records in two transactions, and the secondary looks the zone up,   *)
(* upserts it and replaces its records in three.                           *)
(*                                                                         *)
(* Left out: the record formats, the access list (every configured         *)
(* secondary is allowed), serial wrap-around (no decision depends on       *)
(* is_newer, which only chooses a log line), zones deleted at either end.  *)
(***************************************************************************)
EXTENDS Naturals

CONSTANTS Zones,       \* mirrored zones; each has a primary of its own
          Ids,         \* zone ids (UUIDs) the secondary can draw, ordered
          Pullers,     \* "agent", and "api" when operators pull by hand
          MaxVersion,  \* bound: changes per zone
          None

Serials  == 1..(MaxVersion + 1)
Versions == 0..MaxVersion

ASSUME TransferAssumption ==
    /\ Ids \subseteq Nat
    /\ MaxVersion \in Nat
    /\ "agent" \in Pullers
    /\ None \notin Nat \cup Zones \cup [zone: Zones, serial: Serials]

VARIABLES version,    \* primary: contents of each zone
          serial,     \* primary: SOA serial of each zone
          published,  \* history: contents when the zone got that serial
          unbumped,   \* primary: writers between their change and their bump
          changes,    \* primary: zones queued for notify_agent
          dead,       \* zones whose primary's host lost power
          inbox,      \* secondary: NOTIFYs accepted and not yet taken
          mirrored,   \* secondary: zones in the live transfer settings
          waiting,    \* secondary: zones whose next check is not due yet
          todo,       \* secondary: zones of the agent's current round
          pull,       \* secondary: where each puller is
          zoneRow,    \* secondary db: zone rows by id
          contents,   \* secondary db: records of the zone, by zone id
          nameIdx     \* secondary db: zone id by name

primaryVars == <<version, serial, published, unbumped, changes, dead>>
dbVars      == <<zoneRow, contents, nameIdx>>
agentVars   == <<mirrored, waiting, todo>>
vars == <<primaryVars, dbVars, agentVars, inbox, pull>>

Stages == {"idle", "asked", "connect", "soa", "got", "found", "upserted"}

Idle == [stage |-> "idle", zone |-> None, serial |-> None,
         version |-> None, id |-> None]

TypeOK ==
    /\ version \in [Zones -> Versions]
    /\ serial \in [Zones -> Serials]
    /\ published \in [Zones -> [Serials -> Versions]]
    /\ unbumped \in [Zones -> Versions]
    /\ changes \subseteq Zones
    /\ dead \subseteq Zones
    /\ inbox \subseteq Zones
    /\ mirrored \subseteq Zones
    /\ waiting \subseteq Zones
    /\ todo \subseteq Zones
    /\ pull \in [Pullers -> [stage: Stages, zone: Zones \cup {None},
                             serial: Serials \cup {None},
                             version: Versions \cup {None},
                             id: Ids \cup {None}]]
    /\ zoneRow \in [Ids -> [zone: Zones, serial: Serials] \cup {None}]
    /\ contents \in [Ids -> Versions \cup {None}]
    /\ nameIdx \in [Zones -> Ids \cup {None}]

\* Nothing mirrored yet; a zone with no schedule is due, so none is waiting.
Init ==
    /\ version = [z \in Zones |-> 0]
    /\ serial = [z \in Zones |-> 1]
    /\ published = [z \in Zones |-> [s \in Serials |-> 0]]
    /\ unbumped = [z \in Zones |-> 0]
    /\ changes = {} /\ dead = {} /\ inbox = {}
    /\ mirrored = Zones /\ waiting = {} /\ todo = {}
    /\ pull = [p \in Pullers |-> Idle]
    /\ zoneRow = [i \in Ids |-> None]
    /\ contents = [i \in Ids |-> None]
    /\ nameIdx = [z \in Zones |-> None]

-----------------------------------------------------------------------------
(* The primary.                                                            *)

\* A writer commits a change of records; its bump is a later transaction.
Change(z) ==
    /\ version[z] < MaxVersion
    /\ version' = [version EXCEPT ![z] = @ + 1]
    /\ unbumped' = [unbumped EXCEPT ![z] = @ + 1]
    /\ UNCHANGED <<serial, published, changes, dead, inbox, pull, agentVars, dbVars>>

\* A writer that never bumps: gRPC, the load balancer, lease unregistration.
QuietChange(z) ==
    /\ version[z] < MaxVersion
    /\ version' = [version EXCEPT ![z] = @ + 1]
    /\ UNCHANGED <<serial, published, unbumped, changes, dead, inbox, pull,
                   agentVars, dbVars>>

\* The bump, and the hook that queues the zone for announcement.
increment_soa_serial(z) ==
    /\ unbumped[z] > 0
    /\ unbumped' = [unbumped EXCEPT ![z] = @ - 1]
    /\ serial' = [serial EXCEPT ![z] = @ + 1]
    /\ published' = [published EXCEPT ![z][serial[z] + 1] = version[z]]
    /\ changes' = changes \cup {z}
    /\ UNCHANGED <<version, dead, inbox, pull, agentVars, dbVars>>

\* NotifyAcceptor: the secondary believes a NOTIFY only for a mirrored zone.
accept(z) == z \in mirrored

\* The secondary's listener queues an accepted NOTIFY for the agent.
handle_notify(z) == inbox' = IF accept(z) THEN inbox \cup {z} ELSE inbox

\* notify_agent announces a queued zone once, however often it changed. UDP
\* may lose the message.
notify_zone(z) ==
    /\ z \in changes
    /\ changes' = changes \ {z}
    /\ handle_notify(z) \/ UNCHANGED inbox
    /\ UNCHANGED <<version, serial, published, unbumped, dead, pull, agentVars, dbVars>>

\* The primary restarts: the queue is in memory, and so are its writers.
PrimaryRestart(z) ==
    /\ unbumped' = [unbumped EXCEPT ![z] = 0]
    /\ changes' = changes \ {z}
    /\ UNCHANGED <<version, serial, published, dead, inbox, pull, agentVars, dbVars>>

\* The primary's host loses power: it sends nothing more, not even a reset.
PowerLoss(z) ==
    /\ dead' = dead \cup {z}
    /\ UNCHANGED <<version, serial, published, unbumped, changes, inbox, pull,
                   agentVars, dbVars>>

-----------------------------------------------------------------------------
(* The secondary's agent: SecondaryAgent::run and check.                   *)

AgentIdle == todo = {} /\ pull["agent"] = Idle

\* Branch 1 of select!: take every NOTIFY queued, keep the mirrored zones.
TakeNotifies ==
    /\ AgentIdle
    /\ inbox # {}
    /\ todo' = inbox \cap mirrored
    /\ inbox' = {}
    /\ UNCHANGED <<mirrored, waiting, pull, primaryVars, dbVars>>

\* Mutant: the tick only looks at zones that are not held yet.
TakeDue_missingOnly ==
    /\ AgentIdle
    /\ \E z \in mirrored \ waiting : nameIdx[z] = None
    /\ todo' = {z \in mirrored \ waiting : nameIdx[z] = None}
    /\ waiting' = waiting \cap mirrored
    /\ UNCHANGED <<mirrored, inbox, pull, primaryVars, dbVars>>

\* Branch 2 of select!: the tick takes the zones that are due, and forgets
\* the schedules of zones no longer mirrored.
TakeDue ==
    /\ AgentIdle
    /\ mirrored \ waiting # {}
    /\ todo' = mirrored \ waiting
    /\ waiting' = waiting \cap mirrored
    /\ UNCHANGED <<mirrored, inbox, pull, primaryVars, dbVars>>

\* The refresh interval of a zone passes.
RefreshElapses(z) ==
    /\ z \in waiting
    /\ waiting' = waiting \ {z}
    /\ UNCHANGED <<mirrored, todo, inbox, pull, primaryVars, dbVars>>

\* Settings from the API: zones are added or removed while the agent runs.
ApplySettings(S) ==
    /\ mirrored' = S
    /\ UNCHANGED <<waiting, todo, inbox, pull, primaryVars, dbVars>>

\* The end of a check or of a pull by hand, whatever came of it: the agent
\* schedules the zone's next check.
Finish(p, z) ==
    /\ pull' = [pull EXCEPT ![p] = Idle]
    /\ IF p = "agent"
       THEN todo' = todo \ {z} /\ waiting' = waiting \cup {z}
       ELSE UNCHANGED <<todo, waiting>>

\* remote_serial: the SOA answer arrives in time,
remote_serial(z) ==
    /\ pull["agent"] = Idle
    /\ z \in todo \ dead
    /\ pull' = [pull EXCEPT !["agent"] =
                  [Idle EXCEPT !.stage = "asked", !.zone = z, !.serial = serial[z]]]
    /\ UNCHANGED <<inbox, agentVars, primaryVars, dbVars>>

\* or it does not, and the existing copy stays.
remote_serial_fails(z) ==
    /\ pull["agent"] = Idle
    /\ z \in todo
    /\ Finish("agent", z)
    /\ UNCHANGED <<inbox, mirrored, primaryVars, dbVars>>

LocalSerial(z) ==
    IF nameIdx[z] = None THEN None ELSE zoneRow[nameIdx[z]].serial

\* Mutant: the zone is transferred only when it is not held yet.
compare_onlyMissing ==
    /\ pull["agent"].stage = "asked"
    /\ IF LocalSerial(pull["agent"].zone) # None
       THEN Finish("agent", pull["agent"].zone)
       ELSE /\ pull' = [pull EXCEPT !["agent"].stage = "connect",
                                    !["agent"].serial = None]
            /\ UNCHANGED <<todo, waiting>>
    /\ UNCHANGED <<inbox, mirrored, primaryVars, dbVars>>

\* check, after the answer: equal serials end it, anything else transfers.
compare ==
    /\ pull["agent"].stage = "asked"
    /\ IF LocalSerial(pull["agent"].zone) = pull["agent"].serial
       THEN Finish("agent", pull["agent"].zone)
       ELSE /\ pull' = [pull EXCEPT !["agent"].stage = "connect",
                                    !["agent"].serial = None]
            /\ UNCHANGED <<todo, waiting>>
    /\ UNCHANGED <<inbox, mirrored, primaryVars, dbVars>>

-----------------------------------------------------------------------------
(* ZoneTransfer::axfr_pull, for the agent and for the API.                 *)

\* transfer_zone of the REST API starts a pull of its own.
transfer_zone(p, z) ==
    /\ p # "agent"
    /\ pull[p] = Idle
    /\ pull' = [pull EXCEPT ![p] = [Idle EXCEPT !.stage = "connect", !.zone = z]]
    /\ UNCHANGED <<inbox, agentVars, primaryVars, dbVars>>

\* build_axfr_records at the primary: first the zone row with its serial,
axfr_soa(p) ==
    /\ pull[p].stage = "connect"
    /\ pull[p].zone \notin dead
    /\ pull' = [pull EXCEPT ![p].stage = "soa",
                            ![p].serial = serial[pull[p].zone]]
    /\ UNCHANGED <<inbox, agentVars, primaryVars, dbVars>>

\* then the records, in another transaction. The answer arrives complete.
axfr_records(p) ==
    /\ pull[p].stage = "soa"
    /\ pull[p].zone \notin dead
    /\ pull' = [pull EXCEPT ![p].stage = "got",
                            ![p].version = version[pull[p].zone]]
    /\ UNCHANGED <<inbox, agentVars, primaryVars, dbVars>>

\* Connecting fails, or the connection breaks while the answer is read. A
\* host without power breaks nothing: the read has no timeout and stays.
axfr_fails(p) ==
    /\ \/ pull[p].stage = "connect"
       \/ pull[p].stage = "soa" /\ pull[p].zone \notin dead
    /\ Finish(p, pull[p].zone)
    /\ UNCHANGED <<inbox, mirrored, primaryVars, dbVars>>

FreshIds == {i \in Ids : zoneRow[i] = None /\ \A p \in Pullers : pull[p].id # i}

\* get_zone_by_name: the id of the zone held, or a new one.
axfr_lookup(p) ==
    /\ pull[p].stage = "got"
    /\ \E i \in (IF nameIdx[pull[p].zone] = None THEN FreshIds
                                                 ELSE {nameIdx[pull[p].zone]}) :
          pull' = [pull EXCEPT ![p].stage = "found", ![p].id = i]
    /\ UNCHANGED <<inbox, agentVars, primaryVars, dbVars>>

\* Mutant: the old copy is deleted before the new one is stored.
upsert_zone_deletesFirst(p) ==
    /\ pull[p].stage = "found"
    /\ zoneRow' = [zoneRow EXCEPT ![pull[p].id] =
                     [zone |-> pull[p].zone, serial |-> pull[p].serial]]
    /\ contents' = [contents EXCEPT ![pull[p].id] = None]
    /\ nameIdx' = [nameIdx EXCEPT ![pull[p].zone] = pull[p].id]
    /\ pull' = [pull EXCEPT ![p].stage = "upserted"]
    /\ UNCHANGED <<inbox, agentVars, primaryVars>>

upsert_zone(p) ==
    /\ pull[p].stage = "found"
    /\ zoneRow' = [zoneRow EXCEPT ![pull[p].id] =
                     [zone |-> pull[p].zone, serial |-> pull[p].serial]]
    /\ nameIdx' = [nameIdx EXCEPT ![pull[p].zone] = pull[p].id]
    /\ pull' = [pull EXCEPT ![p].stage = "upserted"]
    /\ UNCHANGED <<contents, inbox, agentVars, primaryVars>>

\* Mutant: the records are imported once and not replaced.
replace_zone_records_importsOnce(p) ==
    /\ pull[p].stage = "upserted"
    /\ contents' = [contents EXCEPT ![pull[p].id] =
                      IF @ = None THEN pull[p].version ELSE @]
    /\ Finish(p, pull[p].zone)
    /\ UNCHANGED <<zoneRow, nameIdx, inbox, mirrored, primaryVars>>

\* replace_zone_records, and the pull is done.
replace_zone_records(p) ==
    /\ pull[p].stage = "upserted"
    /\ contents' = [contents EXCEPT ![pull[p].id] = pull[p].version]
    /\ Finish(p, pull[p].zone)
    /\ UNCHANGED <<zoneRow, nameIdx, inbox, mirrored, primaryVars>>

\* The secondary restarts: only its database survives, every zone is due.
SecondaryRestart ==
    /\ pull' = [p \in Pullers |-> Idle]
    /\ todo' = {} /\ waiting' = {} /\ inbox' = {}
    /\ UNCHANGED <<mirrored, primaryVars, dbVars>>

-----------------------------------------------------------------------------
(* Specifications.                                                         *)

MidSwap == \E p \in Pullers : pull[p].stage = "upserted"

\* A restart that does not fall between the two halves of a swap.
CleanRestart == ~MidSwap /\ SecondaryRestart

\* A restart of a primary none of whose writers is between change and bump.
CleanPrimaryRestart(z) == unbumped[z] = 0 /\ PrimaryRestart(z)

AgentStep ==
    \/ TakeNotifies \/ TakeDue \/ compare
    \/ \E z \in Zones : RefreshElapses(z) \/ remote_serial(z) \/ remote_serial_fails(z)

PullStep(p) ==
    \/ axfr_soa(p) \/ axfr_records(p) \/ axfr_fails(p) \/ axfr_lookup(p)
    \/ upsert_zone(p) \/ replace_zone_records(p)

\* What happens without crashes and with writers that bump.
Common ==
    \/ AgentStep
    \/ \E p \in Pullers : PullStep(p) \/ \E z \in Zones : transfer_zone(p, z)
    \/ \E z \in Zones : Change(z) \/ increment_soa_serial(z) \/ notify_zone(z)
    \/ \E S \in SUBSET Zones : ApplySettings(S)

\* Everything.
Next ==
    \/ Common
    \/ SecondaryRestart
    \/ \E z \in Zones : QuietChange(z) \/ PrimaryRestart(z) \/ PowerLoss(z)

\* Everything, except that the secondary's swaps are not cut in two.
UncutNext ==
    \/ Common
    \/ CleanRestart
    \/ \E z \in Zones : QuietChange(z) \/ PrimaryRestart(z) \/ PowerLoss(z)

\* Writers that always bump, and crashes that cut nothing in two.
TidyNext ==
    \/ Common
    \/ CleanRestart
    \/ \E z \in Zones : CleanPrimaryRestart(z)

\* tokio polls every task, clocks advance, and the network does not lose the
\* answers of a live primary for ever.
Fairness ==
    /\ WF_vars(TakeDue) /\ WF_vars(TakeNotifies) /\ WF_vars(compare)
    /\ \A z \in Zones : /\ WF_vars(RefreshElapses(z))
                        /\ WF_vars(increment_soa_serial(z))
                        /\ SF_vars(remote_serial(z))
    /\ WF_vars(\E z \in Zones : remote_serial(z) \/ remote_serial_fails(z))
    /\ WF_vars(axfr_fails("agent") \/ axfr_soa("agent") \/ axfr_records("agent"))
    /\ SF_vars(axfr_soa("agent")) /\ SF_vars(axfr_records("agent"))
    /\ \A p \in Pullers : /\ WF_vars(axfr_lookup(p)) /\ WF_vars(upsert_zone(p))
                          /\ WF_vars(replace_zone_records(p))

Spec      == Init /\ [][Next]_vars /\ Fairness
UncutSpec == Init /\ [][UncutNext]_vars
TidySpec  == Init /\ [][TidyNext]_vars /\ Fairness

\* TidySpec with one hazard added each.
CrashSpec == Init /\ [][TidyNext \/ SecondaryRestart]_vars /\ Fairness
QuietSpec == Init /\ [][TidyNext \/ \E z \in Zones : QuietChange(z)]_vars
PowerSpec == Init /\ [][TidyNext \/ \E z \in Zones : PowerLoss(z)]_vars /\ Fairness

-----------------------------------------------------------------------------
(* Properties.                                                             *)

\* The zone queries are answered from: most_specific_zone keeps the first of
\* several rows with the same name, in id order.
ServedIds(z) ==
    {i \in Ids : /\ zoneRow[i] # None /\ zoneRow[i].zone = z
                 /\ \A j \in Ids : j < i => zoneRow[j] = None \/ zoneRow[j].zone # z}

\* Outside a swap, the copy held under a serial has every change the primary
\* had made when it took that serial: build_axfr_records reads the SOA before
\* the records, and axfr_pull stores both.
HonestSerial ==
    \A i \in Ids :
        zoneRow[i] # None /\ ~MidSwap =>
            /\ contents[i] # None
            /\ published[zoneRow[i].zone][zoneRow[i].serial] <= contents[i]

\* Mirroring never takes the copy back to older contents.
NeverBackwards ==
    [][\A i \in Ids : contents[i] # None =>
           contents'[i] # None /\ contents[i] <= contents'[i]]_vars

\* When the serials agree, no writer is at work and no check is going on, the
\* copy is the primary's zone (docs/zone-transfer.md: "The serials matching is
\* the whole health check").
SerialTellsAll ==
    \A z \in Zones :
        /\ pull["agent"] = Idle /\ unbumped[z] = 0
        /\ LocalSerial(z) = serial[z]
        => contents[nameIdx[z]] = version[z]

\* The zone has one id, in the tables and in the hands of pullers. Two pulls of
\* a zone not held yet can draw an id each (get_zone_by_name, then upsert_zone).
OneId(z) ==
    LET used == {i \in Ids : \/ zoneRow[i] # None /\ zoneRow[i].zone = z
                             \/ \E p \in Pullers : pull[p].zone = z /\ pull[p].id = i}
    IN  \A i, j \in used : i = j

\* A zone that is answered from a copy stays so, whoever pulls and whatever
\* crashes, as long as it has one id: no step leaves a window in which the zone
\* is gone or empty (comment in axfr_pull).
KeepsServing ==
    [][\A z \in Zones : OneId(z) /\ (\E i \in ServedIds(z) : contents[i] # None)
           => \E i \in ServedIds(z)' : contents'[i] # None]_vars

\* A zone whose primary lives and which stays mirrored, on a secondary that
\* stops crashing,
Followed(z) ==
    /\ [](z \notin dead)
    /\ <>[](z \in mirrored)
    /\ <>[][~SecondaryRestart]_vars

\* ends up equal to the primary's: a lost NOTIFY, a failed check and a broken
\* transfer only cost time.
Converges ==
    \A z \in Zones : Followed(z) =>
        <>[](nameIdx[z] # None /\ contents[nameIdx[z]] = version[z])

\* It ends up with the primary's serial, whatever races and crashes there were
\* in the past: a check never gives up.
SerialsMeet ==
    \A z \in Zones : Followed(z) => <>[](LocalSerial(z) = serial[z])
=============================================================================
