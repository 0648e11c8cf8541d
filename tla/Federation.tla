----------------------------- MODULE Federation -----------------------------
(***************************************************************************)
(* Pull replication (crates/microdns-federation/src/replication.rs): every *)
(* interval a replica asks its peers, one after the other, for their zones *)
(* over gRPC, fetches the records of those whose SOA serial is above the   *)
(* one it noted, and writes the zone, the records and the note in three    *)
(* transactions.  Zones a peer no longer lists are deleted in two.         *)
(*                                                                         *)
(* The records of a zone are a version number, its SOA serial counts the   *)
(* bumps.  A writer at the peer changes the records first and bumps the    *)
(* serial afterwards, in a transaction of its own that a crash cancels;    *)
(* the gRPC record service never bumps.  Any request may fail, which ends  *)
(* the turn of that peer, and the replica may restart between any two      *)
(* steps.  Zone ids are random and not reused, a serial only grows.  Left  *)
(* out: time stamps, writers other than the agent on the replica.          *)
(***************************************************************************)
EXTENDS Integers, Sequences, FiniteSets, Nothing

CONSTANTS FedZones,     \* zone ids
          Peers,        \* the peers, in the order of the configuration
          PeerOf,       \* zone -> the peer that owns it
          Reliable,     \* peers that answer again and again
          MaxText,      \* bound on the versions of a zone
          Grpc         \* peers whose records are also written over gRPC

\* A zone in the tables of the replica, and the note about it.
Copies == [serial : Nat, text : 0 .. MaxText]
Notes == [from : {Peers[i] : i \in DOMAIN Peers}, serial : Nat]

ASSUME FedAssumption ==
    /\ Peers \in Seq({Peers[i] : i \in DOMAIN Peers}) /\ Peers # << >>
    /\ PeerOf \in [FedZones -> {Peers[i] : i \in DOMAIN Peers}] /\ MaxText \in Nat \ {0}
    /\ Grpc \subseteq {Peers[i] : i \in DOMAIN Peers}
    /\ None \notin FedZones \cup Copies \cup Notes

VARIABLES text,     \* version of the records of a zone at its peer, 0 before it exists
          log,      \* the version at every bump of its serial; the serial is the length
          owed,     \* zones with a change whose bump is still to come
          dead,     \* zones deleted at their peer
          tab,      \* the zone tables of the replica
          meta,     \* its notes: from which peer, at which serial
          agent,    \* the replication agent, in memory
          steady    \* the replica is not restarted any more

peer == <<text, log, owed, dead>>
replica == <<tab, meta>>
fedVars == <<peer, replica, agent, steady>>

Idle(i) == [at |-> "idle", turn |-> i, zone |-> None, todo |-> {}, listed |-> << >>, got |-> 0]
NextTurn == Idle(1 + (agent.turn % Len(Peers)))
Now == Peers[agent.turn]

\* Types; and what the agent is at, it was told to be.
FedTypeOK ==
    /\ text \in [FedZones -> 0 .. MaxText] /\ owed \subseteq FedZones /\ dead \subseteq FedZones
    /\ \A z \in FedZones : \A i \in DOMAIN log[z] : log[z][i] \in 1 .. text[z]
    /\ tab \in [FedZones -> {None} \cup Copies]
    /\ meta \in [FedZones -> {None} \cup Notes]
    /\ agent.at \in {"idle", "loop", "fetch", "upsert", "replace", "note", "clean", "unnote"}
    /\ agent.at \in {"upsert", "replace", "note"} => agent.zone \in DOMAIN agent.listed
    /\ agent.at \in {"clean", "unnote"} => agent.todo \cap DOMAIN agent.listed = {}

FedInit ==
    /\ text = [z \in FedZones |-> 0] /\ log = [z \in FedZones |-> << >>]
    /\ owed = {} /\ dead = {} /\ agent = Idle(1) /\ steady = FALSE
    /\ tab = [z \in FedZones |-> None] /\ meta = [z \in FedZones |-> None]

There(z) == text[z] > 0 /\ z \notin dead

-----------------------------------------------------------------------------
(* The peers. *)

create_zone(z) ==
    /\ text[z] = 0
    /\ text' = [text EXCEPT ![z] = 1] /\ log' = [log EXCEPT ![z] = <<1>>]
    /\ UNCHANGED <<owed, dead, replica, agent, steady>>

delete_zone(z) ==
    /\ There(z)
    /\ dead' = dead \cup {z} /\ owed' = owed \ {z}
    /\ UNCHANGED <<text, log, replica, agent, steady>>

\* A writer that keeps the serial in step: REST, DHCP, mDNS, Kubernetes.
ChangeRecords(z) ==
    /\ There(z) /\ text[z] < MaxText
    /\ text' = [text EXCEPT ![z] = @ + 1] /\ owed' = owed \cup {z}
    /\ UNCHANGED <<log, dead, replica, agent, steady>>

increment_soa_serial(z) ==
    /\ z \in owed
    /\ log' = [log EXCEPT ![z] = Append(@, text[z])] /\ owed' = owed \ {z}
    /\ UNCHANGED <<text, dead, replica, agent, steady>>

\* create_record, update_record and delete_record of the gRPC service.
GrpcRecord(z) ==
    /\ PeerOf[z] \in Grpc /\ There(z) /\ text[z] < MaxText
    /\ text' = [text EXCEPT ![z] = @ + 1]
    /\ UNCHANGED <<log, owed, dead, replica, agent, steady>>

\* What a peer answers: list_zones and list_records of its gRPC service.  A zone
\* that was deleted has no records, and that is no error.
ListZones(p) == {z \in FedZones : PeerOf[z] = p /\ There(z)}

ListRecords(z) == IF There(z) THEN text[z] ELSE 0

PeerCrash(p) ==
    /\ \E z \in owed : PeerOf[z] = p
    /\ owed' = {z \in owed : PeerOf[z] # p}
    /\ UNCHANGED <<text, log, dead, replica, agent, steady>>

-----------------------------------------------------------------------------
(* The replica: sync_all_peers and sync_peer. *)

get_zones_for_peer(p) == {z \in FedZones : meta[z] # None /\ meta[z].from = p}

list_zones ==
    /\ agent.at = "idle"
    /\ agent' = [agent EXCEPT !.at = "loop", !.todo = ListZones(Now), !.listed = [z \in ListZones(Now) |-> Len(log[z])]]
    /\ UNCHANGED <<peer, replica, steady>>

\* Mutant: a zone that was copied once counts as up to date.
needs_sync_once(z) == meta[z] = None

needs_sync(z) == meta[z] = None \/ meta[z].serial < agent.listed[z]

\* Mutant: a zone that was never noted is cleaned up in the turn of any peer.
EachZone_unnoted ==
    /\ agent.at = "loop"
    /\ \/ \E z \in agent.todo :
          agent' = IF needs_sync(z) THEN [agent EXCEPT !.at = "fetch", !.zone = z]
                   ELSE [agent EXCEPT !.todo = @ \ {z}]
       \/ /\ agent.todo = {}
          /\ agent' = [agent EXCEPT !.at = "clean", !.zone = None,
                          !.todo = {z \in FedZones : IF meta[z] = None THEN tab[z] # None
                                                     ELSE meta[z].from = Now} \ DOMAIN agent.listed]
    /\ UNCHANGED <<peer, replica, steady>>

\* One zone of the list, or the end of the list.
EachZone ==
    /\ agent.at = "loop"
    /\ \/ \E z \in agent.todo :
          agent' = IF needs_sync(z) THEN [agent EXCEPT !.at = "fetch", !.zone = z]
                   ELSE [agent EXCEPT !.todo = @ \ {z}]
       \/ /\ agent.todo = {}
          /\ agent' = [agent EXCEPT !.at = "clean", !.zone = None,
                          !.todo = get_zones_for_peer(Now) \ DOMAIN agent.listed]
    /\ UNCHANGED <<peer, replica, steady>>

list_records ==
    /\ agent.at = "fetch"
    /\ agent' = [agent EXCEPT !.at = "upsert", !.got = ListRecords(agent.zone)]
    /\ UNCHANGED <<peer, replica, steady>>

\* A request failed or timed out: the error ends the turn of the peer.
Fail ==
    /\ agent.at \in {"idle", "fetch"}
    /\ agent' = NextTurn /\ UNCHANGED <<peer, replica, steady>>

\* Mutant: the note is made with the zone, before the records are there.
upsert_zone_notes ==
    /\ agent.at = "upsert"
    /\ tab' = [tab EXCEPT ![agent.zone] =
                  [serial |-> agent.listed[agent.zone], text |-> IF @ = None THEN 0 ELSE @.text]]
    /\ meta' = [meta EXCEPT ![agent.zone] = [from |-> Now, serial |-> agent.listed[agent.zone]]]
    /\ agent' = [agent EXCEPT !.at = "replace"]
    /\ UNCHANGED <<peer, steady>>

upsert_zone ==
    /\ agent.at = "upsert"
    /\ tab' = [tab EXCEPT ![agent.zone] =
                  [serial |-> agent.listed[agent.zone], text |-> IF @ = None THEN 0 ELSE @.text]]
    /\ agent' = [agent EXCEPT !.at = "replace"]
    /\ UNCHANGED <<peer, meta, steady>>

replace_zone_records ==
    /\ agent.at = "replace"
    /\ tab' = [tab EXCEPT ![agent.zone].text = agent.got]
    /\ agent' = [agent EXCEPT !.at = "note"]
    /\ UNCHANGED <<peer, meta, steady>>

set_replication_meta ==
    /\ agent.at = "note"
    /\ meta' = [meta EXCEPT ![agent.zone] = [from |-> Now, serial |-> agent.listed[agent.zone]]]
    /\ agent' = [agent EXCEPT !.at = "loop", !.todo = @ \ {agent.zone}, !.zone = None, !.got = 0]
    /\ UNCHANGED <<peer, tab, steady>>

\* delete_replicated_zone: the zone, then the note; without the zone it fails
\* and the note stays.
DeleteZone ==
    /\ agent.at = "clean"
    /\ \E z \in agent.todo :
          /\ tab' = [tab EXCEPT ![z] = None]
          /\ agent' = IF tab[z] = None THEN [agent EXCEPT !.todo = @ \ {z}]
                      ELSE [agent EXCEPT !.at = "unnote", !.zone = z]
    /\ UNCHANGED <<peer, meta, steady>>

delete_replication_meta ==
    /\ agent.at = "unnote"
    /\ meta' = [meta EXCEPT ![agent.zone] = None]
    /\ agent' = [agent EXCEPT !.at = "clean", !.zone = None, !.todo = @ \ {agent.zone}]
    /\ UNCHANGED <<peer, tab, steady>>

PeerDone ==
    /\ agent.at = "clean" /\ agent.todo = {}
    /\ agent' = NextTurn /\ UNCHANGED <<peer, replica, steady>>

ReplicaCrash == ~steady /\ agent # Idle(1) /\ agent' = Idle(1) /\ UNCHANGED <<peer, replica, steady>>

Steady == ~steady /\ steady' = TRUE /\ UNCHANGED <<peer, replica, agent>>

Sync == \/ EachZone \/ upsert_zone \/ replace_zone_records \/ set_replication_meta
        \/ DeleteZone \/ delete_replication_meta \/ PeerDone

FedNext ==
    \/ \E z \in FedZones : \/ create_zone(z) \/ delete_zone(z) \/ ChangeRecords(z)
                           \/ increment_soa_serial(z) \/ GrpcRecord(z)
    \/ \E i \in DOMAIN Peers : PeerCrash(Peers[i])
    \/ list_zones \/ list_records \/ Fail \/ Sync \/ ReplicaCrash \/ Steady

FedSpec == FedInit /\ [][FedNext]_fedVars

-----------------------------------------------------------------------------
(* Properties. *)

\* The note of a zone is never ahead of the tables: whatever crashed in between,
\* the replica holds at least the records the peer had when its serial became
\* the noted one, so that an interrupted copy is made again.
NoteHonest ==
    \A z \in FedZones :
        meta[z] # None /\ There(z) => tab[z] # None /\ tab[z].text >= log[z][meta[z].serial]

MirrorOfPeers == INSTANCE Mirror WITH
    Copied <- FedZones, original <- text, over <- dead,
    copy <- [z \in FedZones |-> IF tab[z] = None THEN 0 ELSE tab[z].text]

\* The tables of the replica are a mirror of the peers' (module Mirror): records
\* never go back, and a zone goes only after its own peer deleted it.
ReplicaMirrors == MirrorOfPeers!MirrorSpec

Same(z) == tab[z] # None /\ tab[z].text = text[z]

\* A zone of a reliable peer whose last change was announced by its serial ends
\* up in the replica as it is, and one that was deleted goes, whatever other
\* peers, failures and restarts did before.  Only a first copy that was cut off
\* before its note stays behind when the peer deletes the zone.
Delivered ==
    \A z \in {y \in FedZones : PeerOf[y] \in Reliable} :
        /\ <>[](steady /\ There(z) /\ text[z] = log[z][Len(log[z])]) => <>[]Same(z)
        /\ <>[](steady /\ ~There(z)) => <>[](tab[z] = None \/ meta[z] = None)

\* The three transactions of a copy leave the tables of the replica honest
\* whichever of them a crash cuts off.
CopyHonest == FedTypeOK /\ NoteHonest

=============================================================================
