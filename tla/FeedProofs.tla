----------------------------- MODULE FeedProofs -----------------------------
(***************************************************************************)
(* Proofs about records that come from other systems.  The federation      *)
(* crate, for any zones, peers, leaves and numbers of changes: replication *)
(* (Federation), the sync agent of a leaf (ConfigSync) and the heartbeat   *)
(* table (Heartbeat).  The mDNS source (MdnsIngest), for any instances,    *)
(* names, zones and filters: records of a zone are withdrawn by the right  *)
(* instance and for a reason, and a holder that was not restarted leaves   *)
(* nothing behind.                                                         *)
(***************************************************************************)
EXTENDS MdnsIngest, Federation, ConfigSync, Heartbeat, TLAPS

-----------------------------------------------------------------------------
(* Replication: the inductive invariant. *)

AgentAt == {"idle", "loop", "fetch", "upsert", "replace", "note", "clean", "unnote"}

Lists == UNION {[S -> Nat] : S \in SUBSET FedZones}

Agents == [at : AgentAt, turn : DOMAIN Peers, zone : FedZones \cup {None}, todo : SUBSET FedZones,
           listed : Lists, got : 0 .. MaxText]

\* The peers: a zone that is there was announced, each bump announces at least
\* what the one before did, and nothing is deleted before it exists.
LogOK ==
    /\ log \in [FedZones -> Seq(Nat)]
    /\ \A z \in FedZones : text[z] > 0 => Len(log[z]) > 0
    /\ \A z \in FedZones : \A i, j \in DOMAIN log[z] : i <= j => log[z][i] <= log[z][j]
    /\ \A z \in dead \cup owed : text[z] > 0

\* The notes and tables name what a peer has had.
NotesOK ==
    \A z \in FedZones :
        /\ meta[z] # None => meta[z].from = PeerOf[z] /\ meta[z].serial \in DOMAIN log[z] /\ text[z] > 0
        /\ tab[z] # None => tab[z].text <= text[z]

\* The list in hand: it is of this peer, and a noted zone it lacks is gone.
ListOK ==
    agent.at # "idle" =>
        /\ \A z \in DOMAIN agent.listed : PeerOf[z] = Now /\ agent.listed[z] \in DOMAIN log[z] /\ text[z] > 0
        /\ \A z \in FedZones : meta[z] # None /\ PeerOf[z] = Now /\ z \notin DOMAIN agent.listed => z \in dead

\* The copy in hand is newer than the note, and what was fetched is at least
\* what the listed serial announced.
CopyOK ==
    LET z == agent.zone
    IN  /\ agent.at = "loop" => agent.todo \subseteq DOMAIN agent.listed
        /\ agent.at \in {"fetch", "upsert", "replace", "note"} =>
              /\ agent.todo \subseteq DOMAIN agent.listed /\ z \in DOMAIN agent.listed
              /\ meta[z] = None \/ meta[z].serial < agent.listed[z]
        /\ agent.at \in {"upsert", "replace", "note"} =>
              /\ agent.got <= text[z]
              /\ There(z) => log[z][agent.listed[z]] <= agent.got
              /\ \/ agent.got = 0 /\ z \in dead
                 \/ tab[z] = None
                 \/ tab[z].text <= agent.got
        /\ agent.at \in {"replace", "note"} => tab[z] # None
        /\ agent.at = "note" => tab[z].text = agent.got

\* Only zones that are gone at their peer are cleaned up.
CleanOK ==
    /\ agent.at \in {"clean", "unnote"} => agent.todo \subseteq dead
    /\ agent.at = "unnote" => agent.zone \in agent.todo

FedInv == FedTypeOK /\ NoteHonest /\ agent \in Agents /\ LogOK /\ NotesOK /\ ListOK /\ CopyOK /\ CleanOK

LogInText == \A z \in FedZones : \A i \in DOMAIN log[z] : log[z][i] \in 1 .. text[z]

\* Whatever the peers do, as long as their records and serials only grow, the
\* replica is left in order.
LEMMA PeersMove ==
    ASSUME FedInv, UNCHANGED <<tab, meta, agent>>,
           text' \in [FedZones -> 0 .. MaxText], owed' \subseteq FedZones, dead' \subseteq FedZones,
           LogOK', LogInText', dead \subseteq dead', \A z \in FedZones : text[z] <= text'[z],
           \A z \in FedZones : \A i \in DOMAIN log[z] : i \in DOMAIN log'[z] /\ log'[z][i] = log[z][i]
    PROVE  FedInv'
<1>1. \A z \in FedZones : text[z] \in Nat /\ text'[z] \in Nat /\ text[z] <= text'[z]
  BY FedAssumption DEF FedInv, FedTypeOK
<1>2. \A z \in FedZones : text[z] > 0 /\ There(z)' => There(z)
  BY Zenon, <1>1 DEF There
<1>3. FedTypeOK'
  BY Zenon DEF FedInv, FedTypeOK, LogInText
<1>4. NotesOK'
  <2> SUFFICES ASSUME NEW z \in FedZones
               PROVE  /\ meta[z] # None => /\ meta[z].from = PeerOf[z] /\ meta[z].serial \in DOMAIN log'[z]
                                           /\ text'[z] > 0
                      /\ tab[z] # None => tab[z].text <= text'[z]
    BY Zenon DEF NotesOK
  <2>1. /\ meta[z] # None => meta[z].from = PeerOf[z] /\ meta[z].serial \in DOMAIN log[z] /\ text[z] > 0
        /\ tab[z] # None => tab[z].text <= text[z] /\ tab[z] \in Copies
    BY Zenon DEF FedInv, FedTypeOK, NotesOK
  <2> QED BY <1>1, <2>1, FedAssumption DEF Copies
<1>5. NoteHonest'
  BY Zenon, <1>2 DEF FedInv, NoteHonest, NotesOK
<1>6. ListOK'
  <2>1. \A z \in DOMAIN agent.listed : z \in FedZones
    BY Zenon DEF FedInv, Agents, Lists
  <2> QED BY <1>1, <2>1 DEF FedInv, ListOK, Now
<1>7. CopyOK'
  <2> DEFINE z == agent.zone
  <2>1. agent.at \in {"loop", "fetch", "upsert", "replace", "note"} => agent.at # "idle"
    BY Zenon
  <2>2. agent.at \in {"upsert", "replace", "note"} =>
            /\ z \in FedZones /\ text[z] > 0 /\ agent.listed[z] \in DOMAIN log[z] /\ agent.got \in Nat
    BY <2>1, FedAssumption DEF FedInv, Agents, Lists, CopyOK, ListOK
  <2>3. agent.at \in {"upsert", "replace", "note"} =>
            /\ agent.got <= text'[z]
            /\ There(z)' => log'[z][agent.listed[z]] <= agent.got
            /\ \/ agent.got = 0 /\ z \in dead'
               \/ tab[z] = None
               \/ tab[z].text <= agent.got
    BY <1>1, <1>2, <2>2 DEF FedInv, CopyOK
  <2> QED BY Zenon, <2>3 DEF FedInv, CopyOK
<1>8. CleanOK'
  BY Zenon DEF FedInv, CleanOK
<1> QED BY Zenon, <1>3, <1>4, <1>5, <1>6, <1>7, <1>8 DEF FedInv

\* The steps of the peers.
LEMMA PeersSteps ==
    ASSUME FedInv, NEW z \in FedZones,
           create_zone(z) \/ delete_zone(z) \/ ChangeRecords(z) \/ increment_soa_serial(z) \/ GrpcRecord(z)
    PROVE  FedInv'
<1>1. /\ text \in [FedZones -> 0 .. MaxText] /\ owed \subseteq FedZones /\ dead \subseteq FedZones
      /\ LogInText /\ LogOK /\ \A y \in FedZones : text[y] \in Nat /\ Len(log[y]) \in Nat /\ log[y] \in Seq(Nat)
  BY FedAssumption DEF FedInv, FedTypeOK, LogInText, LogOK
<1>2. CASE create_zone(z)
  <2>1. /\ text' = [text EXCEPT ![z] = 1] /\ log' = [log EXCEPT ![z] = <<1>>] /\ text[z] = 0
        /\ UNCHANGED <<owed, dead, tab, meta, agent>>
    BY Zenon, <1>2 DEF create_zone, replica
  <2>2. DOMAIN log[z] = {}
    BY <1>1, <2>1 DEF LogInText
  <2>3. text' \in [FedZones -> 0 .. MaxText] /\ \A y \in FedZones : text[y] <= text'[y]
    BY <1>1, <2>1, FedAssumption
  <2>4. \A y \in FedZones : \A i \in DOMAIN log[y] : i \in DOMAIN log'[y] /\ log'[y][i] = log[y][i]
    BY Zenon, <1>1, <2>1, <2>2 DEF LogOK
  <2>5. LogInText' /\ LogOK'
    BY <1>1, <2>1 DEF LogInText, LogOK
  <2> QED BY Zenon, <1>1, <2>1, <2>3, <2>4, <2>5, PeersMove
<1>3. CASE delete_zone(z)
  <2>1. /\ dead' = dead \cup {z} /\ owed' = owed \ {z} /\ text[z] > 0
        /\ UNCHANGED <<text, log, tab, meta, agent>>
    BY Zenon, <1>3 DEF delete_zone, replica, There
  <2>2. LogInText' /\ LogOK'
    BY Zenon, <1>1, <2>1 DEF LogInText, LogOK
  <2> QED BY <1>1, <2>1, <2>2, PeersMove
<1>4. CASE ChangeRecords(z) \/ GrpcRecord(z)
  <2>1. /\ text' = [text EXCEPT ![z] = text[z] + 1] /\ owed' \in {owed, owed \cup {z}}
        /\ text[z] > 0 /\ text[z] < MaxText /\ UNCHANGED <<log, dead, tab, meta, agent>>
    BY Zenon, <1>4 DEF ChangeRecords, GrpcRecord, replica, There
  <2>2. text' \in [FedZones -> 0 .. MaxText] /\ \A y \in FedZones : text[y] <= text'[y]
    BY <1>1, <2>1, FedAssumption
  <2>3. LogInText' /\ LogOK'
    BY <1>1, <2>1, <2>2 DEF LogInText, LogOK
  <2> QED BY Zenon, <1>1, <2>1, <2>2, <2>3, PeersMove
<1>5. CASE increment_soa_serial(z)
  <2>1. /\ log' = [log EXCEPT ![z] = Append(log[z], text[z])] /\ owed' = owed \ {z} /\ z \in owed
        /\ UNCHANGED <<text, dead, tab, meta, agent>>
    BY Zenon, <1>5 DEF increment_soa_serial, replica
  <2>2. text[z] > 0
    BY Zenon, <1>1, <2>1 DEF LogOK
  <2>3. \A y \in FedZones : \A i \in DOMAIN log[y] : i \in DOMAIN log'[y] /\ log'[y][i] = log[y][i]
    BY <1>1, <2>1 DEF LogOK
  <2>4. LogInText'
    BY <1>1, <2>1, <2>2 DEF LogInText, LogOK
  <2>5. LogOK'
    <3>1. log' \in [FedZones -> Seq(Nat)] /\ \A y \in FedZones : text'[y] > 0 => Len(log'[y]) > 0
      BY <1>1, <2>1 DEF LogOK
    <3>2. ASSUME NEW y \in FedZones, NEW i \in DOMAIN log'[y], NEW j \in DOMAIN log'[y], i <= j
          PROVE  log'[y][i] <= log'[y][j]
      <4>1. CASE y # z
        BY Zenon, <1>1, <2>1, <3>2, <4>1 DEF LogOK
      <4>2. CASE y = z
        <5>1. i \in 1 .. Len(log[z]) + 1 /\ j \in 1 .. Len(log[z]) + 1
          BY <1>1, <2>1, <3>2, <4>2 DEF LogOK
        <5>2. CASE j \in 1 .. Len(log[z])
          BY <1>1, <2>1, <3>2, <4>2, <5>1, <5>2 DEF LogOK
        <5>3. CASE j = Len(log[z]) + 1
          <6>1. log'[z][j] = text[z]
            BY <1>1, <2>1, <5>3 DEF LogOK
          <6>2. log'[z][i] <= text[z]
            BY <1>1, <2>1, <2>4, <3>2, <4>2 DEF LogInText
          <6> QED BY Zenon, <4>2, <6>1, <6>2
        <5> QED BY <1>1, <5>1, <5>2, <5>3
      <4> QED BY Zenon, <4>1, <4>2
    <3> QED BY Zenon, <1>1, <2>1, <3>1, <3>2 DEF LogOK
  <2> QED BY <1>1, <2>1, <2>3, <2>4, <2>5, PeersMove
<1> QED BY Zenon, <1>2, <1>3, <1>4, <1>5

LEMMA PeerCrashStep ==
    ASSUME FedInv, NEW p, PeerCrash(p)
    PROVE  FedInv'
<1>1. /\ text \in [FedZones -> 0 .. MaxText] /\ owed \subseteq FedZones /\ dead \subseteq FedZones
      /\ LogInText /\ LogOK /\ \A y \in FedZones : text[y] \in Nat
  BY FedAssumption DEF FedInv, FedTypeOK, LogInText
<1>2. owed' \subseteq owed /\ UNCHANGED <<text, log, dead, tab, meta, agent>>
  BY Zenon DEF PeerCrash, replica
<1>3. LogInText' /\ LogOK'
  BY Zenon, <1>1, <1>2 DEF LogInText, LogOK
<1> QED BY <1>1, <1>2, <1>3, PeersMove

-----------------------------------------------------------------------------
(* Replication: the steps of the agent. *)

LEMMA EntryOK == ASSUME NEW s \in Seq(Nat), NEW i \in DOMAIN s PROVE i \in Nat /\ s[i] \in Nat
  OBVIOUS

\* A turn that is over leaves no obligations.
LEMMA TurnOver ==
    ASSUME FedInv, UNCHANGED <<peer, replica>>, NEW i \in DOMAIN Peers, agent' = Idle(i)
    PROVE  FedInv'
<1>1. agent' \in Agents
  <2>1. << >> \in [{} -> Nat]
    OBVIOUS
  <2>2. << >> \in Lists
    BY <2>1, Zenon DEF Lists
  <2> QED BY <2>2, FedAssumption DEF Idle, Agents, AgentAt
<1>2. agent'.at = "idle"
  BY Zenon DEF Idle
<1> QED BY Zenon, <1>1, <1>2 DEF FedInv, FedTypeOK, NoteHonest, There, LogOK, NotesOK, ListOK, CopyOK, CleanOK,
                          peer, replica

LEMMA NextTurnOk == ASSUME FedInv PROVE \E i \in DOMAIN Peers : NextTurn = Idle(i)
<1>1. Len(Peers) \in Nat \ {0} /\ DOMAIN Peers = 1 .. Len(Peers) /\ agent.turn \in Nat
  BY FedAssumption DEF FedInv, Agents
<1>2. 1 + (agent.turn % Len(Peers)) \in DOMAIN Peers
  BY <1>1
<1> QED BY Zenon, <1>2 DEF NextTurn

LEMMA ListStep == ASSUME FedInv, list_zones PROVE FedInv'
<1> DEFINE L == ListZones(Now)
           listed == [z \in L |-> Len(log[z])]
<1>1. /\ agent' = [agent EXCEPT !.at = "loop", !.todo = L, !.listed = listed]
      /\ UNCHANGED <<text, log, owed, dead, tab, meta>>
  BY Zenon DEF list_zones, peer, replica
<1>2. /\ L \subseteq FedZones
      /\ \A z \in L : PeerOf[z] = Now /\ There(z) /\ Len(log[z]) \in DOMAIN log[z] /\ Len(log[z]) \in Nat
  BY DEF ListZones, FedInv, LogOK, There
<1>3. listed \in Lists
  <2>1. listed \in [L -> Nat]
    BY Zenon, <1>2
  <2> QED BY Zenon, <1>2, <2>1 DEF Lists
<1>4. agent' \in Agents /\ agent'.at = "loop" /\ agent'.todo = L /\ agent'.listed = listed /\ Now' = Now
      /\ DOMAIN agent'.listed = L
  BY Zenon, <1>1, <1>2, <1>3 DEF FedInv, Agents, AgentAt, Now
<1>5. ListOK'
  <2>1. \A z \in FedZones : meta[z] # None /\ PeerOf[z] = Now /\ z \notin L => z \in dead
    BY Zenon DEF FedInv, NotesOK, ListZones, There
  <2> QED BY <1>1, <1>2, <1>4, <2>1 DEF ListOK, There
<1> QED BY Zenon, <1>1, <1>2, <1>4, <1>5 DEF FedInv, FedTypeOK, NoteHonest, There, LogOK, NotesOK, CopyOK, CleanOK

LEMMA EachZoneStep == ASSUME FedInv, EachZone PROVE FedInv'
<1>1. agent.at = "loop" /\ UNCHANGED <<text, log, owed, dead, tab, meta>>
  BY Zenon DEF EachZone, peer, replica
<1>2. ASSUME NEW z \in agent.todo, needs_sync(z), agent' = [agent EXCEPT !.at = "fetch", !.zone = z]
      PROVE  FedInv'
  <2>1. /\ agent' \in Agents /\ agent'.at = "fetch" /\ agent'.zone = z /\ Now' = Now
        /\ agent'.todo = agent.todo /\ agent'.listed = agent.listed
    BY Zenon, <1>2 DEF FedInv, Agents, AgentAt, Now
  <2>2. z \in DOMAIN agent.listed /\ (meta[z] = None \/ meta[z].serial < agent.listed[z])
    BY Zenon, <1>1, <1>2 DEF FedInv, CopyOK, needs_sync
  <2> QED BY Zenon, <1>1, <2>1, <2>2 DEF FedInv, FedTypeOK, NoteHonest, There, LogOK, NotesOK, ListOK, CopyOK, CleanOK
<1>3. ASSUME NEW z \in agent.todo, agent' = [agent EXCEPT !.todo = @ \ {z}]
      PROVE  FedInv'
  <2>1. /\ agent' \in Agents /\ agent'.at = "loop" /\ Now' = Now
        /\ agent'.todo \subseteq agent.todo /\ agent'.listed = agent.listed
    BY Zenon, <1>1, <1>3 DEF FedInv, Agents, AgentAt, Now
  <2> QED BY Zenon, <1>1, <2>1 DEF FedInv, FedTypeOK, NoteHonest, There, LogOK, NotesOK, ListOK, CopyOK, CleanOK
<1>4. ASSUME agent' = [agent EXCEPT !.at = "clean", !.zone = None,
                          !.todo = get_zones_for_peer(Now) \ DOMAIN agent.listed]
      PROVE  FedInv'
  <2>1. /\ agent' \in Agents /\ agent'.at = "clean" /\ Now' = Now
        /\ agent'.todo = get_zones_for_peer(Now) \ DOMAIN agent.listed /\ agent'.listed = agent.listed
    BY Zenon, <1>4 DEF FedInv, Agents, AgentAt, Now, get_zones_for_peer
  <2>2. agent'.todo \subseteq dead
    BY Zenon, <1>1, <2>1 DEF FedInv, ListOK, NotesOK, get_zones_for_peer
  <2> QED BY Zenon, <1>1, <2>1, <2>2 DEF FedInv, FedTypeOK, NoteHonest, There, LogOK, NotesOK, ListOK, CopyOK, CleanOK
<1> QED BY Zenon, <1>1, <1>2, <1>3, <1>4 DEF EachZone

LEMMA FetchStep == ASSUME FedInv, list_records PROVE FedInv'
<1> DEFINE z == agent.zone
<1>1. /\ agent.at = "fetch" /\ agent' = [agent EXCEPT !.at = "upsert", !.got = ListRecords(z)]
      /\ UNCHANGED <<text, log, owed, dead, tab, meta>>
  BY Zenon DEF list_records, peer, replica
<1>2. /\ z \in FedZones /\ z \in DOMAIN agent.listed /\ agent.listed[z] \in DOMAIN log[z] /\ text[z] \in 0 .. MaxText
      /\ text[z] > 0
  BY <1>1 DEF FedInv, FedTypeOK, Agents, Lists, CopyOK, ListOK
<1>3. ListRecords(z) \in 0 .. MaxText /\ ListRecords(z) <= text[z]
  BY <1>2, FedAssumption DEF ListRecords
<1>4. /\ agent' \in Agents /\ agent'.at = "upsert" /\ agent'.zone = z /\ Now' = Now
      /\ agent'.todo = agent.todo /\ agent'.listed = agent.listed /\ agent'.got = ListRecords(z)
  BY Zenon, <1>1, <1>3 DEF FedInv, Agents, AgentAt, Now
<1>5. There(z) => ListRecords(z) = text[z] /\ log[z][agent.listed[z]] <= ListRecords(z)
  BY <1>2, FedAssumption DEF FedInv, FedTypeOK, ListRecords
<1>6. \/ ListRecords(z) = 0 /\ z \in dead
      \/ tab[z] = None
      \/ tab[z].text <= ListRecords(z)
  BY Zenon, <1>2, <1>5 DEF FedInv, NotesOK, ListRecords, There
<1>7. CopyOK'
  BY <1>1, <1>2, <1>3, <1>4, <1>5, <1>6 DEF FedInv, CopyOK, There
<1> QED BY Zenon, <1>1, <1>2, <1>4, <1>7 DEF FedInv, FedTypeOK, NoteHonest, There, LogOK, NotesOK, ListOK, CleanOK

LEMMA UpsertStep == ASSUME FedInv, upsert_zone PROVE FedInv'
<1> DEFINE z == agent.zone
           row == [serial |-> agent.listed[z], text |-> IF tab[z] = None THEN 0 ELSE tab[z].text]
<1>1. /\ agent.at = "upsert" /\ tab' = [tab EXCEPT ![z] = row]
      /\ agent' = [agent EXCEPT !.at = "replace"] /\ UNCHANGED <<text, log, owed, dead, meta>>
  BY Zenon DEF upsert_zone, peer
<1>2. /\ z \in FedZones /\ z \in DOMAIN agent.listed /\ agent.listed[z] \in Nat /\ text[z] \in 0 .. MaxText
  BY <1>1 DEF FedInv, FedTypeOK, Agents, Lists, CopyOK
<1>3. row \in Copies /\ row # None
  BY <1>2, FedAssumption DEF FedInv, FedTypeOK, Copies
<1>4. /\ agent' \in Agents /\ agent'.at = "replace" /\ agent'.zone = z /\ Now' = Now
      /\ agent'.todo = agent.todo /\ agent'.listed = agent.listed /\ agent'.got = agent.got
  BY Zenon, <1>1 DEF FedInv, Agents, AgentAt, Now
<1>5. /\ tab' \in [FedZones -> {None} \cup Copies] /\ tab'[z] = row /\ \A y \in FedZones \ {z} : tab'[y] = tab[y]
  BY Zenon, <1>1, <1>2, <1>3 DEF FedInv, FedTypeOK
<1>6. row.text = IF tab[z] = None THEN 0 ELSE tab[z].text
  BY Zenon
<1>7. FedTypeOK'
  BY Zenon, <1>1, <1>2, <1>4, <1>5 DEF FedInv, FedTypeOK
<1>8. NoteHonest'
  <2> SUFFICES ASSUME NEW y \in FedZones, meta[y] # None, There(y)
               PROVE  tab'[y] # None /\ tab'[y].text >= log[y][meta[y].serial]
    BY Zenon, <1>1 DEF NoteHonest, There
  <2>1. tab[y] # None /\ tab[y].text >= log[y][meta[y].serial]
    BY Zenon DEF FedInv, NoteHonest
  <2> QED BY <1>3, <1>5, <2>1
<1>9. NotesOK' /\ LogOK' /\ ListOK' /\ CleanOK'
  BY <1>1, <1>2, <1>4, <1>5 DEF FedInv, NotesOK, LogOK, ListOK, CleanOK
<1>10. CopyOK'
  <2>1. agent.got \in Nat
    BY FedAssumption DEF FedInv, Agents
  <2>2. \/ agent.got = 0 /\ z \in dead
        \/ row.text <= agent.got
    BY <1>1, <1>6, <2>1 DEF FedInv, CopyOK
  <2> QED BY <1>1, <1>2, <1>3, <1>4, <1>5, <2>2 DEF FedInv, CopyOK, There
<1> QED BY Zenon, <1>4, <1>7, <1>8, <1>9, <1>10 DEF FedInv

LEMMA ReplaceStep == ASSUME FedInv, replace_zone_records PROVE FedInv'
<1> DEFINE z == agent.zone
           row == [tab[z] EXCEPT !.text = agent.got]
<1>1. /\ agent.at = "replace" /\ tab' = [tab EXCEPT ![z] = row]
      /\ agent' = [agent EXCEPT !.at = "note"] /\ UNCHANGED <<text, log, owed, dead, meta>>
  BY Zenon DEF replace_zone_records, peer
<1>2. /\ z \in FedZones /\ z \in DOMAIN agent.listed /\ agent.listed[z] \in DOMAIN log[z] /\ text[z] \in 0 .. MaxText
      /\ tab[z] \in Copies /\ agent.got \in 0 .. MaxText
  BY <1>1 DEF FedInv, FedTypeOK, Agents, Lists, CopyOK, ListOK
<1>3. row \in Copies /\ row # None /\ row.text = agent.got
  BY Zenon, <1>2, FedAssumption DEF Copies
<1>4. /\ agent' \in Agents /\ agent'.at = "note" /\ agent'.zone = z /\ Now' = Now
      /\ agent'.todo = agent.todo /\ agent'.listed = agent.listed /\ agent'.got = agent.got
  BY Zenon, <1>1 DEF FedInv, Agents, AgentAt, Now
<1>5. /\ tab' \in [FedZones -> {None} \cup Copies] /\ tab'[z] = row /\ \A y \in FedZones \ {z} : tab'[y] = tab[y]
  BY Zenon, <1>1, <1>2, <1>3 DEF FedInv, FedTypeOK
<1>6. FedTypeOK'
  BY Zenon, <1>1, <1>2, <1>4, <1>5 DEF FedInv, FedTypeOK
<1>7. NoteHonest'
  <2> SUFFICES ASSUME NEW y \in FedZones, meta[y] # None, There(y)
               PROVE  tab'[y] # None /\ tab'[y].text >= log[y][meta[y].serial]
    BY Zenon, <1>1 DEF NoteHonest, There
  <2>1. CASE y # z
    BY Zenon, <1>5, <2>1 DEF FedInv, NoteHonest
  <2>2. CASE y = z
    <3>1. /\ meta[z].serial < agent.listed[z] /\ log[z][agent.listed[z]] <= agent.got
          /\ meta[z].serial \in DOMAIN log[z]
      BY Zenon, <1>1, <2>2 DEF FedInv, CopyOK, NotesOK
    <3>2. /\ meta[z].serial \in Nat /\ agent.listed[z] \in Nat
          /\ log[z][agent.listed[z]] \in Nat /\ log[z][meta[z].serial] \in Nat
      <4>1. log[z] \in Seq(Nat)
        BY Zenon, <1>2 DEF FedInv, LogOK
      <4> QED BY Zenon, <1>2, <3>1, <4>1, EntryOK
    <3>3. log[z][meta[z].serial] <= log[z][agent.listed[z]]
      <4>1. \A i, j \in DOMAIN log[z] : i <= j => log[z][i] <= log[z][j]
        BY Zenon, <1>2 DEF FedInv, LogOK
      <4>2. meta[z].serial <= agent.listed[z]
        BY <3>1, <3>2
      <4> QED BY <1>2, <3>1, <4>1, <4>2, Zenon
    <3>4. tab'[z] # None /\ tab'[z].text = agent.got /\ agent.got \in Int
      BY <1>2, <1>3, <1>5
    <3> QED BY <2>2, <3>1, <3>2, <3>3, <3>4
  <2> QED BY Zenon, <2>1, <2>2
<1>8. NotesOK'
  BY Zenon, <1>1, <1>2, <1>3, <1>5 DEF FedInv, NotesOK, CopyOK
<1>9. LogOK' /\ ListOK' /\ CleanOK'
  BY Zenon, <1>1, <1>2, <1>4 DEF FedInv, LogOK, ListOK, CleanOK
<1>10. CopyOK'
  BY <1>1, <1>2, <1>3, <1>4, <1>5 DEF FedInv, CopyOK, There
<1> QED BY Zenon, <1>4, <1>6, <1>7, <1>8, <1>9, <1>10 DEF FedInv

LEMMA NoteStep == ASSUME FedInv, set_replication_meta PROVE FedInv'
<1> DEFINE z == agent.zone
           note == [from |-> Now, serial |-> agent.listed[z]]
<1>1. /\ agent.at = "note" /\ meta' = [meta EXCEPT ![z] = note]
      /\ agent' = [agent EXCEPT !.at = "loop", !.todo = @ \ {z}, !.zone = None, !.got = 0]
      /\ UNCHANGED <<text, log, owed, dead, tab>>
  BY Zenon DEF set_replication_meta, peer
<1>2. /\ z \in FedZones /\ z \in DOMAIN agent.listed /\ agent.listed[z] \in DOMAIN log[z] /\ PeerOf[z] = Now
      /\ agent.listed[z] \in Nat /\ text[z] > 0
  BY <1>1 DEF FedInv, FedTypeOK, Agents, Lists, CopyOK, ListOK
<1>3. note \in Notes /\ note # None /\ note.from = PeerOf[z] /\ note.serial = agent.listed[z]
  <2>1. Now \in {Peers[i] : i \in DOMAIN Peers}
    BY Zenon DEF FedInv, Agents, Now
  <2> QED BY <1>2, <2>1, FedAssumption DEF Notes
<1>4. /\ agent' \in Agents /\ agent'.at = "loop" /\ Now' = Now
      /\ agent'.todo \subseteq agent.todo /\ agent'.listed = agent.listed
  <2>1. agent \in Agents /\ agent.todo \ {z} \in SUBSET FedZones /\ 0 \in 0 .. MaxText
    BY FedAssumption DEF FedInv, Agents
  <2>2. /\ agent'.at = "loop" /\ agent'.todo = agent.todo \ {z} /\ agent'.zone = None /\ agent'.got = 0
        /\ agent'.listed = agent.listed /\ agent'.turn = agent.turn
    BY Zenon, <1>1, <2>1 DEF Agents
  <2>3. agent' \in Agents
    BY Zenon, <1>1, <2>1 DEF Agents, AgentAt
  <2> QED BY Zenon, <2>1, <2>2, <2>3 DEF Now
<1>5. /\ meta' \in [FedZones -> {None} \cup Notes] /\ meta'[z] = note /\ \A y \in FedZones \ {z} : meta'[y] = meta[y]
  BY Zenon, <1>1, <1>2, <1>3 DEF FedInv, FedTypeOK
<1>6. FedTypeOK'
  BY Zenon, <1>1, <1>2, <1>4, <1>5 DEF FedInv, FedTypeOK
<1>7. NoteHonest'
  <2> SUFFICES ASSUME NEW y \in FedZones, meta'[y] # None, There(y)
               PROVE  tab[y] # None /\ tab[y].text >= log[y][meta'[y].serial]
    BY Zenon, <1>1 DEF NoteHonest, There
  <2>1. CASE y # z
    BY Zenon, <1>5, <2>1 DEF FedInv, NoteHonest
  <2>2. CASE y = z
    <3>1. tab[z] # None /\ tab[z].text = agent.got /\ log[z][agent.listed[z]] <= agent.got
      BY Zenon, <1>1, <2>2 DEF FedInv, CopyOK
    <3> QED BY Zenon, <1>2, <1>3, <1>5, <2>2, <3>1 DEF FedInv, LogOK, Agents
  <2> QED BY Zenon, <2>1, <2>2
<1>8. NotesOK'
  BY Zenon, <1>1, <1>2, <1>3, <1>5 DEF FedInv, NotesOK
<1>9. ListOK'
  BY Zenon, <1>1, <1>2, <1>4, <1>5 DEF FedInv, ListOK
<1>10. CopyOK' /\ CleanOK' /\ LogOK'
  BY Zenon, <1>1, <1>4 DEF FedInv, CopyOK, CleanOK, LogOK
<1> QED BY Zenon, <1>4, <1>6, <1>7, <1>8, <1>9, <1>10 DEF FedInv

LEMMA DeleteStep == ASSUME FedInv, DeleteZone PROVE FedInv'
<1> PICK z \in agent.todo :
         /\ tab' = [tab EXCEPT ![z] = None]
         /\ agent' = IF tab[z] = None THEN [agent EXCEPT !.todo = @ \ {z}]
                     ELSE [agent EXCEPT !.at = "unnote", !.zone = z]
  BY Zenon DEF DeleteZone
<1>1. agent.at = "clean" /\ UNCHANGED <<text, log, owed, dead, meta>>
  BY Zenon DEF DeleteZone, peer
<1>2. z \in FedZones /\ z \in dead
  BY Zenon, <1>1 DEF FedInv, Agents, CleanOK
<1>3. /\ tab' \in [FedZones -> {None} \cup Copies] /\ tab'[z] = None /\ \A y \in FedZones \ {z} : tab'[y] = tab[y]
  BY Zenon, <1>2 DEF FedInv, FedTypeOK
<1>4. /\ agent' \in Agents /\ Now' = Now /\ agent'.listed = agent.listed /\ agent'.todo \subseteq agent.todo
      /\ agent'.at \in {"clean", "unnote"} /\ (agent'.at = "unnote" => agent'.zone = z /\ agent'.todo = agent.todo)
  <2>1. CASE tab[z] = None
    BY Zenon, <1>1, <2>1 DEF FedInv, Agents, AgentAt, Now
  <2>2. CASE tab[z] # None
    BY Zenon, <1>1, <1>2, <2>2 DEF FedInv, Agents, AgentAt, Now
  <2> QED BY Zenon, <2>1, <2>2
<1>5. FedTypeOK'
  BY Zenon, <1>1, <1>3, <1>4 DEF FedInv, FedTypeOK
<1>6. NoteHonest'
  BY Zenon, <1>1, <1>2, <1>3 DEF FedInv, NoteHonest, There
<1>7. NotesOK' /\ LogOK'
  BY Zenon, <1>1, <1>3 DEF FedInv, NotesOK, LogOK
<1>8. ListOK'
  BY Zenon, <1>1, <1>4 DEF FedInv, ListOK
<1>9. CopyOK' /\ CleanOK'
  BY Zenon, <1>1, <1>4 DEF FedInv, CopyOK, CleanOK
<1> QED BY Zenon, <1>4, <1>5, <1>6, <1>7, <1>8, <1>9 DEF FedInv

LEMMA UnnoteStep == ASSUME FedInv, delete_replication_meta PROVE FedInv'
<1> DEFINE z == agent.zone
<1>1. /\ agent.at = "unnote" /\ meta' = [meta EXCEPT ![z] = None]
      /\ agent' = [agent EXCEPT !.at = "clean", !.zone = None, !.todo = @ \ {z}]
      /\ UNCHANGED <<text, log, owed, dead, tab>>
  BY Zenon DEF delete_replication_meta, peer
<1>2. z \in FedZones
  BY Zenon, <1>1 DEF FedInv, Agents, CleanOK
<1>3. /\ meta' \in [FedZones -> {None} \cup Notes] /\ meta'[z] = None /\ \A y \in FedZones \ {z} : meta'[y] = meta[y]
  BY Zenon, <1>1, <1>2 DEF FedInv, FedTypeOK
<1>4. /\ agent' \in Agents /\ Now' = Now /\ agent'.listed = agent.listed /\ agent'.todo \subseteq agent.todo
      /\ agent'.at = "clean"
  BY Zenon, <1>1 DEF FedInv, Agents, AgentAt, Now
<1>5. FedTypeOK'
  BY Zenon, <1>1, <1>3, <1>4 DEF FedInv, FedTypeOK
<1>6. NoteHonest'
  BY Zenon, <1>1, <1>3 DEF FedInv, NoteHonest, There
<1>7. NotesOK' /\ LogOK'
  BY Zenon, <1>1, <1>3 DEF FedInv, NotesOK, LogOK
<1>8. ListOK'
  BY Zenon, <1>1, <1>3, <1>4 DEF FedInv, ListOK
<1>9. CopyOK' /\ CleanOK'
  BY Zenon, <1>1, <1>4 DEF FedInv, CopyOK, CleanOK
<1> QED BY Zenon, <1>4, <1>5, <1>6, <1>7, <1>8, <1>9 DEF FedInv

LEMMA FedStart == FedInit => FedInv
<1> SUFFICES ASSUME FedInit PROVE FedInv
  BY Zenon
<1>1. agent \in Agents /\ agent.at = "idle"
  <2>1. << >> \in [{} -> Nat]
    OBVIOUS
  <2>2. << >> \in Lists
    BY <2>1, Zenon DEF Lists
  <2>3. 1 \in DOMAIN Peers
    BY FedAssumption
  <2> QED BY <2>2, <2>3, FedAssumption DEF FedInit, Idle, Agents, AgentAt
<1>2. FedTypeOK
  BY <1>1, FedAssumption DEF FedInit, FedTypeOK
<1>3. LogOK
  BY DEF FedInit, LogOK
<1> QED BY Zenon, <1>1, <1>2, <1>3 DEF FedInit, FedInv, NoteHonest, NotesOK, ListOK, CopyOK, CleanOK

LEMMA FedStep == FedInv /\ [FedNext]_fedVars => FedInv'
<1> SUFFICES ASSUME FedInv, [FedNext]_fedVars PROVE FedInv'
  BY Zenon
<1>1. ASSUME NEW z \in FedZones,
             create_zone(z) \/ delete_zone(z) \/ ChangeRecords(z) \/ increment_soa_serial(z) \/ GrpcRecord(z)
      PROVE  FedInv'
  BY Zenon, <1>1, PeersSteps
<1>2. ASSUME NEW i \in DOMAIN Peers, PeerCrash(Peers[i]) PROVE FedInv'
  BY Zenon, <1>2, PeerCrashStep
<1>3. CASE list_zones
  BY Zenon, <1>3, ListStep
<1>4. CASE list_records
  BY Zenon, <1>4, FetchStep
<1>5. CASE Fail \/ PeerDone
  BY Zenon, <1>5, NextTurnOk, TurnOver DEF Fail, PeerDone
<1>6. CASE EachZone
  BY Zenon, <1>6, EachZoneStep
<1>7. CASE upsert_zone
  BY Zenon, <1>7, UpsertStep
<1>8. CASE replace_zone_records
  BY Zenon, <1>8, ReplaceStep
<1>9. CASE set_replication_meta
  BY Zenon, <1>9, NoteStep
<1>10. CASE DeleteZone
  BY Zenon, <1>10, DeleteStep
<1>11. CASE delete_replication_meta
  BY Zenon, <1>11, UnnoteStep
<1>12. CASE ReplicaCrash
  <2>1. 1 \in DOMAIN Peers
    BY FedAssumption
  <2> QED BY Zenon, <1>12, <2>1, TurnOver DEF ReplicaCrash
<1>13. CASE Steady \/ UNCHANGED fedVars
  BY ZenonT(30), <1>13 DEF Steady, fedVars, peer, replica, FedInv, FedTypeOK, NoteHonest, There, LogOK, NotesOK, ListOK,
               CopyOK, CleanOK, Now
<1> QED BY Zenon, <1>1, <1>2, <1>3, <1>4, <1>5, <1>6, <1>7, <1>8, <1>9, <1>10, <1>11, <1>12, <1>13 DEF FedNext, Sync

-----------------------------------------------------------------------------
(* Replication: the theorems. *)

\* However requests fail, the replica restarts and peers come and go between the
\* three transactions of a copy, the replica's note of a zone is never ahead of
\* the records it holds (sync_peer writes the note last).
THEOREM CopiesHonest == FedSpec => []CopyHonest
<1>1. FedInv => CopyHonest
  BY Zenon DEF FedInv, CopyHonest
<1> QED BY <1>1, FedStart, FedStep, PTL DEF FedSpec

\* The records the tables of the replica hold of each zone.
HeldText == [z \in FedZones |-> IF tab[z] = None THEN 0 ELSE tab[z].text]

\* A step that leaves the originals alone and writes one zone of the copy.
LEMMA CopyStep ==
    ASSUME FedInv, UNCHANGED <<text, dead>>, NEW z \in FedZones, NEW v \in Nat,
           HeldText' = [HeldText EXCEPT ![z] = v],
           v \in HeldText[z] .. text[z] \/ (v = 0 /\ z \in dead)
    PROVE  MirrorOfPeers!MirrorNext
<1>1. CASE v \in HeldText[z] .. text[z]
  <2>1. MirrorOfPeers!Copy(z)
    BY Zenon, <1>1 DEF MirrorOfPeers!Copy, HeldText
  <2> QED BY Zenon, <2>1 DEF MirrorOfPeers!MirrorNext
<1>2. CASE v = 0 /\ z \in dead
  <2>1. MirrorOfPeers!Forget(z)
    BY Zenon, <1>2 DEF MirrorOfPeers!Forget, HeldText
  <2> QED BY Zenon, <2>1 DEF MirrorOfPeers!MirrorNext
<1> QED BY Zenon, <1>1, <1>2

LEMMA MirrorStep == FedInv /\ [FedNext]_fedVars => [MirrorOfPeers!MirrorNext]_MirrorOfPeers!mirror
<1> SUFFICES ASSUME FedInv, [FedNext]_fedVars
             PROVE  MirrorOfPeers!MirrorNext \/ UNCHANGED <<text, HeldText, dead>>
  BY Zenon DEF MirrorOfPeers!mirror, HeldText
<1>1. \A z \in FedZones : text[z] \in Nat /\ HeldText[z] \in Nat
  BY FedAssumption DEF FedInv, FedTypeOK, Copies, HeldText
<1>2. ASSUME NEW z \in FedZones, create_zone(z) \/ ChangeRecords(z) \/ GrpcRecord(z)
      PROVE  MirrorOfPeers!MirrorNext
  <2>1. z \notin dead /\ text' = [text EXCEPT ![z] = text[z] + 1] /\ UNCHANGED <<dead, tab>>
    BY <1>1, <1>2 DEF create_zone, ChangeRecords, GrpcRecord, There, replica, FedInv, LogOK
  <2>2. MirrorOfPeers!Change(z)
    BY Zenon, <2>1 DEF MirrorOfPeers!Change
  <2> QED BY Zenon, <2>2 DEF MirrorOfPeers!MirrorNext
<1>3. ASSUME NEW z \in FedZones, delete_zone(z)
      PROVE  MirrorOfPeers!MirrorNext
  <2>1. text[z] > 0 /\ dead' = dead \cup {z} /\ UNCHANGED <<text, tab>>
    BY Zenon, <1>3 DEF delete_zone, There, replica
  <2>2. MirrorOfPeers!Remove(z)
    BY Zenon, <2>1 DEF MirrorOfPeers!Remove
  <2> QED BY Zenon, <2>2 DEF MirrorOfPeers!MirrorNext
<1>4. ASSUME NEW z \in FedZones, increment_soa_serial(z)
      PROVE  UNCHANGED <<text, HeldText, dead>>
  BY Zenon, <1>4 DEF increment_soa_serial, replica, HeldText
<1>5. ASSUME NEW p, PeerCrash(p)
      PROVE  UNCHANGED <<text, HeldText, dead>>
  BY Zenon, <1>5 DEF PeerCrash, replica, HeldText
<1>6. CASE list_zones \/ list_records \/ Fail \/ EachZone \/ set_replication_meta \/ delete_replication_meta
           \/ PeerDone \/ ReplicaCrash \/ Steady \/ UNCHANGED fedVars
  BY Zenon, <1>6 DEF list_zones, list_records, Fail, EachZone, set_replication_meta, delete_replication_meta, PeerDone,
              ReplicaCrash, Steady, fedVars, peer, replica, HeldText
<1>7. CASE upsert_zone
  <2> DEFINE z == agent.zone
  <2>1. /\ z \in FedZones /\ tab \in [FedZones -> {None} \cup Copies] /\ agent.listed[z] \in Nat
        /\ UNCHANGED <<text, dead>>
    BY <1>7 DEF upsert_zone, FedInv, FedTypeOK, Agents, Lists, CopyOK, peer
  <2>2. /\ tab'[z] = [serial |-> agent.listed[z], text |-> IF tab[z] = None THEN 0 ELSE tab[z].text]
        /\ \A y \in FedZones \ {z} : tab'[y] = tab[y]
    BY Zenon, <1>7, <2>1 DEF upsert_zone
  <2>3. tab'[z] # None /\ tab'[z].text = IF tab[z] = None THEN 0 ELSE tab[z].text
    BY <1>7, UpsertStep, <2>1, <2>2, FedAssumption DEF FedInv, FedTypeOK, Copies
  <2>4. \A y \in FedZones : HeldText'[y] = HeldText[y]
    BY Zenon, <2>1, <2>2, <2>3 DEF HeldText
  <2>5. HeldText' = HeldText
    BY Zenon, <2>4 DEF HeldText
  <2> QED BY Zenon, <2>1, <2>5
<1>8. CASE replace_zone_records
  <2> DEFINE z == agent.zone
  <2>1. /\ z \in FedZones /\ tab \in [FedZones -> {None} \cup Copies] /\ tab[z] # None /\ agent.got \in 0 .. MaxText
        /\ agent.got \in Nat
        /\ UNCHANGED <<text, dead>> /\ agent.got <= text[z]
        /\ (agent.got = 0 /\ z \in dead) \/ tab[z].text <= agent.got
    BY <1>8, FedAssumption DEF replace_zone_records, FedInv, FedTypeOK, Agents, Lists, CopyOK, peer
  <2>2. /\ tab'[z] = [tab[z] EXCEPT !.text = agent.got]
        /\ \A y \in FedZones \ {z} : tab'[y] = tab[y]
    BY Zenon, <1>8, <2>1 DEF replace_zone_records
  <2>3. tab'[z] # None /\ tab'[z].text = agent.got
    BY <2>1, <2>2, FedAssumption DEF Copies
  <2>4. HeldText' = [HeldText EXCEPT ![z] = agent.got]
    BY Zenon, <2>1, <2>2, <2>3 DEF HeldText
  <2>5. agent.got \in HeldText[z] .. text[z] \/ (agent.got = 0 /\ z \in dead)
    <3>1. HeldText[z] = tab[z].text
      BY Zenon, <2>1 DEF HeldText
    <3> QED BY <1>1, <2>1, <3>1
  <2> QED BY Zenon, <2>1, <2>4, <2>5, CopyStep
<1>9. CASE DeleteZone
  <2> PICK z \in agent.todo : tab' = [tab EXCEPT ![z] = None]
    BY Zenon, <1>9 DEF DeleteZone
  <2>1. z \in FedZones /\ z \in dead /\ tab \in [FedZones -> {None} \cup Copies] /\ UNCHANGED <<text, dead>>
    BY Zenon, <1>9 DEF DeleteZone, FedInv, FedTypeOK, Agents, CleanOK, peer
  <2>2. HeldText' = [HeldText EXCEPT ![z] = 0]
    BY Zenon, <2>1 DEF HeldText
  <2> QED BY Zenon, <2>1, <2>2, CopyStep
<1> QED BY Zenon, <1>2, <1>3, <1>4, <1>5, <1>6, <1>7, <1>8, <1>9 DEF FedNext, Sync

\* Replication implements the mirror: whatever crashes, failures and delays there
\* are, the replica holds of a zone only what its own peer has had, never goes
\* back to older records, and gives a zone up only when its peer deleted it.
THEOREM ReplicationMirrors == FedSpec => ReplicaMirrors
<1>1. FedInit => MirrorOfPeers!MirrorInit
  BY Zenon DEF FedInit, MirrorOfPeers!MirrorInit
<1> QED BY <1>1, FedStart, FedStep, MirrorStep, PTL DEF FedSpec, ReplicaMirrors, MirrorOfPeers!MirrorSpec

-----------------------------------------------------------------------------
(* The sync agent of a leaf. *)

\* The push between its two transactions has written its zone.
SyncInv ==
    /\ LeafTablesSound
    /\ pushes \in 0 .. MaxPush /\ bus \subseteq Pushes
    /\ doing # None => /\ doing \in Pushes
                       /\ zoneOf[doing.id] = [name |-> doing.name, nr |-> doing.nr]

LEMMA SyncHandled ==
    ASSUME SyncInv, NEW push \in bus, NEW again \in BOOLEAN, NEW ok \in BOOLEAN,
           handle_config_event(push, again, ok)
    PROVE  SyncInv'
<1>1. push \in Pushes /\ doing = None /\ bus' \subseteq Pushes /\ UNCHANGED <<pushes, textOf, torn>>
  BY Zenon DEF SyncInv, handle_config_event
<1>2. CASE UNCHANGED <<doing, zoneOf, idxOf, clashed>>
  BY Zenon, <1>1, <1>2 DEF SyncInv, LeafTablesSound, SyncUntorn, SyncNamed
<1>3. CASE /\ Upserted(push) /\ doing' = push
           /\ clashed' = IF idxOf[push.name] \in {None, push.id} THEN clashed ELSE clashed \cup {push.name}
  <2> DEFINE row == [name |-> push.name, nr |-> push.nr]
  <2>1. push # None /\ push.id \in SyncIds /\ push.name \in SyncNames /\ row \in LeafZones /\ row # None
    BY <1>1, SyncAssumption DEF Pushes, LeafZones
  <2>2. /\ zoneOf \in [SyncIds -> {None} \cup LeafZones] /\ idxOf \in [SyncNames -> {None} \cup SyncIds]
        /\ textOf \in [SyncIds -> 0 .. MaxPush]
    BY Zenon DEF SyncInv, LeafTablesSound, SyncUntorn
  <2>3. zoneOf' = [zoneOf EXCEPT ![push.id] = row]
    BY Zenon, <1>3 DEF Upserted
  <2>4. zoneOf' \in [SyncIds -> {None} \cup LeafZones] /\ zoneOf'[push.id] = row
        /\ \A i \in SyncIds \ {push.id} : zoneOf'[i] = zoneOf[i]
    BY Zenon, <2>1, <2>2, <2>3
  <2>5. /\ idxOf'[push.name] = push.id
        /\ \A n \in SyncNames \ {push.name} :
              idxOf'[n] = IF zoneOf[push.id] # None /\ zoneOf[push.id].name = n THEN None ELSE idxOf[n]
    BY Zenon, <1>3, <2>1 DEF Upserted
  <2>6. idxOf' \in [SyncNames -> {None} \cup SyncIds]
    BY Zenon, <1>3, <2>1, <2>2 DEF Upserted
  <2>7. SyncUntorn'
    BY Zenon, <1>1, <1>3, <2>1, <2>2, <2>4, <2>6 DEF SyncInv, LeafTablesSound, SyncUntorn
  <2>8. ASSUME NEW n \in SyncNames, idxOf'[n] # None
        PROVE  zoneOf'[idxOf'[n]] # None /\ zoneOf'[idxOf'[n]].name = n
    <3>1. CASE n = push.name
      BY <2>1, <2>4, <2>5, <3>1
    <3>2. CASE n # push.name
      <4>1. /\ idxOf'[n] = idxOf[n] /\ idxOf[n] # None /\ idxOf[n] \in SyncIds
            /\ ~(zoneOf[push.id] # None /\ zoneOf[push.id].name = n)
        BY Zenon, <2>2, <2>5, <2>8, <3>2
      <4>2. zoneOf[idxOf[n]] # None /\ zoneOf[idxOf[n]].name = n
        BY Zenon, <4>1 DEF SyncInv, LeafTablesSound, SyncNamed
      <4> QED BY Zenon, <2>4, <4>1, <4>2
    <3> QED BY Zenon, <3>1, <3>2
  <2>9. ASSUME NEW i \in SyncIds, zoneOf'[i] # None, zoneOf'[i].name \notin clashed'
        PROVE  idxOf'[zoneOf'[i].name] = i
    <3>1. CASE i = push.id
      BY <2>1, <2>4, <2>5, <3>1
    <3>2. CASE i # push.id
      <4> DEFINE n == zoneOf[i].name
      <4>1. zoneOf[i] # None /\ n \in SyncNames /\ n \notin clashed /\ zoneOf'[i] = zoneOf[i]
        BY Zenon, <1>3, <2>2, <2>4, <2>9, <3>2 DEF LeafZones
      <4>2. idxOf[n] = i
        BY Zenon, <4>1 DEF SyncInv, LeafTablesSound, SyncNamed
      <4>3. n # push.name
        BY Zenon, <1>3, <2>9, <3>2, <4>1, <4>2, SyncAssumption
      <4>4. ~(zoneOf[push.id] # None /\ zoneOf[push.id].name = n)
        BY Zenon, <2>1, <3>2, <4>1, <4>2 DEF SyncInv, LeafTablesSound, SyncNamed
      <4> QED BY Zenon, <2>5, <4>1, <4>2, <4>3, <4>4
    <3> QED BY Zenon, <3>1, <3>2
  <2>10. SyncNamed'
    BY Zenon, <2>8, <2>9 DEF SyncNamed
  <2> QED BY Zenon, <1>1, <1>3, <2>1, <2>4, <2>7, <2>10 DEF SyncInv, LeafTablesSound
<1> QED BY Zenon, <1>2, <1>3 DEF handle_config_event

LEMMA SyncStep == SyncInv /\ [SyncNext]_syncVars => SyncInv'
<1> SUFFICES ASSUME SyncInv, [SyncNext]_syncVars PROVE SyncInv'
  BY Zenon
<1>1. ASSUME NEW i \in SyncIds, NEW n \in SyncNames, NEW f \in Flaws, Push(i, n, f)
      PROVE  SyncInv'
  <2>0. pushes \in 0 .. MaxPush /\ pushes < MaxPush /\ pushes' = pushes + 1
    BY Zenon, <1>1 DEF SyncInv, Push
  <2>1. pushes' \in 0 .. MaxPush /\ pushes + 1 \in 1 .. MaxPush
    BY <2>0, SyncAssumption
  <2>2. bus' \subseteq Pushes
    BY <1>1, <2>1 DEF SyncInv, Push, Pushes
  <2> QED BY Zenon, <1>1, <2>1, <2>2 DEF Push, SyncInv, LeafTablesSound, SyncUntorn, SyncNamed
<1>2. ASSUME NEW push \in bus, LosePush(push) PROVE SyncInv'
  BY Zenon, <1>2 DEF LosePush, SyncInv, LeafTablesSound, SyncUntorn, SyncNamed
<1>3. ASSUME NEW push \in bus, NEW again \in BOOLEAN, NEW ok \in BOOLEAN, handle_config_event(push, again, ok)
      PROVE  SyncInv'
  BY Zenon, <1>3, SyncHandled
<1>4. ASSUME NEW ok \in BOOLEAN, ReplaceRecords(ok) PROVE SyncInv'
  <2>1. /\ doing \in Pushes /\ doing' = None /\ doing.id \in SyncIds /\ doing.nr \in 0 .. MaxPush
        /\ UNCHANGED <<bus, pushes, zoneOf, idxOf, clashed>>
        /\ zoneOf[doing.id].nr = doing.nr
    BY <1>4 DEF ReplaceRecords, SyncInv, Pushes
  <2>2. SyncUntorn'
    BY Zenon, <1>4, <2>1 DEF ReplaceRecords, SyncInv, LeafTablesSound, SyncUntorn
  <2> QED BY Zenon, <2>1, <2>2 DEF SyncInv, LeafTablesSound, SyncNamed
<1>5. CASE LeafRestart
  BY Zenon, <1>5 DEF LeafRestart, SyncInv, LeafTablesSound, SyncUntorn, SyncNamed
<1>6. CASE UNCHANGED syncVars
  BY Zenon, <1>6 DEF syncVars, SyncInv, LeafTablesSound, SyncUntorn, SyncNamed
<1> QED BY Zenon, <1>1, <1>2, <1>3, <1>4, <1>5, <1>6 DEF SyncNext

\* However the bus loses, repeats and reorders pushes and wherever the leaf is
\* restarted, its index and tables fit each other (upsert_zone), and a zone's
\* records are of the push its zone is from, but for one that was cut off.
THEOREM LeafSound == SyncSpec => []LeafTablesSound
<1>1. SyncInit => SyncInv
  BY SyncAssumption DEF SyncInit, SyncInv, LeafTablesSound, SyncUntorn, SyncNamed
<1>2. SyncInv => LeafTablesSound
  BY Zenon DEF SyncInv
<1> QED BY <1>1, <1>2, SyncStep, PTL DEF SyncSpec

-----------------------------------------------------------------------------
(* Heartbeats. *)

\* How much older than one interval a note may be: an interval for a heartbeat
\* that was lost, and one for a heartbeat on the bus.
Lag(l) == (IF missed[l] = 0 THEN 0 ELSE Interval) + (IF l \in wire THEN Interval ELSE 0)

\* While the clock is not set a note is as old as the silence, and of a leaf
\* that is heard the note and the timer together span an interval and the lag.
BeatInv ==
    /\ BeatTypeOK
    /\ \A l \in Leaves : instances[l] # None /\ ~stepped[l] => instances[l] = silent[l]
    /\ \A l \in Leaves : due[l] # None /\ missed[l] < 2 =>
          /\ l \in wire => due[l] = Interval
          /\ ~stepped[l] => instances[l] # None /\ instances[l] + due[l] <= Lag(l) + Interval

LEMMA BeatNumbers ==
    ASSUME BeatInv
    PROVE  /\ Interval \in Nat \ {0} /\ Wrap \in Nat /\ MaxAge = 9 * Interval /\ Timeout = 3 * Interval
           /\ MaxAge < Wrap /\ None \notin Int
           /\ \A l \in Leaves : /\ instances[l] = None \/ (instances[l] \in Int /\ instances[l] <= MaxAge)
                                /\ due[l] = None \/ due[l] \in 0 .. Interval
                                /\ missed[l] \in 0 .. 2 /\ silent[l] \in 0 .. MaxAge /\ stepped[l] \in BOOLEAN
BY BeatAssumption DEF BeatInv, BeatTypeOK, MaxAge, Timeout

\* A note that is as old as the silence is read as it is.
LEMMA TrueAge ==
    ASSUME BeatInv, NEW l \in Leaves, instances[l] # None, ~stepped[l]
    PROVE  elapsed(l) = silent[l] /\ instances[l] = silent[l]
<1>1. instances[l] = silent[l] /\ silent[l] \in Nat /\ silent[l] < Wrap /\ Wrap \in Nat /\ Wrap > 0
  BY BeatNumbers DEF BeatInv
<1>2. silent[l] % Wrap = silent[l]
  BY <1>1
<1> QED BY Zenon, <1>1, <1>2 DEF elapsed

LEMMA LeafHeard == ASSUME BeatInv PROVE OneLossTolerated
<1> SUFFICES ASSUME NEW l \in Leaves, due[l] # None, missed[l] < 2, ~stepped[l]
             PROVE  Healthy(l)
  BY Zenon DEF OneLossTolerated
<1>1. /\ instances[l] # None /\ instances[l] + due[l] <= Lag(l) + Interval
      /\ l \in wire => due[l] = Interval
  BY Zenon DEF BeatInv
<1>2. instances[l] < Timeout
  BY <1>1, BeatNumbers DEF Lag
<1> QED BY Zenon, <1>1, <1>2, TrueAge DEF Healthy

LEMMA BeatStep == BeatInv /\ [BeatNext]_beatVars => BeatInv'
<1> SUFFICES ASSUME BeatInv, [BeatNext]_beatVars PROVE BeatInv'
  BY Zenon
<1> USE BeatNumbers
<1>1. ASSUME NEW k \in Leaves, LeafStart(k) PROVE BeatInv'
  BY <1>1 DEF LeafStart, BeatInv, BeatTypeOK, Lag
<1>2. ASSUME NEW k \in Leaves, LeafStop(k) PROVE BeatInv'
  BY Zenon, <1>2 DEF LeafStop, BeatInv, BeatTypeOK, Lag
<1>3. ASSUME NEW k \in Leaves, handle_heartbeat(k) PROVE BeatInv'
  BY <1>3 DEF handle_heartbeat, record_heartbeat, BeatInv, BeatTypeOK, Lag
<1>4. ASSUME NEW k \in Leaves, Lose(k) PROVE BeatInv'
  BY <1>4 DEF Lose, BeatInv, BeatTypeOK, Lag
<1>5. ASSUME NEW k \in Leaves, NEW sent \in BOOLEAN, Beat(k, sent) PROVE BeatInv'
  BY <1>5 DEF Beat, BeatInv, BeatTypeOK, Lag
<1>6. CASE prune_stale
  <2>1. \A l \in Leaves : Stale(l) => stepped[l] \/ silent[l] >= MaxAge
    BY Zenon, TrueAge DEF Stale
  <2> QED BY <1>6, <2>1 DEF prune_stale, BeatInv, BeatTypeOK, Lag
<1>7. CASE CoordinatorRestart
  BY <1>7 DEF CoordinatorRestart, BeatInv, BeatTypeOK
<1>8. CASE Second
  BY <1>8 DEF Second, BeatInv, BeatTypeOK, Lag, Cap
<1>9. ASSUME NEW d \in ClockSteps, SetClock(d) PROVE BeatInv'
  BY <1>9, BeatAssumption DEF SetClock, BeatInv, BeatTypeOK, Cap
<1>10. CASE UNCHANGED beatVars
  BY Zenon, <1>10 DEF beatVars, BeatInv, BeatTypeOK, Lag
<1> QED BY Zenon, <1>1, <1>2, <1>3, <1>4, <1>5, <1>6, <1>7, <1>8, <1>9, <1>10 DEF BeatNext

\* The heartbeat table is accurate: a leaf that is up is reported healthy through
\* any single loss (get_all_status: three intervals of patience for beats one
\* interval apart), and no instance is pruned while it is heard, as long as the
\* coordinator's clock is not set.
THEOREM DetectorAccurate == BeatSpec => [](BeatTypeOK /\ OneLossTolerated) /\ DroppedWhenSilent
<1>1. BeatInit => BeatInv
  BY BeatAssumption DEF BeatInit, BeatInv, BeatTypeOK, MaxAge, Timeout
<1>2. BeatInv => BeatTypeOK /\ OneLossTolerated
  BY Zenon, LeafHeard DEF BeatInv
<1>3. BeatInv /\ [BeatNext]_beatVars =>
          [\A l \in Leaves : instances[l] # None /\ instances'[l] = None
                => CoordinatorRestart \/ silent[l] >= MaxAge \/ stepped[l]]_beatVars
  <2> SUFFICES ASSUME BeatInv, BeatNext, NEW l \in Leaves, instances[l] # None, instances'[l] = None,
                      ~CoordinatorRestart
               PROVE  silent[l] >= MaxAge \/ stepped[l]
    BY Zenon
  <2> USE BeatNumbers
  <2>1. ~\E k \in Leaves : handle_heartbeat(k)
    BY DEF handle_heartbeat, record_heartbeat, BeatInv, BeatTypeOK
  <2>2. ~Second
    BY DEF Second, Cap
  <2>3. ~\E d \in ClockSteps : SetClock(d)
    BY BeatAssumption DEF SetClock, Cap
  <2>4. CASE prune_stale
    BY Zenon, <2>4, TrueAge DEF prune_stale, Stale
  <2> QED BY Zenon, <2>1, <2>2, <2>3, <2>4 DEF BeatNext, LeafStart, LeafStop, Beat, Lose
<1> QED BY <1>1, <1>2, <1>3, BeatStep, PTL DEF BeatSpec, DroppedWhenSilent

-----------------------------------------------------------------------------
(* The mDNS source.  The invariant has two parts.  The first is about the  *)
(* memory of each instance by itself, which no other instance touches.     *)
(* The second relates the memory of the holder to its records of the zones.*)

Sources == [at : Stages, then : {"load", "wait"}, cfg : Configs \cup {None},
            dirty : BOOLEAN, grace : BOOLEAN,
            heard : [Names -> {"no", "fresh", "due"}],
            add : SUBSET Names, del : SUBSET Names, theirs : SUBSET Names]

\* What an instance is to delete while listening: it is past the grace, and does
\* not want the name or leaves it to an operator.
ForAReason(i, s) ==
    \A n \in s.del : s.grace /\ (n \in desired(s.heard, s.cfg) => i = Holder /\ n \in s.theirs)

\* The memory of an instance: a cache only while it listens, a configuration from
\* the time it was loaded to the time it is done with, and plans only while they
\* are carried out.
Sane(i, s) ==
    /\ s \in Sources
    /\ s.at \notin {"session", "apply"} => \A n \in Names : s.heard[n] = "no"
    /\ s.cfg = None <=> s.at \in {"load", "wait"}
    /\ s.at # "apply" => s.add = {}
    /\ s.at \notin {"apply", "withdraw"} => s.del = {}
    /\ s.at = "apply" => s.add \subseteq s.cfg.pass /\ ForAReason(i, s)

AllSane ==
    /\ stored \in [Instances -> Configs \cup {None}]
    /\ pub \subseteq [zone : Zones, name : Names, by : Instances \cup {Curator}]
    /\ alive \subseteq Names /\ restarted \subseteq Instances
    /\ m \in [Instances -> Sources]
    /\ \A i \in Instances : Sane(i, m[i])

\* The records of a holder that was not restarted are in the zone it is
\* configured for, and its filter lets them pass; there are none when it is not
\* listening, and the ones left in a withdrawal are on its list.
HolderTidy ==
    Holder \notin restarted =>
        /\ \A z \in Zones : Mine(Holder, z) # {} =>
              m[Holder].cfg # None /\ m[Holder].cfg.zone = z /\ Mine(Holder, z) \subseteq m[Holder].cfg.pass
        /\ m[Holder].at \notin {"session", "apply", "list", "withdraw"} => \A z \in Zones : Mine(Holder, z) = {}
        /\ m[Holder].at = "withdraw" => Mine(Holder, m[Holder].cfg.zone) \subseteq m[Holder].del

MdnsInv == AllSane /\ HolderTidy

-----------------------------------------------------------------------------
(* The memory of an instance. *)

LEMMA Moves ==
    ASSUME AllSane, NEW i \in Instances, NEW s, Goto(i, s), Sane(i, s)
    PROVE  /\ m' \in [Instances -> Sources] /\ m'[i] = s
           /\ \A j \in Instances \ {i} : m'[j] = m[j]
           /\ \A j \in Instances : Sane(j, m'[j])
<1>1. s \in Sources
  BY Zenon DEF Sane
<1>2. m' \in [Instances -> Sources] /\ m'[i] = s /\ \A j \in Instances \ {i} : m'[j] = m[j]
  BY Zenon, <1>1 DEF AllSane, Goto
<1> QED BY Zenon, <1>2 DEF AllSane

LEMMA StartedSane ==
    ASSUME NEW i \in Instances
    PROVE  /\ Started \in Sources
           /\ Sane(i, Started)
           /\ Sane(i, [Started EXCEPT !.at = "wait"])
           /\ Started.at = "load" /\ [Started EXCEPT !.at = "wait"].at = "wait"
           /\ \A c \in Configs : /\ Sane(i, [Started EXCEPT !.at = "open", !.cfg = c])
                                 /\ Sane(i, [Started EXCEPT !.at = "list", !.cfg = c])
                                 /\ Sane(i, [Started EXCEPT !.at = "list", !.cfg = c, !.then = "wait"])
<1>1. /\ Started \in Sources /\ Started.at = "load" /\ Started.cfg = None /\ Started.add = {} /\ Started.del = {}
      /\ \A n \in Names : Started.heard[n] = "no"
  BY Zenon DEF Started, Sources, Stages
<1>2. Sane(i, Started)
  BY Zenon, <1>1 DEF Sane
<1>3. Sane(i, [Started EXCEPT !.at = "wait"]) /\ [Started EXCEPT !.at = "wait"].at = "wait"
  <2> DEFINE s == [Started EXCEPT !.at = "wait"]
  <2>1. s \in Sources /\ s.at = "wait" /\ s.cfg = None /\ s.add = {} /\ s.del = {} /\ s.heard = Started.heard
    BY Zenon, <1>1 DEF Sources, Stages
  <2> HIDE DEF s
  <2>2. Sane(i, s)
    BY Zenon, <1>1, <2>1 DEF Sane
  <2> QED BY Zenon, <2>1, <2>2 DEF s
<1>4. ASSUME NEW s \in Sources, s.at \in {"open", "list"}, s.cfg \in Configs,
             s.add = {}, s.del = {}, s.heard = Started.heard
      PROVE  Sane(i, s)
  BY Zenon, <1>1, <1>4, MdnsAssumption DEF Sane
<1>5. ASSUME NEW c \in Configs
      PROVE  /\ Sane(i, [Started EXCEPT !.at = "open", !.cfg = c])
             /\ Sane(i, [Started EXCEPT !.at = "list", !.cfg = c])
             /\ Sane(i, [Started EXCEPT !.at = "list", !.cfg = c, !.then = "wait"])
  <2> DEFINE o == [Started EXCEPT !.at = "open", !.cfg = c]
             l == [Started EXCEPT !.at = "list", !.cfg = c]
             w == [Started EXCEPT !.at = "list", !.cfg = c, !.then = "wait"]
  <2>1. o \in Sources /\ o.at = "open" /\ o.cfg = c /\ o.add = {} /\ o.del = {} /\ o.heard = Started.heard
    BY Zenon, <1>1 DEF Sources, Stages
  <2>2. l \in Sources /\ l.at = "list" /\ l.cfg = c /\ l.add = {} /\ l.del = {} /\ l.heard = Started.heard
    BY Zenon, <1>1 DEF Sources, Stages
  <2>3. w \in Sources /\ w.at = "list" /\ w.cfg = c /\ w.add = {} /\ w.del = {} /\ w.heard = Started.heard
    BY Zenon, <1>1 DEF Sources, Stages
  <2> HIDE DEF o, l, w
  <2>4. Sane(i, o) /\ Sane(i, l) /\ Sane(i, w)
    BY Zenon, <1>4, <2>1, <2>2, <2>3
  <2> QED BY Zenon, <2>4 DEF o, l, w
<1> QED BY Zenon, <1>1, <1>2, <1>3, <1>4, <1>5

LEMMA LoadSane == ASSUME AllSane, NEW i \in Instances, Load(i) PROVE Sane(i, m'[i])
<1>1. \E s : Goto(i, s) /\ Sane(i, s)
  BY Zenon, StartedSane DEF Load, AllSane
<1> QED BY Zenon, <1>1, Moves

LEMMA OpenSane == ASSUME AllSane, NEW i \in Instances, Open(i) PROVE Sane(i, m'[i])
<1>1. PICK a \in {"session", "failed"} : Goto(i, [m[i] EXCEPT !.at = a])
  BY Zenon DEF Open
<1>2. m[i] \in Sources /\ Sane(i, m[i]) /\ m[i].at = "open"
  BY Zenon DEF AllSane, Open, At
<1> DEFINE s == [m[i] EXCEPT !.at = a]
<1>3. /\ s \in Sources /\ s.at = a /\ s.cfg = m[i].cfg /\ s.add = m[i].add /\ s.del = m[i].del
      /\ s.heard = m[i].heard
  BY Zenon, <1>2 DEF Sources, Stages
<1> HIDE DEF s
<1>4. Sane(i, s)
  BY Zenon, <1>2, <1>3 DEF Sane
<1> QED BY Zenon, <1>1, <1>4, Moves DEF s

LEMMA ConfigTickSane == ASSUME AllSane, NEW i \in Instances, ConfigTick(i) PROVE Sane(i, m'[i])
<1>1. m[i].cfg \in Configs
  BY Zenon DEF AllSane, Sane, Sources, ConfigTick, At
<1> QED BY Zenon, <1>1, StartedSane, Moves DEF ConfigTick

\* A plan: the names to be created pass the filter, those to be deleted have a
\* reason.
LEMMA PlanRight ==
    ASSUME AllSane, NEW i \in Instances, m[i].cfg \in Configs,
           NEW heard \in [Names -> {"no", "fresh", "due"}], NEW prune \in BOOLEAN
    PROVE  LET p == Plan(i, heard, prune) IN
           /\ p.add \in SUBSET Names /\ p.del \in SUBSET Names /\ p.theirs \in SUBSET Names
           /\ p.add \subseteq m[i].cfg.pass
           /\ \A n \in p.del : prune /\ (n \in desired(heard, m[i].cfg) => i = Holder /\ n \in p.theirs)
<1> DEFINE want == desired(heard, m[i].cfg)
<1>1. want \subseteq Names /\ want \subseteq m[i].cfg.pass
  BY Zenon DEF desired, permits
<1> HIDE DEF want
<1>2. CASE Remote(i)
  <2>1. Plan(i, heard, prune) = remote_plan(i, want, prune)
    BY Zenon, <1>2 DEF Plan, want
  <2> QED BY <1>1, <2>1 DEF remote_plan, Mine, want
<1>3. CASE ~Remote(i)
  <2>1. Plan(i, heard, prune) = local_plan(i, want, prune) /\ i = Holder
    BY Zenon, <1>3 DEF Plan, Remote, want
  <2> QED BY <1>1, <2>1 DEF local_plan, Mine, want
<1> QED BY Zenon, <1>2, <1>3

LEMMA ReconcileSane == ASSUME AllSane, NEW i \in Instances, Reconcile(i) PROVE Sane(i, m'[i])
<1> DEFINE kept == expire(m[i].heard)
           plan == Plan(i, kept, m[i].grace)
           s == [m[i] EXCEPT !.at = "apply", !.heard = kept, !.add = plan.add, !.del = plan.del, !.theirs = plan.theirs]
           t == [m[i] EXCEPT !.heard = kept]
<1>1. m[i] \in Sources /\ m[i].at = "session" /\ m[i].cfg # None /\ m[i].add = {} /\ m[i].del = {}
  BY Zenon DEF AllSane, Sane, Reconcile, At
<1>2. kept \in [Names -> {"no", "fresh", "due"}] /\ m[i].cfg \in Configs /\ m[i].grace \in BOOLEAN
  BY Zenon, <1>1 DEF expire, Sources
<1>3. /\ plan.add \in SUBSET Names /\ plan.del \in SUBSET Names /\ plan.theirs \in SUBSET Names
      /\ plan.add \subseteq m[i].cfg.pass
      /\ \A n \in plan.del : m[i].grace /\ (n \in desired(kept, m[i].cfg) => i = Holder /\ n \in plan.theirs)
  BY Zenon, <1>2, PlanRight
<1>4. Goto(i, s) \/ Goto(i, t)
  BY Zenon DEF Reconcile
<1> HIDE DEF kept, plan
<1>5. s \in Sources /\ t \in Sources
  BY Zenon, <1>1, <1>2, <1>3 DEF Sources, Stages
<1>6. /\ s.at = "apply" /\ s.cfg = m[i].cfg /\ s.heard = kept /\ s.grace = m[i].grace
      /\ s.add = plan.add /\ s.del = plan.del /\ s.theirs = plan.theirs
      /\ t.at = "session" /\ t.cfg = m[i].cfg /\ t.add = {} /\ t.del = {}
  BY Zenon, <1>1 DEF Sources
<1> HIDE DEF s, t
<1>7. Sane(i, s)
  BY Zenon, <1>1, <1>3, <1>5, <1>6 DEF Sane, ForAReason
<1>8. Sane(i, t)
  BY Zenon, <1>1, <1>5, <1>6 DEF Sane
<1> QED BY Zenon, <1>4, <1>7, <1>8, Moves

LEMMA ListedSane ==
    ASSUME AllSane, NEW i \in Instances, At(i, "list"), NEW D \in SUBSET Names,
           Goto(i, [m[i] EXCEPT !.at = "withdraw", !.del = D])
    PROVE  Sane(i, m'[i]) /\ m'[i].at = "withdraw" /\ m'[i].del = D /\ m'[i].cfg = m[i].cfg
<1> DEFINE s == [m[i] EXCEPT !.at = "withdraw", !.del = D]
<1>1. m[i] \in Sources /\ Sane(i, m[i]) /\ m[i].at = "list"
  BY Zenon DEF AllSane, At
<1>2. /\ s \in Sources /\ s.at = "withdraw" /\ s.cfg = m[i].cfg /\ s.add = m[i].add /\ s.del = D
      /\ s.heard = m[i].heard
  BY Zenon, <1>1 DEF Sources, Stages
<1> HIDE DEF s
<1>3. Sane(i, s)
  BY Zenon, <1>1, <1>2 DEF Sane
<1> QED BY Zenon, <1>2, <1>3, Moves DEF s

\* A deletion or a creation is done.
LEMMA DoneSane ==
    ASSUME AllSane, NEW i \in Instances, m[i].at \in {"apply", "withdraw"}, NEW n
    PROVE  /\ Goto(i, [m[i] EXCEPT !.del = @ \ {n}]) =>
                 /\ Sane(i, m'[i]) /\ m'[i].del = m[i].del \ {n}
                 /\ m'[i].at = m[i].at /\ m'[i].cfg = m[i].cfg
           /\ Goto(i, [m[i] EXCEPT !.add = @ \ {n}]) =>
                 Sane(i, m'[i]) /\ m'[i].at = m[i].at /\ m'[i].cfg = m[i].cfg /\ m'[i].del = m[i].del
<1> DEFINE s == [m[i] EXCEPT !.del = @ \ {n}]
           t == [m[i] EXCEPT !.add = @ \ {n}]
<1>1. m[i] \in Sources /\ Sane(i, m[i])
  BY Zenon DEF AllSane
<1>2. /\ s \in Sources /\ s.at = m[i].at /\ s.cfg = m[i].cfg /\ s.add = m[i].add /\ s.del = m[i].del \ {n}
      /\ s.heard = m[i].heard /\ s.grace = m[i].grace /\ s.theirs = m[i].theirs
  BY Zenon, <1>1 DEF Sources
<1>3. /\ t \in Sources /\ t.at = m[i].at /\ t.cfg = m[i].cfg /\ t.add = m[i].add \ {n} /\ t.del = m[i].del
      /\ t.heard = m[i].heard /\ t.grace = m[i].grace /\ t.theirs = m[i].theirs
  BY Zenon, <1>1 DEF Sources
<1> HIDE DEF s, t
<1>4. Sane(i, s)
  BY Zenon, <1>1, <1>2 DEF Sane, ForAReason
<1>5. Sane(i, t)
  BY Zenon, <1>1, <1>3 DEF Sane, ForAReason
<1> QED BY Zenon, <1>2, <1>3, <1>4, <1>5, Moves DEF s, t

LEMMA WithdrawnSane ==
    ASSUME AllSane, NEW i \in Instances, Withdrawn(i)
    PROVE  Sane(i, m'[i]) /\ m'[i].at \in {"load", "wait"}
<1> DEFINE s == [Started EXCEPT !.at = m[i].then]
<1>1. m[i].then \in {"load", "wait"}
  BY Zenon DEF AllSane, Sources
<1>2. /\ Started \in Sources /\ Started.cfg = None /\ Started.add = {} /\ Started.del = {}
      /\ \A n \in Names : Started.heard[n] = "no"
  BY Zenon DEF Started, Sources, Stages
<1>3. s \in Sources /\ s.at \in {"load", "wait"} /\ s.cfg = None /\ s.add = {} /\ s.del = {} /\ s.heard = Started.heard
  BY Zenon, <1>1, <1>2 DEF Sources, Stages
<1> HIDE DEF s
<1>4. Sane(i, s)
  BY Zenon, <1>2, <1>3 DEF Sane
<1> QED BY Zenon, <1>3, <1>4, Moves DEF Withdrawn, s

LEMMA AppliedSane ==
    ASSUME AllSane, NEW i \in Instances, Applied(i)
    PROVE  Sane(i, m'[i]) /\ m'[i].at = "session" /\ m'[i].cfg = m[i].cfg
<1> DEFINE s == [m[i] EXCEPT !.at = "session", !.dirty = FALSE, !.theirs = {}]
<1>1. m[i] \in Sources /\ Sane(i, m[i]) /\ m[i].at = "apply" /\ m[i].add = {} /\ m[i].del = {}
  BY Zenon DEF AllSane, Applied, At
<1>2. s \in Sources /\ s.at = "session" /\ s.cfg = m[i].cfg /\ s.add = {} /\ s.del = {}
  BY Zenon, <1>1 DEF Sources, Stages
<1> HIDE DEF s
<1>3. Sane(i, s)
  BY Zenon, <1>1, <1>2 DEF Sane
<1> QED BY Zenon, <1>2, <1>3, Moves DEF Applied, s

LEMMA GraceSane ==
    ASSUME AllSane, NEW i \in Instances, GraceOver(i)
    PROVE  Sane(i, m'[i]) /\ m'[i].at = m[i].at /\ m'[i].cfg = m[i].cfg /\ m'[i].del = m[i].del
<1> DEFINE s == [m[i] EXCEPT !.grace = TRUE]
<1>1. m[i] \in Sources /\ Sane(i, m[i])
  BY Zenon DEF AllSane
<1>2. /\ s \in Sources /\ s.at = m[i].at /\ s.cfg = m[i].cfg /\ s.add = m[i].add /\ s.del = m[i].del
      /\ s.heard = m[i].heard /\ s.grace = TRUE /\ s.theirs = m[i].theirs
  BY Zenon, <1>1 DEF Sources
<1> HIDE DEF s
<1>3. Sane(i, s)
  BY Zenon, <1>1, <1>2 DEF Sane, ForAReason
<1> QED BY Zenon, <1>2, <1>3, Moves DEF GraceOver, s

\* An entry that lapses is still wanted, until the next tick expires it.
LEMMA LapseSane ==
    ASSUME AllSane, NEW i \in Instances, NEW n \in Names, Lapse(i, n)
    PROVE  Sane(i, m'[i]) /\ m'[i].at = m[i].at /\ m'[i].cfg = m[i].cfg /\ m'[i].del = m[i].del
<1> DEFINE h == [m[i].heard EXCEPT ![n] = "due"]
           s == [m[i] EXCEPT !.heard = h]
<1>1. m[i] \in Sources /\ Sane(i, m[i]) /\ m[i].heard[n] = "fresh"
  BY Zenon DEF AllSane, Lapse
<1>2. h \in [Names -> {"no", "fresh", "due"}] /\ \A k \in Names : h[k] = "no" <=> m[i].heard[k] = "no"
  BY Zenon, <1>1 DEF Sources
<1>3. Goto(i, s)
  BY Zenon DEF Lapse
<1> HIDE DEF h
<1>4. /\ s \in Sources /\ s.at = m[i].at /\ s.cfg = m[i].cfg /\ s.add = m[i].add /\ s.del = m[i].del
      /\ s.heard = h /\ s.grace = m[i].grace /\ s.theirs = m[i].theirs
  BY Zenon, <1>1, <1>2 DEF Sources
<1>5. desired(h, m[i].cfg) = desired(m[i].heard, m[i].cfg)
  BY Zenon, <1>2 DEF desired
<1> HIDE DEF s
<1>6. Sane(i, s)
  BY Zenon, <1>1, <1>2, <1>4, <1>5 DEF Sane, ForAReason
<1> QED BY Zenon, <1>3, <1>4, <1>6, Moves

LEMMA AbsorbSane ==
    ASSUME AllSane, NEW i \in Instances, NEW n \in Names, NEW goodbye \in BOOLEAN, absorb(i, n, goodbye)
    PROVE  Sane(i, m'[i]) /\ m'[i].at = "session" /\ m'[i].cfg = m[i].cfg
<1> DEFINE h == [m[i].heard EXCEPT ![n] = learn(goodbye)]
           d == m[i].dirty \/ (m[i].heard[n] = "no") # (learn(goodbye) = "no")
           s == [m[i] EXCEPT !.heard = h, !.dirty = d]
<1>1. m[i] \in Sources /\ Sane(i, m[i]) /\ m[i].at = "session"
  BY Zenon DEF AllSane, absorb, At
<1>2. h \in [Names -> {"no", "fresh", "due"}] /\ d \in BOOLEAN
  BY Zenon, <1>1 DEF Sources, learn
<1>3. Goto(i, s)
  BY Zenon DEF absorb
<1> HIDE DEF h, d
<1>4. s \in Sources /\ s.at = "session" /\ s.cfg = m[i].cfg /\ s.add = m[i].add /\ s.del = m[i].del
  BY Zenon, <1>1, <1>2 DEF Sources
<1> HIDE DEF s
<1>5. Sane(i, s)
  BY Zenon, <1>1, <1>4 DEF Sane
<1> QED BY Zenon, <1>3, <1>4, <1>5, Moves

-----------------------------------------------------------------------------
(* The records of the zones. *)

\* One write of an instance, done or failed, is about one record of its own.
LEMMA OwnWrite ==
    ASSUME AllSane, NEW i \in Instances, NEW z \in Zones, NEW n \in Names,
           pub' \in {pub, pub \cup {Rec(z, n, i)}, pub \ {Rec(z, n, i)}}
    PROVE  /\ pub' \subseteq [zone : Zones, name : Names, by : Instances \cup {Curator}]
           /\ pub \ pub' \subseteq {Rec(z, n, i)}
           /\ \A j \in Instances, y \in Zones : j # i \/ y # z => Mine(j, y)' = Mine(j, y)
           /\ Mine(i, z)' \subseteq Mine(i, z) \cup {n}
<1>1. Rec(z, n, i) \in [zone : Zones, name : Names, by : Instances \cup {Curator}]
  BY Zenon DEF Rec
<1>2. pub' \subseteq [zone : Zones, name : Names, by : Instances \cup {Curator}] /\ pub \ pub' \subseteq {Rec(z, n, i)}
  BY Zenon, <1>1 DEF AllSane
<1>3. \A j \in Instances, y \in Zones, k \in Names : Rec(y, k, j) = Rec(z, n, i) => y = z /\ k = n /\ j = i
  BY Zenon DEF Rec
<1>4. ASSUME NEW j \in Instances, NEW y \in Zones, j # i \/ y # z
      PROVE  Mine(j, y)' = Mine(j, y)
  <2>1. \A k \in Names : Rec(y, k, j) # Rec(z, n, i)
    BY Zenon, <1>3, <1>4
  <2>2. \A k \in Names : Rec(y, k, j) \in pub' <=> Rec(y, k, j) \in pub
    BY Zenon, <2>1
  <2> QED BY Zenon, <2>2 DEF Mine, Rec
<1>5. Mine(i, z)' \subseteq Mine(i, z) \cup {n}
  <2>1. \A k \in Names : Rec(z, k, i) \in pub' => Rec(z, k, i) \in pub \/ k = n
    BY <1>3
  <2> QED BY Zenon, <2>1 DEF Mine, Rec
<1> QED BY Zenon, <1>2, <1>4, <1>5

\* A deletion takes the name.
LEMMA Deleted ==
    ASSUME NEW i, NEW z, NEW n, pub' = pub \ {Rec(z, n, i)}
    PROVE  Mine(i, z)' \subseteq Mine(i, z) \ {n}
<1>1. \A k \in Names : Rec(z, k, i) \in pub' => Rec(z, k, i) \in pub /\ k # n
  BY Zenon
<1> QED BY Zenon, <1>1 DEF Mine, Rec

\* Steps that write no record.
LEMMA NoWrite ==
    ASSUME AllSane, UNCHANGED pub
    PROVE  /\ pub' \subseteq [zone : Zones, name : Names, by : Instances \cup {Curator}]
           /\ pub \ pub' = {}
           /\ \A j \in Instances, y \in Zones : Mine(j, y)' = Mine(j, y)
  BY Zenon DEF AllSane, Mine

\* What other instances and operators do leaves the holder as it was.
LEMMA TidyKept ==
    ASSUME AllSane, HolderTidy, \A y \in Zones : Mine(Holder, y)' = Mine(Holder, y),
           m'[Holder] = m[Holder], restarted \subseteq restarted'
    PROVE  HolderTidy'
<1>1. m[Holder].at = "withdraw" => m[Holder].cfg.zone \in Zones
  BY Zenon, MdnsAssumption DEF AllSane, Sane, Sources, Configs
<1>2. CASE Holder \in restarted'
  BY Zenon, <1>2 DEF HolderTidy
<1>3. CASE Holder \notin restarted'
  <2>1. /\ \A z \in Zones : Mine(Holder, z) # {} =>
              m[Holder].cfg # None /\ m[Holder].cfg.zone = z /\ Mine(Holder, z) \subseteq m[Holder].cfg.pass
        /\ m[Holder].at \notin {"session", "apply", "list", "withdraw"} => \A z \in Zones : Mine(Holder, z) = {}
        /\ m[Holder].at = "withdraw" => Mine(Holder, m[Holder].cfg.zone) \subseteq m[Holder].del
    BY Zenon, <1>3 DEF HolderTidy
  <2>2. m[Holder].at = "withdraw" => Mine(Holder, m[Holder].cfg.zone)' = Mine(Holder, m[Holder].cfg.zone)
    BY Zenon, <1>1 DEF Mine
  <2> QED BY Zenon, <2>1, <2>2, <1>1 DEF HolderTidy
<1> QED BY Zenon, <1>2, <1>3

-----------------------------------------------------------------------------
(* The steps of an instance, those of the environment, and the invariant. *)

\* What a step that writes does: from a plan, at most one record of its own.
Writes(i) == withdraw_all(i) \/ withdraw_all_remote(i) \/ apply(i) \/ apply_remote(i)

LEMMA WriteFacts ==
    ASSUME AllSane, NEW i \in Instances, Writes(i)
    PROVE  /\ Sane(i, m'[i]) /\ m'[i].cfg = m[i].cfg /\ m[i].cfg \in Configs
           /\ UNCHANGED <<stored, alive, restarted>>
           /\ \A j \in Instances \ {i} : m'[j] = m[j]
           /\ \A j \in Instances : Sane(j, m'[j])
           /\ m' \in [Instances -> Sources]
           /\ \/ /\ m[i].at = "list" /\ m'[i].at = "withdraw" /\ UNCHANGED pub
                 /\ i = Holder => m'[i].del = Mine(i, m[i].cfg.zone)
              \/ /\ m[i].at = "apply" /\ m'[i].at = "apply"
                 /\ \E n \in m[i].add : pub' \in {pub \cup {Rec(m[i].cfg.zone, n, i)}, pub}
              \/ /\ m[i].at \in {"apply", "withdraw"} /\ m'[i].at = m[i].at
                 /\ \E n \in m[i].del : /\ pub' \in {pub \ {Rec(m[i].cfg.zone, n, i)}, pub}
                                        /\ i = Holder => pub' = pub \ {Rec(m[i].cfg.zone, n, i)}
                                        /\ m'[i].del = m[i].del \ {n}
<1> DEFINE z == m[i].cfg.zone
<1>1. m[i] \in Sources /\ Sane(i, m[i]) /\ Mine(i, z) \in SUBSET Names
  BY Zenon DEF AllSane, Mine
<1>2. m[i].at \in {"list", "apply", "withdraw"} /\ UNCHANGED <<stored, alive, restarted>>
  BY Zenon DEF Writes, withdraw_all, withdraw_all_remote, apply, apply_remote, At
<1>3. m[i].cfg \in Configs
  BY Zenon, <1>1, <1>2 DEF Sane, Sources
<1>4. \/ /\ At(i, "list") /\ UNCHANGED pub
         /\ \E found \in {Mine(i, z), {}} : /\ i = Holder => found = Mine(i, z)
                                            /\ Goto(i, [m[i] EXCEPT !.at = "withdraw", !.del = found])
      \/ \E n \in m[i].add : /\ At(i, "apply") /\ Goto(i, [m[i] EXCEPT !.add = @ \ {n}])
                             /\ pub' \in {pub \cup {Rec(z, n, i)}, pub}
      \/ \E n \in m[i].del : /\ m[i].at \in {"apply", "withdraw"} /\ Goto(i, [m[i] EXCEPT !.del = @ \ {n}])
                             /\ pub' \in {pub \ {Rec(z, n, i)}, pub}
                             /\ i = Holder => pub' = pub \ {Rec(z, n, i)}
  <2>1. CASE withdraw_all(i)
    BY Zenon, <2>1 DEF withdraw_all, At
  <2>2. CASE withdraw_all_remote(i)
    BY Zenon, <2>2 DEF withdraw_all_remote, At
  <2>3. CASE apply(i)
    BY Zenon, <2>3 DEF apply, At
  <2>4. CASE apply_remote(i)
    BY Zenon, <2>4 DEF apply_remote, At
  <2> QED BY Zenon, <2>1, <2>2, <2>3, <2>4 DEF Writes
<1>5. /\ Sane(i, m'[i]) /\ m'[i].cfg = m[i].cfg
      /\ \/ /\ m[i].at = "list" /\ m'[i].at = "withdraw" /\ UNCHANGED pub
            /\ i = Holder => m'[i].del = Mine(i, z)
         \/ /\ m[i].at = "apply" /\ m'[i].at = "apply"
            /\ \E n \in m[i].add : pub' \in {pub \cup {Rec(z, n, i)}, pub}
         \/ /\ m[i].at \in {"apply", "withdraw"} /\ m'[i].at = m[i].at
            /\ \E n \in m[i].del : /\ pub' \in {pub \ {Rec(z, n, i)}, pub}
                                   /\ i = Holder => pub' = pub \ {Rec(z, n, i)}
                                   /\ m'[i].del = m[i].del \ {n}
  <2>1. ASSUME At(i, "list"), UNCHANGED pub, NEW found \in {Mine(i, z), {}}, i = Holder => found = Mine(i, z),
               Goto(i, [m[i] EXCEPT !.at = "withdraw", !.del = found])
        PROVE  Sane(i, m'[i]) /\ m'[i].cfg = m[i].cfg /\ m[i].at = "list" /\ m'[i].at = "withdraw" /\ m'[i].del = found
    <3>1. found \in SUBSET Names
      BY Zenon, <1>1, <2>1
    <3> QED BY Zenon, <2>1, <3>1, ListedSane DEF At
  <2>2. ASSUME NEW n \in m[i].add, At(i, "apply"), Goto(i, [m[i] EXCEPT !.add = @ \ {n}])
        PROVE  Sane(i, m'[i]) /\ m'[i].cfg = m[i].cfg /\ m[i].at = "apply" /\ m'[i].at = "apply"
    BY Zenon, <2>2, DoneSane DEF At
  <2>3. ASSUME NEW n \in m[i].del, m[i].at \in {"apply", "withdraw"}, Goto(i, [m[i] EXCEPT !.del = @ \ {n}])
        PROVE  Sane(i, m'[i]) /\ m'[i].cfg = m[i].cfg /\ m'[i].at = m[i].at /\ m'[i].del = m[i].del \ {n}
    BY Zenon, <2>3, DoneSane
  <2> QED BY Zenon, <1>4, <2>1, <2>2, <2>3
<1>6. \A j \in Instances \ {i} : m'[j] = m[j]
  BY Zenon, <1>4, <1>1 DEF Goto, AllSane
<1>7. m' \in [Instances -> Sources] /\ \A j \in Instances : Sane(j, m'[j])
  <2>1. \A j \in Instances : Sane(j, m'[j])
    BY Zenon, <1>5, <1>6 DEF AllSane
  <2>2. \E s : m' = [m EXCEPT ![i] = s]
    BY Zenon, <1>4 DEF Goto
  <2> QED BY Zenon, <2>1, <2>2 DEF Sane, AllSane
<1> QED BY Zenon, <1>2, <1>3, <1>5, <1>6, <1>7

\* The other steps of an instance write no record, and only a session that ends
\* withdraws.
Thinks(i) == \/ Load(i) \/ Open(i) \/ wait_for_change(i) \/ ConfigTick(i) \/ Withdrawn(i) \/ Reconcile(i)
             \/ Applied(i) \/ GraceOver(i) \/ \E n \in Names : Announce(i, n) \/ Goodbye(i, n) \/ Lapse(i, n)

LEMMA ThinkFacts ==
    ASSUME AllSane, NEW i \in Instances, Thinks(i)
    PROVE  /\ \A j \in Instances \ {i} : m'[j] = m[j]
           /\ \A j \in Instances : Sane(j, m'[j])
           /\ m' \in [Instances -> Sources]
           /\ UNCHANGED <<stored, pub, alive, restarted>>
           /\ m'[i].at # "withdraw"
           /\ \/ m[i].at \notin {"session", "apply", "list", "withdraw"}
              \/ m[i].at = "withdraw" /\ m[i].del = {}
              \/ m'[i].cfg = m[i].cfg /\ m'[i].at \in {"session", "apply", "list"}
<1>1. m[i] \in Sources /\ Sane(i, m[i])
  BY Zenon DEF AllSane
<1>2. UNCHANGED <<stored, pub, alive, restarted>> /\ \E s : Goto(i, s)
  <2>1. CASE Load(i) \/ Open(i) \/ wait_for_change(i) \/ ConfigTick(i) \/ Withdrawn(i)
    BY Zenon, <2>1 DEF Load, Open, wait_for_change, ConfigTick, Withdrawn
  <2>2. CASE Reconcile(i) \/ Applied(i) \/ GraceOver(i)
    BY Zenon, <2>2 DEF Reconcile, Applied, GraceOver
  <2>3. CASE \E n \in Names : Announce(i, n) \/ Goodbye(i, n) \/ Lapse(i, n)
    BY Zenon, <2>3 DEF Announce, Goodbye, absorb, Lapse
  <2> QED BY Zenon, <2>1, <2>2, <2>3 DEF Thinks
<1>3. /\ Sane(i, m'[i]) /\ m'[i].at # "withdraw"
      /\ \/ m[i].at \notin {"session", "apply", "list", "withdraw"}
         \/ m[i].at = "withdraw" /\ m[i].del = {}
         \/ m'[i].cfg = m[i].cfg /\ m'[i].at \in {"session", "apply", "list"}
  <2>0. \A s \in Sources : Goto(i, s) => m'[i] = s
    BY Zenon DEF Goto, AllSane
  <2>1. CASE Load(i)
    <3>1. Sane(i, m'[i]) /\ m[i].at = "load"
      BY Zenon, <2>1, LoadSane DEF Load, At
    <3>2. m'[i].at # "withdraw"
      <4>1. m' = [m EXCEPT ![i] = IF stored[i] = None THEN [Started EXCEPT !.at = "wait"]
                                  ELSE IF stored[i].on THEN [Started EXCEPT !.at = "open", !.cfg = stored[i]]
                                  ELSE [Started EXCEPT !.at = "list", !.cfg = stored[i], !.then = "wait"]]
        BY Zenon, <2>1 DEF Load, Goto
      <4> QED BY Zenon, <4>1 DEF AllSane, Started
    <3> QED BY Zenon, <3>1, <3>2
  <2>2. CASE Open(i)
    <3>1. Sane(i, m'[i]) /\ m[i].at = "open"
      BY Zenon, <2>2, OpenSane DEF Open, At
    <3>2. \E s \in {"session", "failed"} : m' = [m EXCEPT ![i] = [m[i] EXCEPT !.at = s]]
      BY Zenon, <2>2 DEF Open, Goto
    <3>3. m'[i].at # "withdraw"
      BY <3>2, <1>1 DEF AllSane, Sources
    <3> QED BY Zenon, <3>1, <3>3
  <2>3. CASE wait_for_change(i)
    <3>1. Goto(i, Started) /\ m[i].at \in {"wait", "failed"}
      BY Zenon, <2>3 DEF wait_for_change, At
    <3> QED BY Zenon, <3>1, StartedSane, <2>0
  <2>4. CASE ConfigTick(i)
    <3>1. Sane(i, m'[i])
      BY Zenon, <2>4, ConfigTickSane
    <3>2. m' = [m EXCEPT ![i] = [Started EXCEPT !.at = "list", !.cfg = m[i].cfg]]
      BY Zenon, <2>4 DEF ConfigTick, Goto
    <3>3. m'[i].at = "list" /\ m'[i].cfg = m[i].cfg
      BY Zenon, <3>2 DEF AllSane, Started
    <3> QED BY Zenon, <3>1, <3>3
  <2>5. CASE Withdrawn(i)
    BY Zenon, <2>5, WithdrawnSane DEF Withdrawn, At
  <2>6. CASE Reconcile(i)
    <3>1. Sane(i, m'[i]) /\ m[i].at = "session"
      BY Zenon, <2>6, ReconcileSane DEF Reconcile, At
    <3> DEFINE kept == expire(m[i].heard)
               plan == Plan(i, kept, m[i].grace)
               s == [m[i] EXCEPT !.at = "apply", !.heard = kept, !.add = plan.add, !.del = plan.del,
                                 !.theirs = plan.theirs]
               t == [m[i] EXCEPT !.heard = kept]
    <3>2. m' = [m EXCEPT ![i] = s] \/ m' = [m EXCEPT ![i] = t]
      BY Zenon, <2>6 DEF Reconcile, Goto
    <3> HIDE DEF kept, plan
    <3>3. s.at = "apply" /\ s.cfg = m[i].cfg /\ t.at = "session" /\ t.cfg = m[i].cfg
      BY Zenon, <3>1, <1>1 DEF Sources
    <3> HIDE DEF s, t
    <3>4. m'[i] \in {s, t}
      BY Zenon, <3>2 DEF AllSane
    <3> QED BY Zenon, <3>1, <3>3, <3>4
  <2>7. CASE Applied(i)
    BY Zenon, <2>7, AppliedSane
  <2>8. CASE GraceOver(i)
    BY Zenon, <2>8, GraceSane DEF GraceOver
  <2>9. CASE \E n \in Names : Announce(i, n) \/ Goodbye(i, n)
    BY Zenon, <2>9, AbsorbSane DEF Announce, Goodbye
  <2>10. CASE \E n \in Names : Lapse(i, n)
    <3>1. PICK n \in Names : Lapse(i, n)
      BY Zenon, <2>10
    <3>2. m[i].at \in {"session", "apply"}
      BY Zenon, <3>1, <1>1 DEF Lapse, Sane
    <3> QED BY Zenon, <3>1, <3>2, LapseSane
  <2> QED BY Zenon, <2>1, <2>2, <2>3, <2>4, <2>5, <2>6, <2>7, <2>8, <2>9, <2>10 DEF Thinks
<1>4. \A j \in Instances \ {i} : m'[j] = m[j]
  BY Zenon, <1>2 DEF Goto, AllSane
<1>5. \A j \in Instances : Sane(j, m'[j])
  BY Zenon, <1>3, <1>4 DEF AllSane
<1>6. m' \in [Instances -> Sources]
  BY Zenon, <1>2, <1>5 DEF Goto, Sane, AllSane
<1> QED BY Zenon, <1>2, <1>3, <1>4, <1>5, <1>6

LEMMA WriteStep ==
    ASSUME MdnsInv, NEW i \in Instances, Writes(i)
    PROVE  MdnsInv'
<1> DEFINE z == m[i].cfg.zone
<1>1. /\ m'[i].cfg = m[i].cfg /\ m[i].cfg \in Configs /\ z \in Zones
      /\ UNCHANGED <<stored, alive, restarted>>
      /\ \A j \in Instances \ {i} : m'[j] = m[j]
      /\ m' \in [Instances -> Sources] /\ \A j \in Instances : Sane(j, m'[j])
  BY Zenon, WriteFacts DEF MdnsInv, Configs
<1>2. \/ m[i].at = "list" /\ m'[i].at = "withdraw" /\ UNCHANGED pub /\ (i = Holder => m'[i].del = Mine(i, z))
      \/ /\ m[i].at = "apply" /\ m'[i].at = "apply"
         /\ \E n \in m[i].add : pub' \in {pub \cup {Rec(z, n, i)}, pub}
      \/ /\ m[i].at \in {"apply", "withdraw"} /\ m'[i].at = m[i].at
         /\ \E n \in m[i].del : /\ pub' \in {pub \ {Rec(z, n, i)}, pub}
                                /\ i = Holder => pub' = pub \ {Rec(z, n, i)}
                                /\ m'[i].del = m[i].del \ {n}
  BY Zenon, WriteFacts DEF MdnsInv
<1>3. AllSane /\ m[i] \in Sources /\ Sane(i, m[i]) /\ m[i].add \subseteq Names /\ m[i].del \subseteq Names
  BY Zenon DEF MdnsInv, AllSane, Sources
<1>4. /\ pub' \subseteq [zone : Zones, name : Names, by : Instances \cup {Curator}]
      /\ \A j \in Instances, y \in Zones : j # i \/ y # z => Mine(j, y)' = Mine(j, y)
  BY <1>1, <1>2, <1>3, OwnWrite, NoWrite
<1>5. AllSane'
  BY Zenon, <1>1, <1>3, <1>4 DEF AllSane
<1>6. HolderTidy'
  <2>1. CASE i # Holder
    BY Zenon, <2>1, <1>1, <1>3, <1>4, TidyKept, MdnsAssumption DEF MdnsInv
  <2>2. CASE i = Holder /\ Holder \in restarted
    BY Zenon, <2>2, <1>1 DEF HolderTidy
  <2>3. CASE i = Holder /\ Holder \notin restarted
    <3>1. /\ \A y \in Zones : Mine(i, y) # {} => y = z /\ Mine(i, y) \subseteq m[i].cfg.pass
          /\ m[i].at = "withdraw" => Mine(i, z) \subseteq m[i].del
      BY Zenon, <2>3 DEF HolderTidy, MdnsInv
    <3>2. \A y \in Zones : y # z => Mine(Holder, y)' = {}
      BY Zenon, <3>1, <1>4, <2>3
    <3>3. Mine(Holder, z)' = {k \in Names : Rec(z, k, Holder) \in pub'}
      BY Zenon, <1>1, <2>3 DEF Mine
    <3>4. CASE m[i].at = "list" /\ m'[i].at = "withdraw" /\ UNCHANGED pub /\ m'[i].del = Mine(i, z)
      <4>1. Mine(Holder, z)' = Mine(Holder, z)
        BY Zenon, <3>4, <3>3 DEF Mine
      <4>2. Mine(Holder, z)' \subseteq m'[i].cfg.pass /\ Mine(Holder, z)' \subseteq m'[i].del
        BY Zenon, <4>1, <3>1, <3>4, <1>1, <2>3
      <4> QED BY Zenon, <4>2, <3>2, <3>4, <1>1, <2>3, MdnsAssumption DEF HolderTidy
    <3>5. CASE /\ m[i].at = "apply" /\ m'[i].at = "apply"
               /\ \E n \in m[i].add : pub' \in {pub \cup {Rec(z, n, i)}, pub}
      <4>1. PICK n \in m[i].add : pub' \in {pub \cup {Rec(z, n, i)}, pub}
        BY Zenon, <3>5
      <4>2. n \in Names /\ n \in m[i].cfg.pass
        BY Zenon, <4>1, <1>3, <3>5 DEF Sane
      <4>3. Mine(i, z)' \subseteq Mine(i, z) \cup {n}
        BY <4>1, <4>2, <1>1, <1>3, OwnWrite
      <4>4. Mine(Holder, z)' \subseteq m'[i].cfg.pass
        BY Zenon, <4>2, <4>3, <3>1, <1>1, <2>3
      <4> QED BY Zenon, <4>4, <3>2, <3>5, <1>1, <2>3, MdnsAssumption DEF HolderTidy
    <3>6. CASE /\ m[i].at \in {"apply", "withdraw"} /\ m'[i].at = m[i].at
               /\ \E n \in m[i].del : pub' = pub \ {Rec(z, n, i)} /\ m'[i].del = m[i].del \ {n}
      <4>1. PICK n \in m[i].del : pub' = pub \ {Rec(z, n, i)} /\ m'[i].del = m[i].del \ {n}
        BY Zenon, <3>6
      <4>2. \A k \in Names : Rec(z, k, Holder) \in pub' => Rec(z, k, Holder) \in pub /\ k # n
        BY Zenon, <4>1, <2>3
      <4>3. Mine(Holder, z)' \subseteq Mine(Holder, z) \ {n}
        BY Zenon, <4>2, <3>3 DEF Mine
      <4>4. /\ Mine(Holder, z)' \subseteq m'[i].cfg.pass
            /\ m'[i].at = "withdraw" => Mine(Holder, z)' \subseteq m'[i].del
        BY Zenon, <4>1, <4>3, <3>1, <3>6, <1>1, <2>3
      <4> QED BY Zenon, <4>4, <3>2, <3>6, <1>1, <2>3, MdnsAssumption DEF HolderTidy
    <3> QED BY Zenon, <1>2, <2>3, <3>4, <3>5, <3>6
  <2> QED BY Zenon, <2>1, <2>2, <2>3
<1> QED BY Zenon, <1>5, <1>6 DEF MdnsInv

LEMMA ThinkStep ==
    ASSUME MdnsInv, NEW i \in Instances, Thinks(i)
    PROVE  MdnsInv'
<1>1. /\ \A j \in Instances \ {i} : m'[j] = m[j]
      /\ m' \in [Instances -> Sources] /\ \A j \in Instances : Sane(j, m'[j])
      /\ UNCHANGED <<stored, pub, alive, restarted>>
      /\ m'[i].at # "withdraw"
      /\ \/ m[i].at \notin {"session", "apply", "list", "withdraw"}
         \/ m[i].at = "withdraw" /\ m[i].del = {}
         \/ m'[i].cfg = m[i].cfg /\ m'[i].at \in {"session", "apply", "list"}
  BY Zenon, ThinkFacts DEF MdnsInv
<1>2. AllSane'
  BY Zenon, <1>1 DEF AllSane, MdnsInv
<1>3. \A j \in Instances, y \in Zones : Mine(j, y)' = Mine(j, y)
  BY Zenon, <1>1, NoWrite DEF MdnsInv
<1>4. HolderTidy'
  <2>1. CASE i # Holder
    BY Zenon, <2>1, <1>1, <1>3, TidyKept, MdnsAssumption DEF MdnsInv
  <2>2. CASE i = Holder /\ Holder \in restarted
    BY Zenon, <2>2, <1>1 DEF HolderTidy
  <2>3. CASE i = Holder /\ Holder \notin restarted
    <3>1. /\ \A z \in Zones : Mine(Holder, z) # {} =>
                m[Holder].cfg # None /\ m[Holder].cfg.zone = z /\ Mine(Holder, z) \subseteq m[Holder].cfg.pass
          /\ m[Holder].at \notin {"session", "apply", "list", "withdraw"} => \A z \in Zones : Mine(Holder, z) = {}
          /\ m[Holder].at = "withdraw" => Mine(Holder, m[Holder].cfg.zone) \subseteq m[Holder].del
      BY Zenon, <2>3 DEF HolderTidy, MdnsInv
    <3>2. CASE \A y \in Zones : Mine(Holder, y) = {}
      BY Zenon, <3>2, <2>3, <1>1, <1>3, MdnsAssumption DEF HolderTidy
    <3>3. CASE m'[i].cfg = m[i].cfg /\ m'[i].at \in {"session", "apply", "list"}
      BY Zenon, <3>3, <3>1, <2>3, <1>1, <1>3, MdnsAssumption DEF HolderTidy
    <3> QED BY Zenon, <3>1, <3>2, <3>3, <1>1, <2>3
  <2> QED BY Zenon, <2>1, <2>2, <2>3
<1> QED BY Zenon, <1>2, <1>4 DEF MdnsInv

LEMMA AroundStep ==
    ASSUME MdnsInv,
           \/ \E i \in Instances : Configure(i) \/ Restart(i)
           \/ Device \/ Operator \/ UNCHANGED vars
    PROVE  MdnsInv'
<1> USE DEF MdnsInv
<1>1. CASE \E i \in Instances : Configure(i)
  <2>1. stored' \in [Instances -> Configs \cup {None}] /\ UNCHANGED <<pub, alive, m, restarted>>
    BY Zenon, <1>1 DEF Configure, AllSane
  <2>2. AllSane'
    BY Zenon, <2>1 DEF AllSane
  <2> QED BY Zenon, <2>1, <2>2, NoWrite, TidyKept, MdnsAssumption
<1>2. CASE \E i \in Instances : Restart(i)
  <2>1. PICK i \in Instances : Restart(i)
    BY Zenon, <1>2
  <2>2. stored' \in [Instances -> Configs \cup {None}]
    BY Zenon, <2>1, MdnsAssumption DEF Restart, bootstrap, AllSane
  <2>3. /\ m' \in [Instances -> Sources] /\ \A j \in Instances : Sane(j, m'[j])
        /\ \A j \in Instances \ {i} : m'[j] = m[j]
    BY Zenon, <2>1, StartedSane, Moves DEF Restart
  <2>4. AllSane' /\ restarted \subseteq restarted' /\ i \in restarted'
    BY Zenon, <2>1, <2>2, <2>3 DEF Restart, AllSane
  <2>5. CASE i = Holder
    BY Zenon, <2>4, <2>5 DEF HolderTidy
  <2>6. CASE i # Holder
    BY Zenon, <2>1, <2>3, <2>4, <2>6, NoWrite, TidyKept, MdnsAssumption DEF Restart
  <2> QED BY Zenon, <2>4, <2>5, <2>6
<1>3. CASE Device
  <2>1. alive' \subseteq Names /\ UNCHANGED <<stored, pub, m, restarted>>
    BY Zenon, <1>3 DEF Device, AllSane
  <2>2. AllSane'
    BY Zenon, <2>1 DEF AllSane
  <2> QED BY Zenon, <2>1, <2>2, NoWrite, TidyKept, MdnsAssumption
<1>4. CASE Operator
  <2>1. PICK z \in Zones, n \in Names : pub' \in {pub \ {Rec(z, n, Curator)}, pub \cup {Rec(z, n, Curator)}}
    BY Zenon, <1>4 DEF Operator
  <2>2. UNCHANGED <<stored, alive, m, restarted>>
    BY Zenon, <1>4 DEF Operator
  <2>3. pub' \subseteq [zone : Zones, name : Names, by : Instances \cup {Curator}]
    BY <2>1 DEF Rec, AllSane
  <2>4. AllSane'
    BY Zenon, <2>2, <2>3 DEF AllSane
  <2>5. \A y \in Zones, k \in Names : Rec(y, k, Holder) # Rec(z, n, Curator)
    BY Zenon, MdnsAssumption DEF Rec
  <2>6. \A y \in Zones, k \in Names : Rec(y, k, Holder) \in pub' <=> Rec(y, k, Holder) \in pub
    BY <2>1, <2>5
  <2>7. \A y \in Zones : Mine(Holder, y)' = Mine(Holder, y)
    BY Zenon, <2>6 DEF Mine, Rec
  <2> QED BY Zenon, <2>2, <2>4, <2>7, TidyKept, MdnsAssumption
<1>5. CASE UNCHANGED vars
  <2>1. UNCHANGED <<stored, pub, alive, m, restarted>>
    BY Zenon, <1>5 DEF vars
  <2>2. AllSane'
    BY Zenon, <2>1 DEF AllSane
  <2> QED BY Zenon, <2>1, <2>2, NoWrite, TidyKept, MdnsAssumption
<1> QED BY Zenon, <1>1, <1>2, <1>3, <1>4, <1>5

LEMMA MdnsStarts == Init => MdnsInv
<1> SUFFICES ASSUME Init PROVE MdnsInv
  BY Zenon
<1>1. AllSane
  BY Zenon, StartedSane DEF Init, AllSane
<1>2. \A z \in Zones : Mine(Holder, z) = {}
  BY Zenon DEF Init, Mine
<1>3. m[Holder].at = "load"
  BY Zenon, MdnsAssumption, StartedSane DEF Init
<1> QED BY Zenon, <1>1, <1>2, <1>3 DEF MdnsInv, HolderTidy

\* A step is one that writes, one that does not, or one of the environment.
LEMMA Kinds ==
    ASSUME [Next]_vars
    PROVE  \/ \E i \in Instances : Writes(i)
           \/ \E i \in Instances : Thinks(i)
           \/ \E i \in Instances : Configure(i) \/ Restart(i)
           \/ Device \/ Operator \/ UNCHANGED vars
  BY Zenon DEF Next, Step, Writes, Thinks

LEMMA MdnsStep == MdnsInv /\ [Next]_vars => MdnsInv'
  BY Zenon, Kinds, WriteStep, ThinkStep, AroundStep

\* A holder that was not restarted leaves no record behind in a zone it no longer
\* feeds, nor a name its filter stops, in every state: run, wait_for_change and
\* withdraw never start a session over the names of another.
THEOREM HolderRehomes == Spec => []Rehomed
<1>1. MdnsInv => Rehomed
  BY Zenon, MdnsAssumption DEF MdnsInv, AllSane, Sane, Sources, HolderTidy, Rehomed, TypeOK
<1> QED BY MdnsStarts, MdnsStep, <1>1, PTL DEF Spec

\* What a step may take out of the zones.
LEMMA OneGoes ==
    ASSUME MdnsInv, [Next]_vars, NEW r \in pub \ pub', r.by # Curator
    PROVE  /\ m[r.by].at \in {"apply", "withdraw"} /\ m'[r.by] # m[r.by]
           /\ r.name \in m[r.by].del /\ Sane(r.by, m[r.by])
<1>1. AllSane
  BY Zenon DEF MdnsInv
<1>2. CASE \E i \in Instances : Writes(i)
  <2>1. PICK i \in Instances : Writes(i)
    BY Zenon, <1>2
  <2> DEFINE z == m[i].cfg.zone
  <2>2. /\ m[i].at \in {"apply", "withdraw"}
        /\ \E n \in m[i].del : pub' = pub \ {Rec(z, n, i)} /\ m'[i].del = m[i].del \ {n}
    BY Zenon, <1>1, <2>1, WriteFacts
  <2>3. PICK n \in m[i].del : pub' = pub \ {Rec(z, n, i)} /\ m'[i].del = m[i].del \ {n}
    BY Zenon, <2>2
  <2>4. r = Rec(z, n, i)
    BY Zenon, <2>3
  <2>5. r.by = i /\ r.name = n
    BY Zenon, <2>4 DEF Rec
  <2>6. m'[i] # m[i]
    BY Zenon, <2>3
  <2> QED BY Zenon, <1>1, <2>2, <2>3, <2>5, <2>6 DEF AllSane
<1>3. CASE \/ \E i \in Instances : Thinks(i)
           \/ \E i \in Instances : Configure(i) \/ Restart(i)
           \/ Device \/ UNCHANGED vars
  <2>1. UNCHANGED pub
    BY Zenon, <1>1, <1>3, ThinkFacts DEF Configure, Restart, Device, vars
  <2> QED BY Zenon, <2>1
<1>4. CASE Operator
  <2>1. PICK z \in Zones, n \in Names : pub' \in {pub \ {Rec(z, n, Curator)}, pub \cup {Rec(z, n, Curator)}}
    BY Zenon, <1>4 DEF Operator
  <2>2. r = Rec(z, n, Curator)
    BY Zenon, <2>1
  <2> QED BY Zenon, <2>2 DEF Rec
<1> QED BY Zenon, Kinds, <1>2, <1>3, <1>4

\* Records are withdrawn by the instance that made them, from its own plan, and
\* by one that is listening only past its grace and for a reason: what apply
\* deletes was planned from what the instance still hears (local_plan,
\* remote_plan), also when entries lapse and operators write in between.
THEOREM WithdrawnForAReason == Spec => WithdrawsRight
<1> DEFINE Own == \A r \in pub \ pub' : \/ r.by = Curator
                                        \/ m[r.by].at \in {"apply", "withdraw"} /\ m'[r.by] # m[r.by]
           Gone == \A r \in pub \ pub' : r.by # Curator /\ m[r.by].at = "apply" =>
                       /\ m[r.by].grace
                       /\ r.name \in desired(m[r.by].heard, m[r.by].cfg)
                              => r.by = Holder /\ r.name \in m[r.by].theirs
<1>1. MdnsInv /\ [Next]_vars => Own
  BY Zenon, OneGoes
<1>2. MdnsInv /\ [Next]_vars => Gone
  BY Zenon, OneGoes DEF Sane, ForAReason
<1>3. Spec => []MdnsInv /\ [][Next]_vars
  BY MdnsStarts, MdnsStep, PTL DEF Spec
<1>4. Spec => [][Own]_vars /\ [][Gone]_vars
  BY <1>1, <1>2, <1>3, PTL
<1> QED BY Zenon, <1>4 DEF WithdrawsRight, OwnOnly, WithdrawsOnlyGone
=============================================================================
