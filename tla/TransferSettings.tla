-------------------------- MODULE TransferSettings --------------------------
(***************************************************************************)
(* The zone-transfer settings: a section of the database that [dns.auth]   *)
(* seeds at a start (main.rs), the API replaces or deletes (api/rest/      *)
(* zone_transfer.rs), and a watcher reads every ten seconds and swaps in   *)
(* (auth/runtime.rs); and what the listener makes of the access list: who  *)
(* may pull a zone, and the messages a zone is sent in (auth/server.rs).   *)
(*                                                                         *)
(* Addresses keep their arithmetic with fewer bits: IPv4 has Bits, IPv6    *)
(* one more, and an IPv6 address with the top bit set is an IPv4-mapped    *)
(* one.  Text that does not parse is an entry whose address is None.       *)
(* Order and repetition in the lists decide nothing and are left out.      *)
(* Every connection has a task of its own; one is modelled.                *)
(***************************************************************************)
EXTENDS Integers, FiniteSets, Nothing
LOCAL INSTANCE Bitwise

CONSTANTS Bits,             \* 32
          TransferConfigs,  \* what a file or a PUT may say
          AxfrPeers,        \* addresses that ask for a zone
          ZoneSizes,        \* records of a transfer, the SOA at both ends included
          AxfrRecords,      \* AXFR_RECORDS_PER_MESSAGE
          MaxRuns           \* bound: starts of the process

ASSUME SettingsAssumption ==
    /\ Bits \in Nat \ {0} /\ AxfrRecords \in Nat \ {0} /\ MaxRuns \in Nat
    /\ ZoneSizes \subseteq Nat \ {0}

VARIABLES section,   \* the stored settings, or None
          inForce,   \* TransferState: the parsed settings the tasks share
          watcher,   \* what the watcher read and has not swapped in yet
          conn,      \* a connection to the listener
          runs,      \* starts so far
          lastPut,   \* history: the last PUT that was acknowledged, None after a DELETE
          adopted    \* history: the settings inForce was parsed from

settingsVars == <<section, inForce, watcher, conn, runs, lastPut, adopted>>

\* ZoneTransferConfig::default()
Default == [allow |-> {}, notify |-> {}, secondary |-> {}]

NoConn == [at |-> "closed", peer |-> None, left |-> 0, got |-> 0, messages |-> 0, size |-> 0]

-----------------------------------------------------------------------------
(* Parsing, and the access list. *)

width(a) == IF a.v = 4 THEN Bits ELSE Bits + 1

IpNet_parse(e) ==
    IF e.addr = None THEN None
    ELSE LET max == width(e.addr)
             prefix == IF e.prefix = None THEN max ELSE e.prefix
         IN  IF prefix > max THEN None ELSE [addr |-> e.addr, bits |-> prefix]

\* Mutant: no case for the whole address space; the shift is modulo the width.
mask_noZero(p, w) == ((2^w - 1) * 2^((w - p) % w)) % 2^w

mask(p, w) == IF p = 0 THEN 0 ELSE ((2^w - 1) * 2^(w - p)) % 2^w

to_ipv4_mapped(ip) == IF ip.n >= 2^Bits THEN [v |-> 4, n |-> ip.n - 2^Bits] ELSE None

contains(net, ip) ==
    LET other == IF net.addr.v = 4 /\ ip.v = 6 THEN to_ipv4_mapped(ip) ELSE ip
    IN  /\ other # None /\ other.v = net.addr.v
        /\ LET m == mask(net.bits, width(other)) IN (net.addr.n & m) = (other.n & m)

transfer_allowed(ip) == \E net \in inForce.allow : contains(net, ip)

\* The port is 53 when none is given.
parse_addr(t) ==
    IF t.host = None THEN None ELSE [host |-> t.host, port |-> IF t.port = None THEN 53 ELSE t.port]

SecondaryZone_parse(s) ==
    IF parse_addr(s.primary) = None \/ s.zone = "" THEN None
    ELSE [zone |-> s.zone, primary |-> parse_addr(s.primary)]

\* TransferSettings::parse: what does not parse is ignored.
Parsed(c) ==
    [allow |-> {IpNet_parse(e) : e \in c.allow} \ {None},
     notify |-> {parse_addr(t) : t \in c.notify} \ {None},
     secondaries |-> {SecondaryZone_parse(s) : s \in c.secondary} \ {None}]

-----------------------------------------------------------------------------
(* The start of the process, and the watcher. *)

\* The seed is stored when nothing is; reading or writing it may fail, which is
\* only logged.  auth: the [dns.auth] block, or None; ok: the seed was stored;
\* read: the settings were read.
Started(auth, ok, read) ==
    LET stored == IF section = None /\ auth # None /\ ok THEN auth ELSE section
        used == IF read /\ stored # None THEN stored ELSE Default
    IN  /\ section' = stored /\ adopted' = used /\ inForce' = Parsed(used)
        /\ watcher' = None /\ conn' = NoConn

SettingsInit ==
    /\ section = None /\ lastPut = None /\ runs = 0
    /\ adopted = Default /\ inForce = Parsed(Default) /\ watcher = None /\ conn = NoConn

Start(auth, ok, read) ==
    /\ runs < MaxRuns /\ runs' = runs + 1
    /\ Started(auth, ok, read)
    /\ UNCHANGED lastPut

Running == runs > 0

\* A tick of the watcher; a failed read counts as no settings.
WatcherReads(read) ==
    /\ Running /\ watcher = None
    /\ watcher' = IF read /\ section # None THEN section ELSE Default
    /\ UNCHANGED <<section, inForce, conn, runs, lastPut, adopted>>

\* Mutant: only a change of the summary, which counts the entries, is a change.
replace_bySummary ==
    /\ watcher # None /\ watcher' = None /\ adopted' = watcher
    /\ inForce' = IF \A f \in DOMAIN inForce : Cardinality(Parsed(watcher)[f]) = Cardinality(inForce[f])
                  THEN inForce ELSE Parsed(watcher)
    /\ UNCHANGED <<section, conn, runs, lastPut>>

replace ==
    /\ watcher # None /\ watcher' = None
    /\ inForce' = Parsed(watcher) /\ adopted' = watcher
    /\ UNCHANGED <<section, conn, runs, lastPut>>

-----------------------------------------------------------------------------
(* The API. *)

Valid(c) ==
    /\ \A e \in c.allow : IpNet_parse(e) # None
    /\ \A t \in c.notify : parse_addr(t) # None
    /\ \A s \in c.secondary : SecondaryZone_parse(s) # None

put_config(c) ==
    /\ Running /\ Valid(c)
    /\ section' = c /\ lastPut' = c
    /\ UNCHANGED <<inForce, watcher, conn, runs, adopted>>

delete_config ==
    /\ Running
    /\ section' = None /\ lastPut' = None
    /\ UNCHANGED <<inForce, watcher, conn, runs, adopted>>

-----------------------------------------------------------------------------
(* The listener: the AXFR branch of handle_tcp_connection. *)

\* The list is read once per request; a zone that is not held is refused too.
Request(p, held, size) ==
    /\ Running /\ conn = NoConn
    /\ conn' = IF ~transfer_allowed(p) THEN [NoConn EXCEPT !.at = "refused", !.peer = p]
               ELSE IF ~held THEN [NoConn EXCEPT !.at = "no zone", !.peer = p]
               ELSE [NoConn EXCEPT !.at = "sending", !.peer = p, !.left = size, !.size = size]
    /\ UNCHANGED <<section, inForce, watcher, runs, lastPut, adopted>>

\* records.chunks: one message, or the end.
SendChunk ==
    /\ conn.at = "sending"
    /\ LET n == IF conn.left < AxfrRecords THEN conn.left ELSE AxfrRecords
       IN  conn' = IF n = 0 THEN [conn EXCEPT !.at = "sent"]
                   ELSE [conn EXCEPT !.left = @ - n, !.got = @ + n, !.messages = @ + 1]
    /\ UNCHANGED <<section, inForce, watcher, runs, lastPut, adopted>>

\* The handler returned, or a write, or the timeout, ended it.
Close ==
    /\ conn # NoConn /\ conn' = NoConn
    /\ UNCHANGED <<section, inForce, watcher, runs, lastPut, adopted>>

SettingsNext ==
    \/ \E auth \in TransferConfigs \cup {None}, ok, read \in BOOLEAN : Start(auth, ok, read)
    \/ \E read \in BOOLEAN : WatcherReads(read)
    \/ replace \/ delete_config \/ SendChunk \/ Close
    \/ \E c \in TransferConfigs : put_config(c)
    \/ \E p \in AxfrPeers, held \in BOOLEAN, size \in ZoneSizes : Request(p, held, size)

-----------------------------------------------------------------------------
(* Properties. *)

\* Types; and a transfer that ends well delivered every record, in as few
\* messages as the limit allows.
SettingsTypeOK ==
    /\ section \in TransferConfigs \cup {None} /\ runs \in 0 .. MaxRuns
    /\ conn.at = "sent" => /\ conn.got = conn.size
                           /\ (conn.messages - 1) * AxfrRecords < conn.size
                           /\ conn.size <= conn.messages * AxfrRecords

\* An address lies in a block when it has the first bits of the block's address;
\* an IPv4 block also holds the IPv4-mapped IPv6 forms of its addresses.
InBlock(ip, e) ==
    /\ e.addr # None
    /\ LET w == width(e.addr)
           p == IF e.prefix = None THEN w ELSE e.prefix
           same(n) == e.addr.n \div 2^(w - p) = n \div 2^(w - p)
       IN  /\ p <= w
           /\ \/ ip.v = e.addr.v /\ same(ip.n)
              \/ ip.v = 6 /\ e.addr.v = 4 /\ ip.n \div 2^Bits = 1 /\ same(ip.n % 2^Bits)

\* The listener lets a peer pull a zone exactly when the settings last adopted
\* have a block with its address; with no settings, or none that could be read,
\* nobody may (transfer_allowed, contains, refusal).
AclRight ==
    [][conn = NoConn /\ conn' # NoConn
          => (conn'.at # "refused" <=> \E e \in adopted.allow : InBlock(conn'.peer, e))]_settingsVars

\* A PUT that was acknowledged is what is stored, through every restart and
\* whatever [dns.auth] says, until the next PUT or a DELETE; and no entry of it
\* is one that would be ignored when it is put in force.
PutStands ==
    lastPut # None => /\ section = lastPut
                      /\ \A e \in section.allow : e.addr # None /\ (e.prefix # None => e.prefix <= width(e.addr))
                      /\ \A t \in section.notify : t.host # None
                      /\ \A s \in section.secondary : s.primary.host # None /\ s.zone # ""

\* Settings that are left alone are in force again and again: a tick that could
\* not read them, and so took them for absent, is put right by a later one.
SettingsSettle ==
    \A c \in TransferConfigs : <>[](section = c) => []<>(inForce = Parsed(c))

\* The listener sends a whole zone, to the peers the settings name and to nobody
\* else.
TransferRight == []SettingsTypeOK /\ AclRight

\* What an operator stored stays stored, and is in force again and again.
SettingsKept == []PutStands /\ SettingsSettle

=============================================================================
