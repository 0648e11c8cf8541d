--------------------------- MODULE ServiceProofs ----------------------------
(***************************************************************************)
(* Proofs about the handlers and tasks of single services: the query       *)
(* counters, the import of the configuration file, the allocation of       *)
(* addresses and routes, the options of a DHCP reply, the permits of the   *)
(* serving loops, and the DHCP receive loop.  They share no state; each    *)
(* has its own inductive invariant.                                        *)
(***************************************************************************)
EXTENDS QueryTracker, TomlImport, Ipam, DhcpOptions, Listener, DhcpLoop,
        FiniteSetTheorems, WellFoundedInduction, TLAPS

-----------------------------------------------------------------------------
(* Query counters. *)

\* What a flush may have collected: counts of some of the names.
Batches == UNION {[S -> Nat] : S \in SUBSET Names}

Flushes == [at : {"idle", "look", "read", "clear", "write"}, todo : SUBSET Names, hand : SUBSET Names,
            count : Nat, write : Batches]

Bumps == {Calm} \cup {[at |-> "dirty", name |-> {n}] : n \in Names}

CountTypes ==
    /\ rows \in [Names -> [count : Nat, dirty : BOOLEAN]]
    /\ stats \in [Names -> Nat] /\ asked \in [Names -> Nat]
    /\ flushing \in Flushes /\ bumping \in [Tasks -> Bumps] /\ behind \subseteq Names

\* The row in hand, and a flush that is not under way holds nothing.
FlushShape ==
    /\ flushing.at = "idle" => flushing.write = << >>
    /\ flushing.at \in {"read", "clear"} => \E n \in Names : flushing.hand = {n}

\* The count the table has, or will have when the flush under way has written.
Known(n) == IF n \in DOMAIN flushing.write THEN flushing.write[n] ELSE stats[n]

\* What is written, and what the flush has read, is not ahead of memory, and
\* not behind the table.
Ordered ==
    \A n \in Names :
        /\ stats[n] <= Known(n) /\ Known(n) <= rows[n].count /\ rows[n].count <= asked[n]
        /\ flushing.at = "clear" /\ flushing.hand = {n}
              => stats[n] <= flushing.count /\ flushing.count <= rows[n].count

\* A count that the flush will not bring to the table has a cause, also while
\* bumps and the flush are between two of their stores.
LagExplained ==
    \A n \in Names :
        Known(n) < rows[n].count
            => rows[n].dirty \/ n \in behind \/ \E t \in Tasks : bumping[t].name = {n}

TrackInv == CountTypes /\ FlushShape /\ Ordered /\ LagExplained

LEMMA EmptyBatch == << >> \in Batches /\ DOMAIN << >> = {}
<1>1. << >> \in [{} -> Nat] OBVIOUS
<1> QED BY Zenon, <1>1 DEF Batches

LEMMA BatchGrows ==
    ASSUME NEW w \in Batches, NEW n \in Names, NEW c \in Nat
    PROVE  [m \in DOMAIN w \cup {n} |-> IF m = n THEN c ELSE w[m]] \in Batches
<1>1. PICK S \in SUBSET Names : w \in [S -> Nat]
  BY Zenon DEF Batches
<1>2. [m \in DOMAIN w \cup {n} |-> IF m = n THEN c ELSE w[m]] \in [S \cup {n} -> Nat]
  BY Zenon, <1>1
<1>3. S \cup {n} \in SUBSET Names
  BY Zenon
<1> QED BY Zenon, <1>2, <1>3 DEF Batches

LEMMA BatchEntries ==
    ASSUME NEW w \in Batches
    PROVE  DOMAIN w \subseteq Names /\ \A n \in DOMAIN w : w[n] \in Nat
<1>1. PICK S \in SUBSET Names : w \in [S -> Nat]
  BY Zenon DEF Batches
<1> QED BY Zenon, <1>1

LEMMA TrackStarts == TrackInit => TrackInv
<1> SUFFICES ASSUME TrackInit PROVE TrackInv
  BY Zenon
<1>1. NoFlush \in Flushes /\ NoFlush.write = << >> /\ NoFlush.at = "idle"
  BY Zenon, EmptyBatch DEF NoFlush, Flushes
<1>2. CountTypes
  BY Zenon, <1>1 DEF TrackInit, CountTypes, Row, Bumps
<1>3. \A n \in Names : Known(n) = 0 /\ stats[n] = 0 /\ rows[n].count = 0 /\ asked[n] = 0
  BY Zenon, <1>1, EmptyBatch DEF TrackInit, Known, Row
<1> QED BY <1>1, <1>2, <1>3 DEF TrackInv, FlushShape, Ordered, LagExplained, TrackInit

\* A bump: the count goes up with the bump pending, or the flag goes up.
LEMMA TrackBump ==
    ASSUME TrackInv, NEW t \in Tasks, NEW n \in Names, bump(t, n)
    PROVE  TrackInv'
<1>1. CountTypes /\ FlushShape /\ Ordered /\ LagExplained
  BY Zenon DEF TrackInv
<1>2. UNCHANGED <<flushing, stats, behind>> /\ \A m \in Names : Known(m)' = Known(m) /\ Known(m) \in Nat
  BY Zenon, <1>1, BatchEntries DEF bump, Known, CountTypes, Flushes
<1>3. CASE /\ bumping[t] = Calm
           /\ rows' = [rows EXCEPT ![n].count = @ + 1]
           /\ bumping' = [bumping EXCEPT ![t] = [at |-> "dirty", name |-> {n}]]
           /\ asked' = [asked EXCEPT ![n] = @ + 1]
  <2>1. rows' \in [Names -> [count : Nat, dirty : BOOLEAN]] /\ asked' \in [Names -> Nat]
    BY <1>1, <1>3 DEF CountTypes
  <2>2. /\ rows'[n].count = rows[n].count + 1 /\ asked'[n] = asked[n] + 1
        /\ \A m \in Names \ {n} : rows'[m] = rows[m] /\ asked'[m] = asked[m]
        /\ \A m \in Names : rows'[m].dirty = rows[m].dirty
    BY Zenon, <1>1, <1>3 DEF CountTypes
  <2>3. bumping' \in [Tasks -> Bumps] /\ bumping'[t].name = {n} /\ \A u \in Tasks \ {t} : bumping'[u] = bumping[u]
    BY Zenon, <1>1, <1>3 DEF CountTypes, Bumps
  <2>4. \A m \in Names : rows[m].count \in Nat /\ asked[m] \in Nat /\ stats[m] \in Nat /\ flushing.count \in Nat
    BY Zenon, <1>1 DEF CountTypes, Flushes
  <2>5. CountTypes' /\ FlushShape'
    BY Zenon, <1>1, <1>2, <2>1, <2>3 DEF CountTypes, FlushShape
  <2>6. Ordered'
    BY <1>1, <1>2, <2>2, <2>4 DEF Ordered
  <2>7. bumping[t].name = {}
    BY <1>3 DEF Calm
  <2>8. ASSUME NEW m \in Names, Known(m)' < rows'[m].count
        PROVE  rows'[m].dirty \/ m \in behind' \/ \E u \in Tasks : bumping'[u].name = {m}
    <3>1. CASE m = n BY Zenon, <2>3, <3>1
    <3>2. CASE m # n
      <4>1. rows[m].dirty \/ m \in behind \/ \E u \in Tasks : bumping[u].name = {m}
        BY Zenon, <1>1, <1>2, <2>2, <2>8, <3>2 DEF LagExplained
      <4> QED BY Zenon, <1>2, <2>2, <2>3, <2>7, <4>1
    <3> QED BY Zenon, <3>1, <3>2
  <2> QED BY Zenon, <2>5, <2>6, <2>8 DEF TrackInv, LagExplained
<1>4. CASE /\ bumping[t] = [at |-> "dirty", name |-> {n}]
           /\ rows' = [rows EXCEPT ![n].dirty = TRUE]
           /\ bumping' = [bumping EXCEPT ![t] = Calm] /\ UNCHANGED asked
  <2>1. /\ rows' \in [Names -> [count : Nat, dirty : BOOLEAN]] /\ rows'[n].dirty
        /\ \A m \in Names : rows'[m].count = rows[m].count
        /\ \A m \in Names \ {n} : rows'[m] = rows[m]
    BY Zenon, <1>1, <1>4 DEF CountTypes
  <2>2. bumping' \in [Tasks -> Bumps] /\ bumping[t].name = {n} /\ \A u \in Tasks \ {t} : bumping'[u] = bumping[u]
    BY <1>1, <1>4 DEF CountTypes, Bumps
  <2>3. CountTypes' /\ FlushShape'
    BY Zenon, <1>1, <1>2, <1>4, <2>1, <2>2 DEF CountTypes, FlushShape
  <2>4. Ordered'
    BY <1>1, <1>2, <1>4, <2>1 DEF Ordered
  <2>5. ASSUME NEW m \in Names, Known(m)' < rows'[m].count
        PROVE  rows'[m].dirty \/ m \in behind' \/ \E u \in Tasks : bumping'[u].name = {m}
    <3>1. CASE m = n BY Zenon, <2>1, <3>1
    <3>2. CASE m # n
      <4>1. rows[m].dirty \/ m \in behind \/ \E u \in Tasks : bumping[u].name = {m}
        BY Zenon, <1>1, <1>2, <2>1, <2>5 DEF LagExplained
      <4> QED BY Zenon, <1>2, <2>1, <2>2, <3>2, <4>1
    <3> QED BY Zenon, <3>1, <3>2
  <2> QED BY Zenon, <2>3, <2>4, <2>5 DEF TrackInv, LagExplained
<1> QED BY Zenon, <1>3, <1>4 DEF bump

\* The flush looks at a row or takes it in hand: nothing is cleared or written.
LEMMA TrackLook ==
    ASSUME TrackInv, UNCHANGED <<rows, bumping, stats, asked, behind>>,
           flushing' \in Flushes, flushing'.write = flushing.write,
           flushing'.at # "idle", flushing'.at \in {"read", "clear"} => \E n \in Names : flushing'.hand = {n},
           \A n \in Names : flushing'.at = "clear" /\ flushing'.hand = {n} => flushing'.count = rows[n].count
    PROVE  TrackInv'
<1>1. CountTypes' /\ FlushShape'
  BY Zenon DEF TrackInv, CountTypes, FlushShape
<1>2. \A n \in Names : Known(n)' = Known(n) /\ Known(n) \in Nat /\ stats[n] \in Nat /\ rows[n].count \in Nat
  BY Zenon, BatchEntries DEF Known, TrackInv, CountTypes, Flushes
<1>3. Ordered' /\ LagExplained'
  BY <1>2 DEF TrackInv, Ordered, LagExplained
<1> QED BY Zenon, <1>1, <1>3 DEF TrackInv

\* The flag goes down: the count in hand is written later, and the name is
\* behind if a query came between the reading and the clearing.
LEMMA TrackClear ==
    ASSUME TrackInv, NEW n \in Names, FlushClear(n)
    PROVE  TrackInv'
<1>1. CountTypes /\ FlushShape /\ Ordered /\ LagExplained /\ UNCHANGED <<bumping, stats, asked>>
  BY Zenon DEF TrackInv, FlushClear
<1>2. /\ flushing.count \in Nat /\ flushing.write \in Batches /\ rows[n].count \in Nat
      /\ stats[n] <= flushing.count /\ flushing.count <= rows[n].count
  BY Zenon, <1>1 DEF FlushClear, CountTypes, Flushes, Ordered
<1> DEFINE w == [m \in DOMAIN flushing.write \cup {n} |-> IF m = n THEN flushing.count ELSE flushing.write[m]]
<1>3. flushing' = [flushing EXCEPT !.at = "look", !.hand = {}, !.count = 0, !.write = w]
  BY Zenon DEF FlushClear
<1>4. w \in Batches /\ DOMAIN w = DOMAIN flushing.write \cup {n}
  BY Zenon, <1>2, BatchGrows
<1>5. w[n] = flushing.count /\ \A m \in DOMAIN flushing.write \ {n} : w[m] = flushing.write[m]
  BY Zenon
<1> HIDE DEF w
<1>6. flushing' \in Flushes /\ flushing'.write = w /\ flushing'.at = "look"
  BY Zenon, <1>1, <1>3, <1>4 DEF CountTypes, Flushes
<1>7. /\ rows' \in [Names -> [count : Nat, dirty : BOOLEAN]]
      /\ \A m \in Names : rows'[m].count = rows[m].count
      /\ \A m \in Names \ {n} : rows'[m] = rows[m]
  BY Zenon, <1>1 DEF FlushClear, CountTypes
<1>8. Known(n)' = flushing.count /\ \A m \in Names \ {n} : Known(m)' = Known(m)
  BY Zenon, <1>1, <1>4, <1>5, <1>6 DEF Known
<1>9. behind' \subseteq Names /\ \A m \in Names \ {n} : m \in behind' <=> m \in behind
  BY Zenon, <1>1 DEF FlushClear, CountTypes
<1>10. rows[n].count > flushing.count => n \in behind'
  BY Zenon DEF FlushClear
<1>11. CountTypes' /\ FlushShape'
  BY Zenon, <1>1, <1>6, <1>7, <1>9 DEF CountTypes, FlushShape
<1>12. Ordered'
  BY Zenon, <1>1, <1>2, <1>6, <1>7, <1>8 DEF Ordered
<1>13. LagExplained'
  BY <1>1, <1>2, <1>7, <1>8, <1>9, <1>10 DEF LagExplained
<1> QED BY Zenon, <1>11, <1>12, <1>13 DEF TrackInv

LEMMA TrackWrite ==
    ASSUME TrackInv, NEW ok \in BOOLEAN, FlushWrite(ok)
    PROVE  TrackInv'
<1>1. CountTypes /\ FlushShape /\ Ordered /\ LagExplained /\ UNCHANGED <<rows, bumping, asked>> /\ flushing' = NoFlush
  BY Zenon DEF TrackInv, FlushWrite
<1>2. NoFlush \in Flushes /\ NoFlush.write = << >> /\ NoFlush.at = "idle"
  BY Zenon, EmptyBatch DEF NoFlush, Flushes
<1>3. DOMAIN flushing.write \subseteq Names /\ \A n \in DOMAIN flushing.write : flushing.write[n] \in Nat
  BY Zenon, <1>1, BatchEntries DEF CountTypes, Flushes
<1>4. stats' \in [Names -> Nat] /\ behind' \subseteq Names
  BY Zenon, <1>1, <1>3 DEF CountTypes, FlushWrite
<1>5. \A n \in Names : Known(n)' = stats'[n] /\ Known(n) \in Nat /\ stats[n] \in Nat /\ rows[n].count \in Nat
  BY Zenon, <1>1, <1>2, <1>3, EmptyBatch DEF Known, CountTypes
<1>6. /\ \A n \in Names : stats'[n] = Known(n) \/ (~ok /\ stats'[n] = stats[n] /\ n \in DOMAIN flushing.write)
      /\ behind \subseteq behind' /\ (~ok => DOMAIN flushing.write \subseteq behind')
  BY Zenon, <1>1, <1>3 DEF FlushWrite, Known, CountTypes
<1>7. CountTypes' /\ FlushShape'
  BY Zenon, <1>1, <1>2, <1>4 DEF CountTypes, FlushShape
<1>8. Ordered'
  BY <1>1, <1>2, <1>5, <1>6 DEF Ordered, CountTypes
<1>9. LagExplained'
  BY Zenon, <1>1, <1>5, <1>6 DEF LagExplained
<1> QED BY Zenon, <1>7, <1>8, <1>9 DEF TrackInv

LEMMA TrackHydrate == ASSUME TrackInv, hydrate PROVE TrackInv'
<1>1. CountTypes /\ Ordered /\ UNCHANGED <<stats, asked>> /\ flushing' = NoFlush
  BY Zenon DEF TrackInv, hydrate
<1>2. NoFlush \in Flushes /\ NoFlush.write = << >> /\ NoFlush.at = "idle"
  BY Zenon, EmptyBatch DEF NoFlush, Flushes
<1>3. \A n \in Names : rows'[n].count = stats[n] /\ Known(n)' = stats[n] /\ stats[n] \in Nat
  BY Zenon, <1>1, <1>2, EmptyBatch DEF hydrate, Known, CountTypes
<1>4. CountTypes' /\ FlushShape'
  BY Zenon, <1>1, <1>2 DEF CountTypes, FlushShape, hydrate, Bumps
<1>5. \A n \in Names : stats[n] <= asked[n]
  <2>1. \A n \in Names : Known(n) \in Nat /\ rows[n].count \in Nat /\ asked[n] \in Nat
    BY Zenon, <1>1, BatchEntries DEF Known, CountTypes, Flushes
  <2> QED BY <1>1, <1>3, <2>1 DEF Ordered
<1>6. Ordered' /\ LagExplained'
  BY <1>1, <1>2, <1>3, <1>5 DEF Ordered, LagExplained
<1> QED BY Zenon, <1>4, <1>6 DEF TrackInv

LEMMA TrackStep == TrackInv /\ [TrackNext]_trackVars => TrackInv'
<1> SUFFICES ASSUME TrackInv, [TrackNext]_trackVars PROVE TrackInv'
  BY Zenon
<1>1. flushing \in Flushes
  BY Zenon DEF TrackInv, CountTypes
<1>2. ASSUME FlushStart PROVE TrackInv'
  <2>1. flushing' \in Flushes /\ flushing'.write = flushing.write /\ flushing'.at = "look"
    BY Zenon, <1>2, EmptyBatch DEF FlushStart, NoFlush, Flushes, TrackInv, FlushShape
  <2> QED BY Zenon, <1>2, <2>1, TrackLook DEF FlushStart
<1>3. ASSUME NEW n \in Names, FlushLook(n) PROVE TrackInv'
  <2>1. /\ flushing' \in Flushes /\ flushing'.write = flushing.write /\ flushing'.at \in {"look", "read"}
        /\ flushing'.at = "read" => flushing'.hand = {n}
    BY Zenon, <1>1, <1>3 DEF FlushLook, Flushes
  <2> QED BY Zenon, <1>3, <2>1, TrackLook DEF FlushLook
<1>4. ASSUME NEW n \in Names, FlushRead(n) PROVE TrackInv'
  <2>1. /\ flushing' \in Flushes /\ flushing'.write = flushing.write /\ flushing'.at = "clear"
        /\ flushing'.hand = {n} /\ flushing'.count = rows[n].count
    BY Zenon, <1>1, <1>4 DEF FlushRead, Flushes, TrackInv, CountTypes
  <2> QED BY Zenon, <1>4, <2>1, TrackLook DEF FlushRead
<1>5. CASE UNCHANGED trackVars
  BY Zenon, <1>5 DEF trackVars, TrackInv, CountTypes, FlushShape, Ordered, LagExplained, Known
<1> QED BY Zenon, <1>2, <1>3, <1>4, <1>5, TrackBump, TrackClear, TrackWrite, TrackHydrate DEF TrackNext

LEMMA TrackInvCounts == TrackInv => CountsKept
<1> SUFFICES ASSUME TrackInv PROVE CountsKept
  BY Zenon
<1>1. \A n \in Names : Known(n) \in Nat /\ stats[n] \in Nat /\ rows[n].count \in Nat /\ asked[n] \in Nat
  BY Zenon, BatchEntries DEF Known, TrackInv, CountTypes, Flushes
<1>2. flushing.at = "idle" => \A n \in Names : Known(n) = stats[n]
  BY Zenon, EmptyBatch DEF TrackInv, FlushShape, Known
<1>3. TrackTypeOK
  BY <1>1 DEF TrackInv, CountTypes, Ordered, TrackTypeOK, Flushes, Bumps, Calm
<1>4. LagHasCause
  BY Zenon, <1>2 DEF TrackInv, LagExplained, LagHasCause
<1> QED BY Zenon, <1>3, <1>4 DEF CountsKept

\* No query is lost to the table for want of a flag (query_tracker.rs), with any
\* number of names and query tasks: whatever the order in which the stores of
\* bumps and of a flush fall, a row of the table behind memory has its flag up,
\* or is behind for one of the two known causes.
THEOREM QueriesCounted == TrackSpec => []CountsKept
<1> QED BY TrackStarts, TrackStep, TrackInvCounts, PTL DEF TrackSpec

-----------------------------------------------------------------------------
(* The import of the configuration file. *)

\* What is still to be imported is not in the table; what is not to be imported
\* any more is there, or has a reason not to be; and there is something to import
\* only in a start that found the tables empty.
ImportInv ==
    /\ poolRows \in [TomlPools \cup AddedPools -> Nat]
    /\ forwarders \in [TomlForwarders -> {None, "toml", "api"}]
    /\ cut \in BOOLEAN /\ bare \in BOOLEAN
    /\ importing \subseteq File
    /\ importing # {} => bare
    /\ \A p \in TomlPools :
          /\ poolRows[p] < 2
          /\ <<p, "pool">> \in importing => poolRows[p] = 0
          /\ <<p, "pool">> \notin importing => poolRows[p] # 0 \/ p \in edited \/ cut
    /\ \A m \in TomlReservations : <<m, "mac">> \notin importing => m \in reserved \/ m \in edited \/ cut

LEMMA ImportStarts == ImportInit => ImportInv
<1> SUFFICES ASSUME ImportInit PROVE ImportInv
  BY Zenon
<1>1. /\ \A p \in TomlPools : poolRows[p] = 0 /\ poolRows[p] < 2 /\ <<p, "pool">> \in importing
      /\ \A m \in TomlReservations : <<m, "mac">> \in importing
  BY DEF ImportInit, File
<1>2. poolRows \in [TomlPools \cup AddedPools -> Nat] /\ forwarders \in [TomlForwarders -> {None, "toml", "api"}]
  BY Zenon DEF ImportInit
<1>3. cut \in BOOLEAN /\ bare \in BOOLEAN /\ bare /\ importing \subseteq File
  BY Zenon DEF ImportInit
<1> QED BY Zenon, <1>1, <1>2, <1>3 DEF ImportInv

LEMMA ImportOne ==
    ASSUME ImportInv, NEW x \in File, NEW ok \in BOOLEAN, Import(x, ok)
    PROVE  ImportInv'
<1>1. importing' = importing \ {x} /\ x \in importing /\ cut' = (cut \/ ~ok) /\ UNCHANGED <<bare, edited>>
  BY Zenon DEF Import
<1>2. CASE x[2] = "pool"
  <2>1. PICK p \in TomlPools : x = <<p, "pool">>
    BY <1>2 DEF File
  <2>2. poolRows[p] = 0 /\ UNCHANGED <<reserved, forwarders>>
    BY Zenon, <1>1, <1>2, <2>1 DEF Import, ImportInv
  <2>3. /\ poolRows' \in [TomlPools \cup AddedPools -> Nat]
        /\ poolRows'[p] = (IF ok THEN 1 ELSE 0)
        /\ \A q \in TomlPools \ {p} : poolRows'[q] = poolRows[q]
    BY <1>2, <2>1, <2>2 DEF Import, ImportInv
  <2>4. ASSUME NEW q \in TomlPools
        PROVE  /\ poolRows'[q] < 2
               /\ <<q, "pool">> \in importing' => poolRows'[q] = 0
               /\ <<q, "pool">> \notin importing' => poolRows'[q] # 0 \/ q \in edited' \/ cut'
    <3>1. CASE q = p
      <4>1. <<q, "pool">> \notin importing' /\ (ok \/ cut')
        BY Zenon, <1>1, <2>1, <3>1
      <4> QED BY <2>3, <3>1, <4>1
    <3>2. CASE q # p BY Zenon, <1>1, <2>1, <2>3, <3>2 DEF ImportInv
    <3> QED BY Zenon, <3>1, <3>2
  <2>5. \A m \in TomlReservations : <<m, "mac">> \notin importing' => m \in reserved' \/ m \in edited' \/ cut'
    BY Zenon, <1>1, <2>1, <2>2 DEF ImportInv
  <2> QED BY Zenon, <1>1, <2>2, <2>3, <2>4, <2>5 DEF ImportInv
<1>3. CASE x[2] = "mac"
  <2>1. PICK m \in TomlReservations : x = <<m, "mac">>
    BY <1>3 DEF File
  <2>2. UNCHANGED <<poolRows, forwarders>> /\ reserved' = IF ok THEN reserved \cup {m} ELSE reserved
    BY Zenon, <1>3, <2>1 DEF Import
  <2>3. \A p \in TomlPools : <<p, "pool">> \in importing' <=> <<p, "pool">> \in importing
    BY Zenon, <1>1, <2>1
  <2>4. \A r \in TomlReservations : <<r, "mac">> \notin importing' => r \in reserved' \/ r \in edited' \/ cut'
    BY Zenon, <1>1, <2>1, <2>2 DEF ImportInv
  <2> QED BY Zenon, <1>1, <2>2, <2>3, <2>4 DEF ImportInv
<1>4. CASE x[2] = "zone"
  <2>1. PICK z \in TomlForwarders : x = <<z, "zone">>
    BY <1>4 DEF File
  <2>2. UNCHANGED <<poolRows, reserved>> /\ forwarders' \in [TomlForwarders -> {None, "toml", "api"}]
    BY Zenon, <1>4, <2>1 DEF Import, ImportInv
  <2>3. /\ \A p \in TomlPools : <<p, "pool">> \in importing' <=> <<p, "pool">> \in importing
        /\ \A m \in TomlReservations : <<m, "mac">> \in importing' <=> <<m, "mac">> \in importing
    BY Zenon, <1>1, <2>1
  <2> QED BY Zenon, <1>1, <2>2, <2>3 DEF ImportInv
<1> QED BY Zenon, <1>2, <1>3, <1>4 DEF File

LEMMA ImportStep == ImportInv /\ [ImportNext]_importVars => ImportInv'
<1> SUFFICES ASSUME ImportInv, [ImportNext]_importVars PROVE ImportInv'
  BY Zenon
<1>1. ASSUME StartAgain PROVE ImportInv'
  <2>1. UNCHANGED <<poolRows, reserved, forwarders, edited>> /\ cut' = (cut \/ importing # {})
    BY Zenon, <1>1 DEF StartAgain
  <2>2. CASE dhcp_tables_empty
    <3>0. DOMAIN poolRows = TomlPools \cup AddedPools
      BY Zenon DEF ImportInv
    <3>1. importing' = File /\ bare' = TRUE /\ \A p \in TomlPools : poolRows[p] = 0
      BY Zenon, <1>1, <2>2, <3>0 DEF StartAgain, dhcp_tables_empty
    <3>2. /\ \A p \in TomlPools : <<p, "pool">> \in importing'
          /\ \A m \in TomlReservations : <<m, "mac">> \in importing'
      BY Zenon, <3>1 DEF File
    <3> QED BY Zenon, <2>1, <3>1, <3>2 DEF ImportInv
  <2>3. CASE ~dhcp_tables_empty
    <3>1. importing' = {} /\ bare' \in BOOLEAN
      BY Zenon, <1>1, <2>3 DEF StartAgain
    <3> QED BY Zenon, <2>1, <3>1 DEF ImportInv
  <2> QED BY Zenon, <2>2, <2>3
<1>2. ASSUME Operators PROVE ImportInv'
  <2>1. importing = {} /\ UNCHANGED <<importing, cut, bare>>
    BY Zenon, <1>2 DEF Operators
  <2>2. ASSUME NEW p \in DOMAIN poolRows,
               poolRows' = [poolRows EXCEPT ![p] = IF @ > 0 THEN @ - 1 ELSE IF p \in AddedPools THEN 1 ELSE 0],
               edited' = IF p \in TomlPools THEN edited \cup {p} ELSE edited,
               UNCHANGED <<reserved, forwarders>>
        PROVE  ImportInv'
    <3> DEFINE n == IF poolRows[p] > 0 THEN poolRows[p] - 1 ELSE IF p \in AddedPools THEN 1 ELSE 0
    <3>1. p \in TomlPools \cup AddedPools /\ poolRows[p] \in Nat /\ (p \in TomlPools => poolRows[p] < 2)
      BY Zenon DEF ImportInv
    <3>2. n \in Nat /\ (p \in TomlPools => n < 2)
      BY <3>1
    <3>3. /\ poolRows' \in [TomlPools \cup AddedPools -> Nat]
          /\ p \in TomlPools => poolRows'[p] < 2
          /\ \A q \in TomlPools \ {p} : poolRows'[q] = poolRows[q]
      BY Zenon, <2>2, <3>1, <3>2 DEF ImportInv
    <3> QED BY Zenon, <2>1, <2>2, <3>3 DEF ImportInv
  <2>3. ASSUME NEW z \in TomlForwarders, NEW f \in {None, "api"},
               forwarders' = [forwarders EXCEPT ![z] = f], UNCHANGED <<poolRows, reserved, edited>>
        PROVE  ImportInv'
    BY Zenon, <2>1, <2>3 DEF ImportInv
  <2>4. ASSUME NEW m \in reserved, reserved' = reserved \ {m}, edited' = edited \cup {m}, UNCHANGED <<poolRows, forwarders>>
        PROVE  ImportInv'
    BY Zenon, <2>1, <2>4 DEF ImportInv
  <2>5. ASSUME NEW m \in TomlReservations \ reserved, reserved' = reserved \cup {m}, UNCHANGED <<poolRows, forwarders, edited>>
        PROVE  ImportInv'
    BY Zenon, <2>1, <2>5 DEF ImportInv
  <2> QED BY Zenon, <1>2, <2>2, <2>3, <2>4, <2>5 DEF Operators
<1>3. CASE UNCHANGED importVars
  BY Zenon, <1>3 DEF importVars, ImportInv
<1> QED BY Zenon, <1>1, <1>2, <1>3, ImportOne DEF ImportNext

\* A forwarder becomes that of the file only by an import, and there is one only
\* in a start that found the tables empty.
LEMMA ImportKeepsEdits ==
    ASSUME ImportInv, [ImportNext]_importVars, NEW z \in TomlForwarders,
           forwarders[z] # "toml", forwarders'[z] = "toml"
    PROVE  bare
<1>1. ASSUME NEW x \in File, NEW ok \in BOOLEAN, Import(x, ok) PROVE bare
  <2>1. x \in importing
    BY Zenon, <1>1 DEF Import
  <2> QED BY Zenon, <2>1 DEF ImportInv
<1>2. CASE StartAgain
  BY Zenon, <1>2 DEF StartAgain
<1>3. CASE Operators
  BY Zenon, <1>3, ImportAssumption DEF Operators, ImportInv
<1>4. CASE UNCHANGED importVars
  BY Zenon, <1>4 DEF importVars
<1> QED BY Zenon, <1>1, <1>2, <1>3, <1>4 DEF ImportNext

\* The import of the file happens once and leaves what operators did alone
\* (migrate_toml_to_db), whatever the file and however often the process is
\* killed and started.
THEOREM ImportOnce == ImportSpec => ImportRight
<1>1. ImportInv => ImportedOnce
  BY Zenon DEF ImportInv, ImportedOnce
<1>2. ImportInv /\ [ImportNext]_importVars
        => [\A z \in TomlForwarders : forwarders[z] # "toml" /\ forwarders'[z] = "toml" => bare]_importVars
  BY Zenon, ImportKeepsEdits
<1> QED BY <1>1, <1>2, ImportStarts, ImportStep, PTL DEF ImportSpec, ImportRight, EditsKept

-----------------------------------------------------------------------------
(* Addresses and routes. *)

Routes == [id : RouteIds, target : Targets]

Creates == [at : {"create"}, pool : DOMAIN IpamPools, ip : Nat, container : Containers, seen : SUBSET AllocIds]
Updates == [at : {"update"}, read : SUBSET Routes, write : SUBSET Routes]

IpamTypes ==
    /\ allocs \in [AllocIds -> Allocations \cup {None}]
    /\ request \in [Requests -> {Done} \cup Creates \cup Updates]
    /\ routes # None => routes \in SUBSET Routes

\* A row, made or about to be made, is in its pool, and differs in address and
\* container from each row of the pool that its maker saw and that is there.
Distinct(a) ==
    /\ a.ip \in IpamPools[a.pool] /\ a.seen \subseteq AllocRows
    /\ \A j \in a.seen : allocs[j].pool = a.pool => allocs[j].ip # a.ip /\ allocs[j].container # a.container

AllocsApart ==
    /\ IsFiniteSet(AllocRows)
    /\ \A i \in AllocRows : Distinct(allocs[i]) /\ i \notin allocs[i].seen
    /\ \A r \in Requests : request[r].at = "create" => Distinct(request[r])

OneEach(rs) == \A x, y \in rs : x.target = y.target => x = y

\* What a request is to write is what it read and one route, or without one.
RoutesApart ==
    /\ routes # None => OneEach(routes)
    /\ \A r \in Requests : request[r].at = "update" =>
          /\ OneEach(request[r].write)
          /\ \/ request[r].read \subseteq request[r].write
             \/ \E x \in request[r].read : request[r].write = request[r].read \ {x}

IpamInv == IpamTypes /\ AllocsApart /\ RoutesApart

LEMMA IpamStarts == IpamInit => IpamInv
<1> SUFFICES ASSUME IpamInit PROVE IpamInv
  BY Zenon
<1>1. IpamTypes
  BY Zenon DEF IpamInit, IpamTypes
<1>2. AllocRows = {} /\ \A r \in Requests : request[r].at = "none"
  BY Zenon DEF IpamInit, AllocRows, Done
<1>3. AllocsApart /\ RoutesApart
  BY Zenon, <1>2, FS_EmptySet DEF AllocsApart, RoutesApart, IpamInit, OneEach
<1> QED BY Zenon, <1>1, <1>3 DEF IpamInv

LEMMA RequestKinds ==
    ASSUME IpamTypes, NEW r \in Requests
    PROVE  /\ request[r].at = "create" => request[r] \in Creates
           /\ request[r].at = "update" => request[r] \in Updates
BY DEF IpamTypes, Done, Creates, Updates

\* Requests and routes change, rows do not.
LEMMA AllocsStay ==
    ASSUME IpamInv, IpamTypes', UNCHANGED allocs,
           \A r \in Requests : request'[r].at = "create" => request'[r] = request[r] \/ Distinct(request'[r])
    PROVE  AllocsApart'
<1>1. AllocRows' = AllocRows /\ \A a : Distinct(a)' <=> Distinct(a)
  BY Zenon DEF AllocRows, Distinct
<1> QED BY <1>1 DEF IpamInv, AllocsApart, Distinct, AllocRows

LEMMA IpamChoose ==
    ASSUME IpamInv, NEW r \in Requests, NEW c \in Containers, NEW p \in DOMAIN IpamPools, Choose(r, c, p)
    PROVE  IpamInv'
<1>1. PICK ip \in IpamPools[p] \ used_ips(p) :
          request' = [request EXCEPT ![r] = [at |-> "create", pool |-> p, ip |-> ip,
                                             container |-> c, seen |-> AllocRows]]
  BY Zenon DEF Choose, ip_range
<1> DEFINE q == [at |-> "create", pool |-> p, ip |-> ip, container |-> c, seen |-> AllocRows]
<1>2. UNCHANGED <<allocs, routes>> /\ \A i \in AllocRows : ~(allocs[i].container = c /\ allocs[i].pool = p)
  BY Zenon DEF Choose
<1>3. q \in Creates
  BY Zenon, IpamAssumption DEF Creates, AllocRows
<1>4. /\ request' \in [Requests -> {Done} \cup Creates \cup Updates] /\ request'[r] = q
      /\ \A s \in Requests \ {r} : request'[s] = request[s]
  BY Zenon, <1>1, <1>3 DEF IpamInv, IpamTypes
<1>5. Distinct(q)
  BY Zenon, <1>2 DEF Distinct, used_ips
<1>6. q.at = "create"
  BY Zenon
<1> HIDE DEF q
<1>7. IpamTypes'
  BY Zenon, <1>2, <1>4 DEF IpamInv, IpamTypes
<1>8. AllocsApart'
  BY Zenon, <1>2, <1>4, <1>5, <1>7, AllocsStay
<1>9. RoutesApart'
  BY Zenon, <1>2, <1>4, <1>6 DEF IpamInv, RoutesApart
<1> QED BY Zenon, <1>7, <1>8, <1>9 DEF IpamInv

LEMMA IpamCreate ==
    ASSUME IpamInv, NEW r \in Requests, create_ipam_allocation(r)
    PROVE  IpamInv'
<1> DEFINE a == [pool |-> request[r].pool, ip |-> request[r].ip,
                 container |-> request[r].container, seen |-> request[r].seen]
<1>1. PICK i \in AllocIds \ AllocRows : allocs' = [allocs EXCEPT ![i] = a]
  BY Zenon DEF create_ipam_allocation
<1>2. UNCHANGED routes /\ request' = [request EXCEPT ![r] = Done] /\ request[r].at = "create"
  BY Zenon DEF create_ipam_allocation
<1>3. request[r] \in Creates /\ Distinct(request[r])
  BY Zenon, <1>2, RequestKinds DEF IpamInv, AllocsApart
<1>4. a \in Allocations /\ a # None /\ Distinct(a) /\ a.seen = request[r].seen
  BY <1>3, IpamAssumption DEF Creates, Allocations, Distinct
<1> HIDE DEF a
<1>5. /\ request' \in [Requests -> {Done} \cup Creates \cup Updates] /\ request'[r].at = "none"
      /\ \A s \in Requests \ {r} : request'[s] = request[s]
  BY Zenon, <1>2 DEF IpamInv, IpamTypes, Done
<1>6. /\ allocs' \in [AllocIds -> Allocations \cup {None}] /\ allocs'[i] = a
      /\ \A j \in AllocIds \ {i} : allocs'[j] = allocs[j]
  BY Zenon, <1>1, <1>4 DEF IpamInv, IpamTypes
<1>7. AllocRows' = AllocRows \cup {i} /\ i \notin AllocRows
  BY Zenon, <1>1, <1>4, <1>6 DEF AllocRows
<1>8. ASSUME NEW b, Distinct(b) PROVE Distinct(b)'
  BY Zenon, <1>6, <1>7, <1>8 DEF Distinct, AllocRows
<1>9. IpamTypes'
  BY Zenon, <1>2, <1>5, <1>6 DEF IpamInv, IpamTypes
<1>10. IsFiniteSet(AllocRows')
  BY Zenon, <1>7, FS_AddElement DEF IpamInv, AllocsApart
<1>11. ASSUME NEW j \in AllocRows' PROVE Distinct(allocs[j])' /\ j \notin allocs'[j].seen
  <2>1. CASE j = i
    BY <1>4, <1>6, <1>7, <1>8, <2>1 DEF Distinct
  <2>2. CASE j # i
    <3>1. j \in AllocRows /\ allocs'[j] = allocs[j] /\ Distinct(allocs[j]) /\ j \notin allocs[j].seen
      BY Zenon, <1>6, <1>7, <2>2 DEF IpamInv, AllocsApart, AllocRows
    <3> QED BY Zenon, <1>8, <3>1
  <2> QED BY Zenon, <2>1, <2>2
<1>12. ASSUME NEW s \in Requests, request'[s].at = "create" PROVE Distinct(request[s])'
  <2>1. request'[s] = request[s] /\ Distinct(request[s])
    BY Zenon, <1>5, <1>12 DEF IpamInv, AllocsApart
  <2> QED BY Zenon, <1>8, <2>1
<1>13. RoutesApart'
  BY Zenon, <1>2, <1>5 DEF IpamInv, RoutesApart
<1> QED BY Zenon, <1>9, <1>10, <1>11, <1>12, <1>13 DEF IpamInv, AllocsApart

LEMMA IpamRelease ==
    ASSUME IpamInv, NEW i \in AllocIds, deallocate(i)
    PROVE  IpamInv'
<1>1. i \in AllocRows /\ UNCHANGED routes
  BY Zenon DEF deallocate
<1>2. /\ allocs'[i] = None
      /\ \A j \in AllocRows \ {i} : allocs'[j] = [allocs[j] EXCEPT !.seen = @ \ {i}]
      /\ \A j \in AllocIds \ AllocRows : allocs'[j] = None
  BY Zenon, <1>1 DEF deallocate, AllocRows
<1>3. \A j \in AllocRows : allocs[j] \in Allocations
  BY Zenon DEF IpamInv, IpamTypes, AllocRows
<1>4. ASSUME NEW j \in AllocRows \ {i}
      PROVE  /\ allocs'[j] \in Allocations /\ allocs'[j].seen = allocs[j].seen \ {i}
             /\ allocs'[j].pool = allocs[j].pool /\ allocs'[j].ip = allocs[j].ip
             /\ allocs'[j].container = allocs[j].container
  <2> DEFINE a == allocs[j]
  <2>1. a \in Allocations /\ allocs'[j] = [a EXCEPT !.seen = @ \ {i}]
    BY Zenon, <1>2, <1>3
  <2> HIDE DEF a
  <2>2. /\ allocs'[j] \in Allocations /\ allocs'[j].seen = a.seen \ {i}
        /\ allocs'[j].pool = a.pool /\ allocs'[j].ip = a.ip /\ allocs'[j].container = a.container
    BY Zenon, <2>1 DEF Allocations
  <2> QED BY Zenon, <2>2 DEF a
<1>5. AllocRows \subseteq AllocIds /\ AllocRows' = AllocRows \ {i}
  BY <1>2, <1>4, IpamAssumption DEF AllocRows
<1>6. allocs' \in [AllocIds -> Allocations \cup {None}]
  <2>1. \A j \in AllocIds : allocs'[j] \in Allocations \cup {None}
    BY Zenon, <1>2, <1>4, <1>5
  <2>2. allocs' = [j \in AllocIds |-> allocs'[j]]
    BY Zenon DEF deallocate
  <2> QED BY Zenon, <2>1, <2>2
<1>7. ASSUME NEW s \in Requests
      PROVE  /\ request'[s] \in {Done} \cup Creates \cup Updates
             /\ request[s].at # "create" => request'[s] = request[s]
             /\ request[s].at = "create" => /\ request[s] \in Creates /\ request'[s].at = "create"
                                            /\ request'[s] = [request[s] EXCEPT !.seen = @ \ {i}]
                                            /\ request'[s].seen = request[s].seen \ {i}
                                            /\ request'[s].pool = request[s].pool /\ request'[s].ip = request[s].ip
                                            /\ request'[s].container = request[s].container
  <2>1. request'[s] = IF request[s].at = "create" THEN [request[s] EXCEPT !.seen = @ \ {i}] ELSE request[s]
    BY Zenon DEF deallocate
  <2>2. CASE request[s].at = "create"
    <3>1. request[s] \in Creates
      BY Zenon, <2>2, RequestKinds DEF IpamInv
    <3> QED BY <2>1, <2>2, <3>1 DEF Creates
  <2>3. CASE request[s].at # "create"
    BY Zenon, <2>1, <2>3 DEF IpamInv, IpamTypes
  <2> QED BY Zenon, <2>2, <2>3
<1>8. request' \in [Requests -> {Done} \cup Creates \cup Updates]
  <2>1. request' = [s \in Requests |-> request'[s]]
    BY Zenon DEF deallocate
  <2> QED BY Zenon, <1>7, <2>1
<1>9. ASSUME NEW b, NEW c, Distinct(b), c.seen = b.seen \ {i}, c.pool = b.pool, c.ip = b.ip, c.container = b.container
      PROVE  Distinct(c)'
  BY Zenon, <1>4, <1>5, <1>9 DEF Distinct
<1>10. IsFiniteSet(AllocRows')
  BY Zenon, <1>5, FS_RemoveElement DEF IpamInv, AllocsApart
<1>11. ASSUME NEW j \in AllocRows' PROVE Distinct(allocs[j])' /\ j \notin allocs'[j].seen
  <2>1. j \in AllocRows \ {i} /\ Distinct(allocs[j]) /\ j \notin allocs[j].seen
    BY Zenon, <1>5 DEF IpamInv, AllocsApart
  <2> QED BY Zenon, <1>4, <1>9, <2>1
<1>12. ASSUME NEW s \in Requests, request'[s].at = "create" PROVE Distinct(request[s])'
  <2>1. request[s].at = "create" /\ Distinct(request[s])
    BY Zenon, <1>7, <1>12 DEF IpamInv, AllocsApart
  <2> QED BY Zenon, <1>7, <1>9, <2>1
<1>13. RoutesApart'
  BY ZenonT(30), <1>1, <1>7 DEF IpamInv, RoutesApart
<1>14. IpamTypes'
  BY Zenon, <1>1, <1>6, <1>8 DEF IpamInv, IpamTypes
<1> QED BY Zenon, <1>10, <1>11, <1>12, <1>13, <1>14 DEF IpamInv, AllocsApart

\* A request reads the routes: what it is to write has each target once.
LEMMA IpamPlan ==
    ASSUME IpamInv, NEW r \in Requests, routes # None, UNCHANGED <<allocs, routes>>,
           NEW w \in SUBSET Routes, OneEach(w),
           routes \subseteq w \/ \E x \in routes : w = routes \ {x},
           request' = [request EXCEPT ![r] = [at |-> "update", read |-> routes, write |-> w]]
    PROVE  IpamInv'
<1> DEFINE q == [at |-> "update", read |-> routes, write |-> w]
<1>1. q \in Updates /\ q.at = "update" /\ q.read = routes /\ q.write = w
  BY Zenon DEF Updates, IpamInv, IpamTypes
<1> HIDE DEF q
<1>2. /\ request' \in [Requests -> {Done} \cup Creates \cup Updates] /\ request'[r] = q
      /\ \A s \in Requests \ {r} : request'[s] = request[s]
  BY Zenon, <1>1 DEF q, IpamInv, IpamTypes
<1>3. IpamTypes'
  BY Zenon, <1>2 DEF IpamInv, IpamTypes
<1>4. AllocsApart'
  BY Zenon, <1>1, <1>2, <1>3, AllocsStay
<1>5. RoutesApart'
  BY Zenon, <1>1, <1>2 DEF IpamInv, RoutesApart
<1> QED BY Zenon, <1>3, <1>4, <1>5 DEF IpamInv

LEMMA IpamRoutes ==
    ASSUME IpamInv, RouteNext
    PROVE  IpamInv'
<1>1. ASSUME NEW r \in Requests, NEW t \in Targets, add_route(r, t) PROVE IpamInv'
  <2>1. PICK i \in RouteIds :
            request' = [request EXCEPT ![r] = [at |-> "update", read |-> routes,
                                               write |-> routes \cup {[id |-> i, target |-> t]}]]
    BY Zenon, <1>1 DEF add_route
  <2>2. routes # None /\ UNCHANGED <<allocs, routes>> /\ \A x \in routes : x.target # t
    BY Zenon, <1>1 DEF add_route, SameRoute
  <2>3. routes \in SUBSET Routes /\ OneEach(routes)
    BY Zenon, <2>2 DEF IpamInv, IpamTypes, RoutesApart
  <2> DEFINE w == routes \cup {[id |-> i, target |-> t]}
  <2>4. w \in SUBSET Routes /\ routes \subseteq w
    BY <2>3 DEF Routes
  <2>5. OneEach(w)
    BY <2>2, <2>3 DEF OneEach
  <2> QED BY Zenon, <2>1, <2>2, <2>4, <2>5, IpamPlan
<1>2. ASSUME NEW r \in Requests, routes # None, NEW x \in routes, delete_route(r, x) PROVE IpamInv'
  <2>1. /\ UNCHANGED <<allocs, routes>>
        /\ request' = [request EXCEPT ![r] = [at |-> "update", read |-> routes, write |-> routes \ {x}]]
    BY Zenon, <1>2 DEF delete_route
  <2>2. routes \ {x} \in SUBSET Routes /\ OneEach(routes \ {x})
    BY Zenon, <1>2 DEF IpamInv, IpamTypes, RoutesApart, OneEach
  <2> QED BY Zenon, <1>2, <2>1, <2>2, IpamPlan
<1>3. ASSUME NEW r \in Requests, update_dhcp_pool(r) PROVE IpamInv'
  <2>1. /\ UNCHANGED allocs /\ request[r].at = "update" /\ request' = [request EXCEPT ![r] = Done]
        /\ routes' = IF routes = None THEN None ELSE request[r].write
    BY Zenon, <1>3 DEF update_dhcp_pool
  <2>2. /\ request' \in [Requests -> {Done} \cup Creates \cup Updates] /\ request'[r].at = "none"
        /\ \A s \in Requests \ {r} : request'[s] = request[s]
    BY Zenon, <2>1 DEF IpamInv, IpamTypes, Done
  <2>3. request[r].write \in SUBSET Routes /\ OneEach(request[r].write)
    BY Zenon, <2>1, RequestKinds DEF IpamInv, Updates, RoutesApart
  <2>4. IpamTypes'
    BY Zenon, <2>1, <2>2, <2>3 DEF IpamInv, IpamTypes
  <2>5. AllocsApart'
    BY Zenon, <2>1, <2>2, <2>4, AllocsStay
  <2>6. RoutesApart'
    BY Zenon, <2>1, <2>2, <2>3 DEF IpamInv, RoutesApart
  <2> QED BY Zenon, <2>4, <2>5, <2>6 DEF IpamInv
<1>4. ASSUME DeletePool PROVE IpamInv'
  <2>1. UNCHANGED <<allocs, request>> /\ routes' = IF routes = None THEN {} ELSE None
    BY Zenon, <1>4 DEF DeletePool
  <2>2. IpamTypes'
    BY Zenon, <2>1 DEF IpamInv, IpamTypes
  <2>3. AllocsApart'
    BY Zenon, <2>1, <2>2, AllocsStay
  <2>4. RoutesApart'
    BY Zenon, <2>1 DEF IpamInv, RoutesApart, OneEach
  <2> QED BY Zenon, <2>2, <2>3, <2>4 DEF IpamInv
<1> QED BY Zenon, <1>1, <1>2, <1>3, <1>4 DEF RouteNext

LEMMA IpamStep == IpamInv /\ [AllocNext \/ RouteNext]_ipamVars => IpamInv'
<1> SUFFICES ASSUME IpamInv, [AllocNext \/ RouteNext]_ipamVars PROVE IpamInv'
  BY Zenon
<1>1. CASE UNCHANGED ipamVars
  <2>1. IpamTypes'
    BY Zenon, <1>1 DEF ipamVars, IpamInv, IpamTypes
  <2>2. AllocsApart'
    BY Zenon, <1>1, <2>1, AllocsStay DEF ipamVars
  <2>3. RoutesApart'
    BY Zenon, <1>1 DEF ipamVars, IpamInv, RoutesApart
  <2> QED BY Zenon, <2>1, <2>2, <2>3 DEF IpamInv
<1> QED BY Zenon, <1>1, IpamChoose, IpamCreate, IpamRelease, IpamRoutes DEF AllocNext

\* When no two rows share an address, the rows of a pool are as many as the
\* addresses that are used, and list_pools reports the rest.
LEMMA AvailableRight ==
    ASSUME IpamInv, NEW p \in DOMAIN IpamPools,
           \A i, j \in AllocRows : i # j => <<allocs[i].pool, allocs[i].ip>> # <<allocs[j].pool, allocs[j].ip>>
    PROVE  available(p) = Cardinality(IpamPools[p] \ used_ips(p))
<1> DEFINE R == {i \in AllocRows : allocs[i].pool = p}
           f == [i \in R |-> allocs[i].ip]
<1>1. IsFiniteSet(R)
  BY Zenon, FS_Subset DEF IpamInv, AllocsApart
<1>2. used_ips(p) = {f[i] : i \in R} /\ used_ips(p) \subseteq IpamPools[p]
  BY Zenon DEF used_ips, IpamInv, AllocsApart, Distinct
<1>3. f \in Bijection(R, used_ips(p))
  <2>1. f \in [R -> used_ips(p)]
    BY Zenon, <1>2
  <2>2. \A i, j \in R : f[i] = f[j] => i = j
    BY Zenon
  <2> QED BY Zenon, <1>2, <2>1, <2>2 DEF Bijection, Injection, Surjection, IsInjective
<1>4. Cardinality(used_ips(p)) = Cardinality(R)
  BY Zenon, <1>1, <1>3, FS_Bijection DEF ExistsBijection
<1>5. IsFiniteSet(IpamPools[p])
  BY Zenon, IpamAssumption
<1>6. IpamPools[p] \cap used_ips(p) = used_ips(p)
  BY Zenon, <1>2
<1>7. Cardinality(IpamPools[p] \ used_ips(p)) = Cardinality(IpamPools[p]) - Cardinality(R)
  <2>1. Cardinality(IpamPools[p] \ used_ips(p))
          = Cardinality(IpamPools[p]) - Cardinality(IpamPools[p] \cap used_ips(p))
    BY Zenon, <1>5, FS_Difference
  <2> QED BY Zenon, <1>4, <1>6, <2>1
<1>8. Cardinality(R) <= Cardinality(IpamPools[p])
  BY Zenon, <1>2, <1>4, <1>5, FS_Subset
<1>9. Cardinality(R) \in Nat /\ Cardinality(IpamPools[p]) \in Nat
  BY Zenon, <1>1, <1>5, FS_CardinalityType
<1> QED BY <1>7, <1>8, <1>9 DEF available, ip_range

LEMMA IpamInvShared == IpamInv => SharedByRaceOnly /\ RoutesDiffer
<1> SUFFICES ASSUME IpamInv PROVE SharedByRaceOnly /\ RoutesDiffer
  BY Zenon
<1>1. \A i \in AllocRows : allocs[i].ip \in IpamPools[allocs[i].pool]
  BY Zenon DEF IpamInv, AllocsApart, Distinct
<1>2. ASSUME NEW i \in AllocRows, NEW j \in AllocRows, allocs[i].pool = allocs[j].pool,
             allocs[i].ip = allocs[j].ip \/ allocs[i].container = allocs[j].container
      PROVE  i \notin allocs[j].seen /\ j \notin allocs[i].seen
  BY Zenon, <1>2 DEF IpamInv, AllocsApart, Distinct
<1>3. SharedByRaceOnly
  BY Zenon, <1>1, <1>2, AvailableRight DEF SharedByRaceOnly
<1>4. RoutesDiffer
  BY Zenon DEF IpamInv, RoutesApart, OneEach, RoutesDiffer
<1> QED BY Zenon, <1>3, <1>4

\* The pool is only written back by update_dhcp_pool; a route that the writer
\* had read and does not write is the one it deletes.
LEMMA RouteLost ==
    ASSUME IpamInv, [AllocNext \/ RouteNext]_ipamVars, routes # None, routes' # None,
           NEW x \in routes \ routes'
    PROVE  \E r \in Requests : /\ request[r].at = "update" /\ request'[r] = Done
                               /\ x \in request[r].read => request[r].write = request[r].read \ {x}
<1>1. PICK r \in Requests : update_dhcp_pool(r)
  BY Zenon DEF AllocNext, RouteNext, Choose, create_ipam_allocation, deallocate, add_route, delete_route, DeletePool, ipamVars
<1>2. request[r].at = "update" /\ request'[r] = Done /\ routes' = request[r].write
  BY Zenon, <1>1 DEF update_dhcp_pool, IpamInv, IpamTypes
<1>3. x \in request[r].read => request[r].write = request[r].read \ {x}
  BY Zenon, <1>2 DEF IpamInv, RoutesApart
<1> QED BY Zenon, <1>2, <1>3

\* Allocations and routes go wrong only when two requests overlap, and only in
\* the ways the property names (rest/ipam.rs, rest/dhcp_routes.rs), with any
\* number of requests, pools, containers and routes.
THEOREM OnlyRacesShare == IpamSpec => RaceOnly
<1>1. IpamInv /\ [AllocNext \/ RouteNext]_ipamVars
        => [routes # None /\ routes' # None =>
              \A x \in routes \ routes' :
                  \E r \in Requests : /\ request[r].at = "update" /\ request'[r] = Done
                                      /\ x \in request[r].read => request[r].write = request[r].read \ {x}]_ipamVars
  BY Zenon, RouteLost
<1> QED BY <1>1, IpamStarts, IpamStep, IpamInvShared, PTL DEF IpamSpec, RaceOnly, RouteLostByRaceOnly

-----------------------------------------------------------------------------
(* The options of a reply. *)

\* The place of a number in a finite set, counted from 1, tells it from the others.
LEMMA AtApart ==
    ASSUME NEW S \in SUBSET Nat, IsFiniteSet(S), NEW j \in S, NEW k \in S, At(S, j) = At(S, k)
    PROVE  j = k
<1>1. ASSUME NEW a \in S, NEW b \in S, a < b PROVE At(S, a) # At(S, b)
  <2> DEFINE A == {x \in S : x <= a}
             B == {x \in S : x <= b}
  <2>1. b \in B /\ b \notin A /\ A \subseteq B
    <3>1. a \in Nat /\ b \in Nat /\ \A x \in S : x \in Nat
      BY Zenon
    <3>2. b <= b /\ ~(b <= a) /\ \A x \in S : x <= a => x <= b
      BY <1>1, <3>1
    <3> QED BY Zenon, <3>2
  <2>2. IsFiniteSet(B)
    BY Zenon, FS_Subset
  <2>3. Cardinality(B) # Cardinality(A)
    BY Zenon, <2>1, <2>2, FS_Subset
  <2> QED BY Zenon, <2>3 DEF At
<1>2. ~(j < k) /\ ~(k < j)
  BY Zenon, <1>1
<1> QED BY <1>2

LEMMA NthOfAt ==
    ASSUME NEW S \in SUBSET Nat, IsFiniteSet(S), NEW k \in S
    PROVE  Nth(S, At(S, k)) = k
<1>1. At(S, k) <= Cardinality(S) /\ At(S, k) \in Nat /\ Cardinality(S) \in Nat
  <2>1. {j \in S : j <= k} \in SUBSET S
    BY Zenon
  <2> QED BY Zenon, <2>1, FS_Subset, FS_CardinalityType DEF At
<1>2. (CHOOSE j \in S : At(S, j) = At(S, k)) = k
  BY Zenon, AtApart
<1> QED BY <1>1, <1>2 DEF Nth

LEMMA FirstIn ==
    ASSUME NEW S \in SUBSET Nat, IsFiniteSet(S), S # {}
    PROVE  FirstOf(S) \in S
<1> DEFINE less == {ss \in Nat \X Nat : ss[1] < ss[2]}
<1>1. IsWellFoundedOn(less, Nat)
  BY Zenon, NatLessThanWellFounded DEF OpToRel
<1> HIDE DEF less
<1>2. PICK k \in S : \A j \in S : <<j, k>> \notin less
  BY Zenon, <1>1, WFMin
<1>3. ASSUME NEW j \in S PROVE k <= j /\ (j <= k => j = k)
  <2>1. j \in Nat /\ k \in Nat /\ <<j, k>> \in Nat \X Nat
    BY Zenon
  <2>2. <<j, k>> \notin less
    BY Zenon, <1>2
  <2> QED BY <2>1, <2>2 DEF less
<1>4. {j \in S : j <= k} = {k}
  BY Zenon, <1>3
<1>5. At(S, k) = 1
  BY Zenon, <1>4, FS_Singleton DEF At
<1> QED BY <1>5, NthOfAt DEF FirstOf

LEMMA FirstOfNone == FirstOf({}) = None
BY FS_EmptySet DEF FirstOf, Nth

OptionsInv ==
    /\ table \subseteq PoolKeys /\ IsFiniteSet(table)
    /\ inMemory \subseteq PoolKeys /\ IsFiniteSet(inMemory)
    /\ fresh => inMemory = table \ Unparsable

LEMMA OptionsStarts == OptionsInit => OptionsInv
BY Zenon, FS_EmptySet DEF OptionsInit, OptionsInv

LEMMA OptionsStep == OptionsInv /\ [OptionsNext]_optionVars => OptionsInv'
<1> SUFFICES ASSUME OptionsInv, [OptionsNext]_optionVars PROVE OptionsInv'
  BY Zenon
<1>1. ASSUME NEW k \in PoolKeys, EditPools(k) PROVE OptionsInv'
  <2>1. IsFiniteSet(table') /\ table' \subseteq PoolKeys
    BY Zenon, <1>1, FS_AddElement, FS_RemoveElement DEF EditPools, OptionsInv
  <2> QED BY Zenon, <1>1, <2>1 DEF EditPools, OptionsInv
<1>2. ASSUME Rebuild PROVE OptionsInv'
  BY Zenon, <1>2, FS_Difference DEF Rebuild, OptionsInv
<1>3. ASSUME NEW o \in {None} \cup Reservations, EditReservation(o) PROVE OptionsInv'
  BY Zenon, <1>3 DEF EditReservation, OptionsInv
<1>4. CASE UNCHANGED optionVars
  BY Zenon, <1>4 DEF optionVars, OptionsInv
<1> QED BY Zenon, <1>1, <1>2, <1>3, <1>4 DEF OptionsNext

LEMMA OnePool == OptionsInv => OnePoolPerReply
<1> SUFFICES ASSUME OptionsInv, NEW ip \in Addresses, fresh, table \cap Unparsable = {}
             PROVE  db_pool(ip) = effective_pool(ip)
  BY Zenon DEF OnePoolPerReply
<1>1. inMemory = table
  BY Zenon DEF OptionsInv
<1>2. CASE Containing(ip) = {}
  BY Zenon, <1>1, <1>2 DEF db_pool, effective_pool
<1>3. CASE Containing(ip) # {}
  <2> DEFINE k == FirstOf(Containing(ip))
  <2>1. table \in SUBSET Nat /\ Containing(ip) \in SUBSET table /\ Containing(ip) \in SUBSET Nat
    BY Zenon, <1>1, OptionsAssumption DEF OptionsInv, Containing
  <2>2. IsFiniteSet(table) /\ IsFiniteSet(Containing(ip))
    BY Zenon, <2>1, FS_Subset DEF OptionsInv
  <2>3. k \in table
    BY Zenon, <1>3, <2>1, <2>2, FirstIn
  <2>4. Nth(table, At(table, k)) = k
    BY Zenon, <2>1, <2>2, <2>3, NthOfAt
  <2> QED BY Zenon, <1>1, <1>3, <2>4 DEF db_pool, effective_pool
<1> QED BY Zenon, <1>2, <1>3

LEMMA Coherent == OptionsInv => ReplyCoherent
<1> SUFFICES ASSUME OptionsInv, NEW ip \in Addresses
             PROVE  /\ OPT_ROUTES(ip) # None /\ OPT_ROUTER(ip) # None => OPT_ROUTES(ip) \in {OPT_ROUTER(ip), OwnRoute}
                    /\ lease_time(ip) # None /\ OPT_LEASE_TIME(ip) # None
                          => OPT_LEASE_TIME(ip) = (IF Overridden("lease") THEN Reservation ELSE lease_time(ip))
                    /\ OPT_DOMAIN_NAME(ip) = None \/ OPT_DOMAIN_SEARCH(ip) = None
                    /\ \A client \in {"ipxe", "efi", "bios"} :
                          /\ OPT_TFTP_SERVER(client, ip) # None => BootFile(client, ip) # "none"
                          /\ BootFile(client, ip) = "url" => client = "ipxe" /\ OPT_ROOT_PATH(ip) = None
  BY Zenon DEF ReplyCoherent
<1>1. OPT_ROUTES(ip) # None /\ OPT_ROUTER(ip) # None => OPT_ROUTES(ip) \in {OPT_ROUTER(ip), OwnRoute}
  BY Zenon DEF OPT_ROUTES, OPT_ROUTER, DefaultRoute
<1>2. lease_time(ip) # None /\ OPT_LEASE_TIME(ip) # None
        => OPT_LEASE_TIME(ip) = (IF Overridden("lease") THEN Reservation ELSE lease_time(ip))
  <2>1. inMemory = {} => Containing(ip) = {} /\ effective_pool(ip) = None
    BY Zenon, FirstOfNone DEF Containing, effective_pool
  <2> QED BY Zenon, <2>1 DEF lease_time, OPT_LEASE_TIME, effective_pool
<1>3. OPT_DOMAIN_NAME(ip) = None \/ OPT_DOMAIN_SEARCH(ip) = None
  BY Zenon DEF OPT_DOMAIN_NAME
<1>4. ASSUME NEW client \in {"ipxe", "efi", "bios"}
      PROVE  /\ OPT_TFTP_SERVER(client, ip) # None => BootFile(client, ip) # "none"
             /\ BootFile(client, ip) = "url" => client = "ipxe" /\ OPT_ROOT_PATH(ip) = None
  <2>1. OPT_TFTP_SERVER(client, ip) # None => BootFile(client, ip) # "none"
    BY Zenon DEF OPT_TFTP_SERVER
  <2>2. BootFile(client, ip) = "url" => client = "ipxe" /\ OPT_ROOT_PATH(ip) = None
    BY Zenon DEF BootFile
  <2> QED BY Zenon, <2>1, <2>2
<1> QED BY Zenon, <1>1, <1>2, <1>3, <1>4

\* The options of a reply go together (build_response), with any pools, options
\* and reservations, whatever table and memory hold when it is built.
THEOREM RepliesRight == OptionsSpec => []ReplyRight
<1>1. OptionsInv => ReplyRight
  BY Zenon, OnePool, Coherent DEF ReplyRight
<1> QED BY <1>1, OptionsStarts, OptionsStep, PTL DEF OptionsSpec

-----------------------------------------------------------------------------
(* Permits of the serving loops. *)

Transports == {"tcp", "udp"}
ServeTasks == [via : Transports \cup {"none"}, at : {"read", "answer", "none"}]

\* Permits and tasks add up, and only finitely many tasks run.
PermitsOK ==
    /\ permits \in [Servers -> [Transports -> Nat]] /\ task \in [Servers -> [Clients -> ServeTasks]]
    /\ \A s \in Servers, via \in Transports :
          IsFiniteSet(Serving(s, via)) /\ permits[s][via] = Limit - Cardinality(Serving(s, via))

\* A process starts with every permit and no task.
AllFree ==
    /\ permits = [s \in Servers |-> [via \in Transports |-> Limit]]
    /\ task = [s \in Servers |-> [c \in Clients |-> NoTask]]

ListenInv == ListenTypeOK /\ PermitsOK

LEMMA PermitTaken ==
    ASSUME PermitsOK, NEW s \in Servers, NEW c \in Clients, NEW via \in Transports,
           task[s][c] = NoTask, Spawned(s, c, via)
    PROVE  PermitsOK'
<1> DEFINE t == [via |-> via, at |-> "read"]
<1>1. /\ permits[s][via] > 0 /\ permits' = [permits EXCEPT ![s][via] = permits[s][via] - 1]
      /\ task' = [task EXCEPT ![s][c] = t] /\ t \in ServeTasks /\ t.via = via
  BY DEF Spawned, ServeTasks, Transports
<1> HIDE DEF t
<1>2. task' \in [Servers -> [Clients -> ServeTasks]] /\ permits' \in [Servers -> [Transports -> Nat]]
  BY <1>1 DEF PermitsOK
<1>3. NoTask.via \notin Transports
  BY DEF NoTask, Transports
<1>4. ASSUME NEW u \in Servers, NEW v \in Transports
      PROVE  IsFiniteSet(Serving(u, v)') /\ permits'[u][v] = Limit - Cardinality(Serving(u, v)')
  <2>1. /\ IsFiniteSet(Serving(u, v)) /\ permits[u][v] = Limit - Cardinality(Serving(u, v))
        /\ Cardinality(Serving(u, v)) \in Nat
    BY Zenon, FS_CardinalityType DEF PermitsOK
  <2>2. CASE u = s /\ v = via
    <3>1. Serving(u, v)' = Serving(u, v) \cup {c} /\ c \notin Serving(u, v)
      BY <1>1, <1>3, <2>2 DEF Serving, PermitsOK
    <3>2. permits'[u][v] = permits[u][v] - 1
      BY <1>1, <2>2 DEF PermitsOK
    <3>3. IsFiniteSet(Serving(u, v)') /\ Cardinality(Serving(u, v)') = Cardinality(Serving(u, v)) + 1
      <4> DEFINE S == Serving(u, v)
      <4>1. IsFiniteSet(S \cup {c}) /\ Cardinality(S \cup {c}) = IF c \in S THEN Cardinality(S) ELSE Cardinality(S) + 1
        BY Zenon, <2>1, FS_AddElement
      <4> HIDE DEF S
      <4>2. Serving(u, v)' = S \cup {c} /\ c \notin S /\ Serving(u, v) = S
        BY Zenon, <3>1 DEF S
      <4> QED BY Zenon, <4>1, <4>2
    <3> QED BY <2>1, <3>2, <3>3, LimitAssumption
  <2>3. CASE ~(u = s /\ v = via)
    <3>1. Serving(u, v)' = Serving(u, v)
      BY <1>1, <1>3, <2>3 DEF Serving, PermitsOK
    <3>2. permits'[u][v] = permits[u][v]
      BY <1>1, <2>3 DEF PermitsOK
    <3> QED BY Zenon, <2>1, <3>1, <3>2
  <2> QED BY Zenon, <2>2, <2>3
<1> QED BY Zenon, <1>2, <1>4 DEF PermitsOK

LEMMA PermitBack ==
    ASSUME PermitsOK, NEW s \in Servers, NEW c \in Clients, task[s][c].via \in Transports, Dropped(s, c)
    PROVE  PermitsOK'
<1> DEFINE via == task[s][c].via
<1>1. /\ permits' = [permits EXCEPT ![s][via] = permits[s][via] + 1]
      /\ task' = [task EXCEPT ![s][c] = NoTask]
  BY DEF Dropped
<1>2. NoTask \in ServeTasks /\ NoTask.via \notin Transports
  BY DEF NoTask, Transports, ServeTasks
<1>3. task' \in [Servers -> [Clients -> ServeTasks]] /\ permits' \in [Servers -> [Transports -> Nat]]
  BY <1>1, <1>2 DEF PermitsOK
<1>4. ASSUME NEW u \in Servers, NEW v \in Transports
      PROVE  IsFiniteSet(Serving(u, v)') /\ permits'[u][v] = Limit - Cardinality(Serving(u, v)')
  <2>1. /\ IsFiniteSet(Serving(u, v)) /\ permits[u][v] = Limit - Cardinality(Serving(u, v))
        /\ Cardinality(Serving(u, v)) \in Nat
    BY Zenon, FS_CardinalityType DEF PermitsOK
  <2>2. CASE u = s /\ v = via
    <3>1. Serving(u, v)' = Serving(u, v) \ {c} /\ c \in Serving(u, v)
      BY <1>1, <1>2, <2>2 DEF Serving, PermitsOK
    <3>2. permits'[u][v] = permits[u][v] + 1
      BY <1>1, <2>2 DEF PermitsOK
    <3>3. IsFiniteSet(Serving(u, v)') /\ Cardinality(Serving(u, v)') = Cardinality(Serving(u, v)) - 1
      <4> DEFINE S == Serving(u, v)
      <4>1. IsFiniteSet(S \ {c}) /\ Cardinality(S \ {c}) = IF c \in S THEN Cardinality(S) - 1 ELSE Cardinality(S)
        BY Zenon, <2>1, FS_RemoveElement
      <4> HIDE DEF S
      <4>2. Serving(u, v)' = S \ {c} /\ c \in S /\ Serving(u, v) = S
        BY Zenon, <3>1 DEF S
      <4> QED BY Zenon, <4>1, <4>2
    <3> QED BY <2>1, <3>2, <3>3, LimitAssumption
  <2>3. CASE ~(u = s /\ v = via)
    <3>1. Serving(u, v)' = Serving(u, v)
      BY <1>1, <1>2, <2>3 DEF Serving, PermitsOK
    <3>2. permits'[u][v] = permits[u][v]
      BY <1>1, <2>3 DEF PermitsOK
    <3> QED BY Zenon, <2>1, <3>1, <3>2
  <2> QED BY Zenon, <2>2, <2>3
<1> QED BY Zenon, <1>3, <1>4 DEF PermitsOK

LEMMA PermitsStart == AllFree => PermitsOK
<1> SUFFICES ASSUME AllFree PROVE PermitsOK
  OBVIOUS
<1> USE DEF AllFree
<1>1. NoTask \in ServeTasks /\ NoTask.via \notin Transports
  BY DEF NoTask, Transports, ServeTasks
<1>2. ASSUME NEW s \in Servers, NEW via \in Transports
      PROVE  IsFiniteSet(Serving(s, via)) /\ permits[s][via] = Limit - Cardinality(Serving(s, via))
  <2>1. Serving(s, via) = {} /\ permits[s][via] = Limit
    BY Zenon, <1>1 DEF Serving
  <2>2. IsFiniteSet({}) /\ Cardinality({}) = 0
    BY Zenon, FS_EmptySet
  <2>3. Limit = Limit - 0
    BY LimitAssumption
  <2> QED BY Zenon, <2>1, <2>2, <2>3
<1>3. permits \in [Servers -> [Transports -> Nat]] /\ task \in [Servers -> [Clients -> ServeTasks]]
  BY Zenon, <1>1, LimitAssumption
<1> QED BY Zenon, <1>2, <1>3 DEF PermitsOK

\* Accepting, serving, timing out, failing, stopping and starting anew each keep
\* the books of the permits.
LEMMA ListenStep ==
    ASSUME ListenInv, [ListenNext]_listenVars
    PROVE  ListenInv'
<1> USE DEF ListenInv
<1>1. ASSUME PermitsOK', udpLoop' \in [Servers -> {"up", "failed", "ended"}],
             tcpLoop' \in [Servers -> {"up", "ended"}], shutdown' \in BOOLEAN
      PROVE  ListenInv'
  BY Zenon, <1>1 DEF ListenTypeOK, PermitsOK, Transports
<1>2. /\ udpLoop \in [Servers -> {"up", "failed", "ended"}]
      /\ tcpLoop \in [Servers -> {"up", "ended"}] /\ shutdown \in BOOLEAN /\ PermitsOK
  BY Zenon DEF ListenTypeOK
<1>3. ASSUME UNCHANGED <<permits, task>>
      PROVE  PermitsOK'
  BY Zenon, <1>2, <1>3 DEF PermitsOK, Serving
<1>4. "tcp" \in Transports /\ "udp" \in Transports
  BY Zenon DEF Transports
<1>5. CASE Shutdown
  BY Zenon, <1>1, <1>2, <1>3, <1>5 DEF Shutdown
<1>6. CASE NewProcess
  <2>1. /\ AllFree'
        /\ udpLoop' = [s \in Servers |-> "up"] /\ tcpLoop' = [s \in Servers |-> "up"] /\ shutdown' = FALSE
    BY Zenon, <1>6 DEF NewProcess, AllFree, Transports
  <2>2. PermitsOK'
    BY <2>1, PermitsStart, PTL
  <2>3. udpLoop' \in [Servers -> {"up", "failed", "ended"}] /\ tcpLoop' \in [Servers -> {"up", "ended"}]
    BY Zenon, <2>1
  <2> QED BY Zenon, <1>1, <2>1, <2>2, <2>3
<1>7. ASSUME NEW s \in Servers, UdpError(s) PROVE ListenInv'
  <2>1. udpLoop' \in [Servers -> {"up", "failed", "ended"}] /\ UNCHANGED <<tcpLoop, permits, task, shutdown>>
    BY <1>2, <1>7 DEF UdpError
  <2> QED BY Zenon, <1>1, <1>2, <1>3, <2>1
<1>8. ASSUME NEW s \in Servers, UdpStop(s) PROVE ListenInv'
  <2>1. /\ udpLoop' \in [Servers -> {"up", "failed", "ended"}] /\ tcpLoop' \in [Servers -> {"up", "ended"}]
        /\ UNCHANGED <<permits, task, shutdown>>
    BY <1>2, <1>8 DEF UdpStop
  <2> QED BY Zenon, <1>1, <1>2, <1>3, <2>1
<1>9. ASSUME NEW s \in Servers, TcpStop(s) PROVE ListenInv'
  <2>1. tcpLoop' \in [Servers -> {"up", "ended"}] /\ UNCHANGED <<udpLoop, permits, task, shutdown>>
    BY <1>2, <1>9 DEF TcpStop
  <2> QED BY Zenon, <1>1, <1>2, <1>3, <2>1
<1>10. ASSUME NEW s \in Servers, NEW c \in Clients, Accept(s, c) PROVE ListenInv'
  <2>1. PermitsOK'
    BY Zenon, <1>2, <1>4, <1>10, PermitTaken DEF Accept
  <2> QED BY Zenon, <1>1, <1>2, <1>10, <2>1 DEF Accept
<1>11. ASSUME NEW s \in Servers, NEW c \in Clients, TcpRead(s, c) PROVE ListenInv'
  <2>1. /\ task' \in [Servers -> [Clients -> ServeTasks]]
        /\ \A u \in Servers, d \in Clients : task'[u][d].via = task[u][d].via
    BY Zenon, <1>2, <1>11 DEF TcpRead, PermitsOK, ServeTasks
  <2>2. UNCHANGED <<udpLoop, tcpLoop, permits, shutdown>>
    BY Zenon, <1>11 DEF TcpRead
  <2>3. \A u \in Servers, v \in Transports : Serving(u, v)' = Serving(u, v)
    BY Zenon, <2>1 DEF Serving
  <2>4. PermitsOK'
    BY Zenon, <1>2, <2>1, <2>2, <2>3 DEF PermitsOK
  <2> QED BY Zenon, <1>1, <1>2, <2>2, <2>4
<1>12. ASSUME NEW s \in Servers, NEW c \in Clients, TcpDone(s, c) \/ TcpTimeout(s, c) PROVE ListenInv'
  <2>1. task[s][c].via \in Transports /\ Dropped(s, c) /\ UNCHANGED <<udpLoop, tcpLoop, shutdown>>
    BY Zenon, <1>4, <1>12 DEF TcpDone, TcpTimeout
  <2>2. PermitsOK'
    BY Zenon, <1>2, <2>1, PermitBack
  <2> QED BY Zenon, <1>1, <1>2, <2>1, <2>2
<1>13. ASSUME NEW s \in Servers, NEW c \in Clients, UdpQuery(s, c) PROVE ListenInv'
  <2>1. PermitsOK'
    BY Zenon, <1>2, <1>4, <1>13, PermitTaken DEF UdpQuery
  <2> QED BY Zenon, <1>1, <1>2, <1>13, <2>1 DEF UdpQuery
<1>14. ASSUME NEW s \in Servers, NEW c \in Clients, UdpDone(s, c) PROVE ListenInv'
  <2>1. task[s][c].via \in Transports /\ Dropped(s, c) /\ UNCHANGED <<udpLoop, tcpLoop, shutdown>>
    BY Zenon, <1>4, <1>14 DEF UdpDone
  <2>2. PermitsOK'
    BY Zenon, <1>2, <2>1, PermitBack
  <2> QED BY Zenon, <1>1, <1>2, <2>1, <2>2
<1>15. CASE UNCHANGED listenVars
  BY Zenon, <1>1, <1>2, <1>3, <1>15 DEF listenVars
<1> QED
  BY Zenon, <1>5, <1>6, <1>7, <1>8, <1>9, <1>10, <1>11, <1>12, <1>13, <1>14, <1>15 DEF ListenNext

\* The permits of AuthServer::run and RecursorServer::run: what is out is exactly
\* what is being served, in every run of any number of clients and processes.
THEOREM PermitsKept == ListenInit /\ [][ListenNext]_listenVars => []ListenTypeOK
<1>1. ListenInit => ListenInv
  <2> SUFFICES ASSUME ListenInit PROVE ListenInv
    OBVIOUS
  <2>1. PermitsOK
    BY Zenon, PermitsStart DEF ListenInit, AllFree, Transports
  <2> QED BY Zenon, <2>1 DEF ListenInit, ListenInv, ListenTypeOK, PermitsOK, Transports
<1>2. ListenInv /\ [ListenNext]_listenVars => ListenInv'
  BY Zenon, ListenStep
<1>3. ListenInv => ListenTypeOK
  BY Zenon DEF ListenInv
<1> QED BY <1>1, <1>2, <1>3, PTL

-----------------------------------------------------------------------------
(* The receive loop of the DHCPv4 server. *)

\* Gateway mode of the DHCPv4 server never holds a socket, or a packet that the
\* next recycling would lose, while it handles a packet.
THEOREM GatewayRecycles == LoopInit /\ [][LoopNext]_loopVars => []NoSocketWhileHandling
<1>1. LoopInit => NoSocketWhileHandling
  BY Zenon DEF LoopInit, NoSocketWhileHandling
<1>2. NoSocketWhileHandling /\ [LoopNext]_loopVars => NoSocketWhileHandling'
  <2> SUFFICES ASSUME NoSocketWhileHandling, [LoopNext]_loopVars PROVE NoSocketWhileHandling'
    OBVIOUS
  <2> USE DEF NoSocketWhileHandling
  <2>1. CASE \E h \in Hosts : Ask(h) \/ Transmit(h)
    BY Zenon, <2>1 DEF Ask, Transmit
  <2>2. CASE bind_recv_socket \/ HalfMinute \/ Deadman
    BY Zenon, <2>2 DEF bind_recv_socket, HalfMinute, Deadman
  <2>3. CASE recv_normal
    BY <2>3 DEF recv_normal
  <2>4. CASE recv_gateway
    BY Zenon, <2>4 DEF recv_gateway
  <2>5. CASE Answer \/ NoAnswer \/ LoopRestart
    BY Zenon, <2>5 DEF Answer, NoAnswer, LoopRestart
  <2>6. CASE UNCHANGED loopVars
    BY Zenon, <2>6 DEF loopVars
  <2> QED BY Zenon, <2>1, <2>2, <2>3, <2>4, <2>5, <2>6 DEF LoopNext
<1> QED BY <1>1, <1>2, PTL

=============================================================================
