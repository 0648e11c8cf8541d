----------------------------- MODULE TomlImport -----------------------------
(***************************************************************************)
(* The import of the configuration file at start-up (main.rs,              *)
(* migrate_toml_to_db): when the tables of DHCP pools and reservations are *)
(* both empty, the pools, reservations and forward zones of the file are   *)
(* written, a transaction each.                                            *)
(*                                                                         *)
(* It runs before the REST API is there, so operators edit the tables only *)
(* after it.  The process may be killed between two transactions; the next *)
(* start decides anew.  Pools get a random id, reservations are keyed by   *)
(* MAC and refused when there, forwarders are keyed by zone and written    *)
(* over.                                                                   *)
(***************************************************************************)
EXTENDS Integers, Nothing

CONSTANTS TomlPools, TomlReservations, TomlForwarders,   \* of the file
          AddedPools                                     \* made by operators

ASSUME ImportAssumption == None # "toml"

VARIABLES poolRows,      \* pool -> rows that stand for it, up to 2
          reserved,      \* macs with a reservation
          forwarders,    \* zone -> who wrote its forwarder: None, "toml" or "api"
          importing,     \* what is left to import
          cut,           \* history: an import was interrupted, or a row of it failed
          bare,          \* history: both DHCP tables were empty at this start
          edited         \* history: what operators removed or changed

importVars == <<poolRows, reserved, forwarders, importing, cut, bare, edited>>

File == (TomlPools \X {"pool"}) \cup (TomlReservations \X {"mac"}) \cup (TomlForwarders \X {"zone"})

ImportInit ==
    /\ poolRows = [p \in TomlPools \cup AddedPools |-> 0] /\ reserved = {}
    /\ forwarders = [z \in TomlForwarders |-> None]
    /\ importing = File /\ cut = FALSE /\ bare = TRUE /\ edited = {}

dhcp_tables_empty == reserved = {} /\ \A p \in DOMAIN poolRows : poolRows[p] = 0

\* Of what is left: pools before reservations before forward zones. A row that
\* cannot be written is logged and passed over.
Import(x, ok) ==
    /\ x \in importing
    /\ \A y \in importing : x[2] = "zone" => y[2] = "zone"
    /\ \A y \in importing : x[2] = "mac" => y[2] # "pool"
    /\ poolRows' = IF ok /\ x[2] = "pool" THEN [poolRows EXCEPT ![x[1]] = IF @ = 2 THEN 2 ELSE @ + 1] ELSE poolRows
    /\ reserved' = IF ok /\ x[2] = "mac" THEN reserved \cup {x[1]} ELSE reserved
    /\ forwarders' = IF ok /\ x[2] = "zone" THEN [forwarders EXCEPT ![x[1]] = "toml"] ELSE forwarders
    /\ importing' = importing \ {x} /\ cut' = (cut \/ ~ok)
    /\ UNCHANGED <<bare, edited>>

\* Mutant: the forward zones are imported at every start.
StartAgain_forwarders ==
    /\ importing' = IF dhcp_tables_empty THEN File ELSE TomlForwarders \X {"zone"}
    /\ bare' = (reserved = {} /\ \A p \in DOMAIN poolRows : poolRows[p] = 0)
    /\ cut' = (cut \/ importing # {})
    /\ UNCHANGED <<poolRows, reserved, forwarders, edited>>

\* The process ends, in the middle of an import or later, and starts again.
StartAgain ==
    /\ importing' = IF dhcp_tables_empty THEN File ELSE {}
    /\ bare' = (reserved = {} /\ \A p \in DOMAIN poolRows : poolRows[p] = 0)
    /\ cut' = (cut \/ importing # {})
    /\ UNCHANGED <<poolRows, reserved, forwarders, edited>>

\* The REST API.
Operators ==
    /\ importing = {}
    /\ \/ \E p \in DOMAIN poolRows :
            /\ poolRows' = [poolRows EXCEPT ![p] = IF @ > 0 THEN @ - 1 ELSE IF p \in AddedPools THEN 1 ELSE 0]
            /\ poolRows' # poolRows
            /\ edited' = IF p \in TomlPools THEN edited \cup {p} ELSE edited
            /\ UNCHANGED <<reserved, forwarders>>
       \/ \E m \in reserved : reserved' = reserved \ {m} /\ edited' = edited \cup {m} /\ UNCHANGED <<poolRows, forwarders>>
       \/ \E m \in TomlReservations \ reserved : reserved' = reserved \cup {m} /\ UNCHANGED <<poolRows, forwarders, edited>>
       \/ \E z \in TomlForwarders, f \in {None, "api"} :
            /\ forwarders[z] # f /\ forwarders' = [forwarders EXCEPT ![z] = f]
            /\ UNCHANGED <<poolRows, reserved, edited>>
    /\ UNCHANGED <<importing, cut, bare>>

ImportNext == (\E x \in File, ok \in BOOLEAN : Import(x, ok)) \/ StartAgain \/ Operators

ImportSpec == ImportInit /\ [][ImportNext]_importVars

-----------------------------------------------------------------------------
(* Properties. *)

\* No pool of the file is ever in the table twice, however often the process is
\* killed and started, and one that is missing once the import is over was
\* deleted by an operator or was lost to an import that was interrupted or
\* failed: the next start finds the tables not empty and does not go on with it.
ImportedOnce ==
    /\ \A p \in TomlPools : poolRows[p] < 2
    /\ importing = {} => \A p \in TomlPools : poolRows[p] = 0 => p \in edited \/ cut
    /\ importing = {} => TomlReservations \subseteq reserved \cup edited \/ cut

\* "Only runs once": a forwarder an operator changed or removed is put back as
\* the file has it only by a start that found neither pool nor reservation. An
\* instance that has none at all is in that case at every start.
EditsKept ==
    [][\A z \in TomlForwarders :
          forwarders[z] # "toml" /\ forwarders'[z] = "toml" => bare]_importVars

\* The import happens once and leaves what operators did alone.
ImportRight == []ImportedOnce /\ EditsKept

=============================================================================
