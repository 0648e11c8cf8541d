---------------------------- MODULE DhcpOptions -----------------------------
(***************************************************************************)
(* The options of a DHCPv4 reply (dhcp/src/v4/server.rs, build_response).  *)
(*                                                                         *)
(* Part of the options comes from the pool list in memory, rebuilt every   *)
(* minute (sync_pool), part from the pool table, read for each reply, at   *)
(* the index the pool has in memory; a reservation overrides either.  Both *)
(* lists are in key order, and memory leaves out pools whose range or      *)
(* gateway does not parse.  Keys are random, so a new pool may come before *)
(* the others.  An option is where its value comes from: a pool, the       *)
(* reservation or one of the sources below, or None when it is not sent.   *)
(* Failed reads of the database, which the code takes for an empty table,  *)
(* are left out.                                                           *)
(***************************************************************************)
EXTENDS Integers, FiniteSets, Nothing

CONSTANTS PoolKeys,     \* numbers, in key order
          RangeOf,      \* pool -> its addresses
          Unparsable,   \* pools memory leaves out
          Sets,         \* pool -> the optional options it sets
          Reservations, \* sets of options a reservation may override
          Addresses     \* addresses that are leased

ASSUME OptionsAssumption == PoolKeys \subseteq Nat \ {0} /\ Unparsable \subseteq PoolKeys

Reservation == 0
ServerIp == -1
OwnRoute == -2
AnHour == -3

VARIABLES table,     \* pools in the database
          inMemory,  \* pools in memory
          res,       \* what the client's reservation overrides, None without one
          fresh      \* history: no pool came or went since memory was rebuilt

optionVars == <<table, inMemory, res, fresh>>

OptionsInit == table = {} /\ inMemory = {} /\ res = None /\ fresh = TRUE

EditPools(k) ==
    /\ table' = IF k \in table THEN table \ {k} ELSE table \cup {k}
    /\ fresh' = FALSE /\ UNCHANGED <<inMemory, res>>

EditReservation(o) == res' = o /\ o # res /\ UNCHANGED <<table, inMemory, fresh>>

\* sync_pool, and Dhcpv4Server::new at a restart
Rebuild ==
    /\ inMemory' = table \ Unparsable /\ fresh' = TRUE
    /\ UNCHANGED <<table, res>>

OptionsNext ==
    \/ \E k \in PoolKeys : EditPools(k)
    \/ \E o \in {None} \cup Reservations : EditReservation(o)
    \/ Rebuild

OptionsSpec == OptionsInit /\ [][OptionsNext]_optionVars

-----------------------------------------------------------------------------
(* build_response *)

At(S, k) == Cardinality({j \in S : j <= k})
Nth(S, i) == IF i > Cardinality(S) THEN None ELSE CHOOSE k \in S : At(S, k) = i
FirstOf(S) == Nth(S, 1)

Containing(ip) == {k \in inMemory : ip \in RangeOf[k]}

\* The pool the address is in, or the first one.
effective_pool(ip) == IF Containing(ip) = {} THEN FirstOf(inMemory) ELSE FirstOf(Containing(ip))

\* The pool of the table with the index of that pool in memory.
db_pool(ip) ==
    IF Containing(ip) = {} THEN FirstOf(table) ELSE Nth(table, At(inMemory, FirstOf(Containing(ip))))

Overridden(o) == res # None /\ o \in res

FromPool(o, k) == IF k # None /\ o \in Sets[k] THEN k ELSE None

\* Extended options: the reservation, or the table.
Extended(o, ip) == IF Overridden(o) THEN Reservation ELSE FromPool(o, db_pool(ip))

OPT_ROUTER(ip) == IF effective_pool(ip) = None THEN None
                  ELSE IF Overridden("gateway") THEN Reservation ELSE effective_pool(ip)

\* The time the lease is written with when the reply is an ACK (handle_request),
\* None where it is a NAK, and the time the client is told.
lease_time(ip) ==
    IF Containing(ip) # {} THEN FirstOf(Containing(ip))
    ELSE IF res = None THEN None ELSE IF inMemory = {} THEN AnHour ELSE FirstOf(inMemory)

OPT_LEASE_TIME(ip) == IF effective_pool(ip) = None THEN None
                      ELSE IF Overridden("lease") THEN Reservation ELSE effective_pool(ip)

\* An override with the empty list suppresses the pool's.
OPT_DOMAIN_SEARCH(ip) == IF Overridden("emptySearch") THEN None ELSE Extended("search", ip)

OPT_DOMAIN_NAME(ip) ==
    IF effective_pool(ip) = None \/ OPT_DOMAIN_SEARCH(ip) # None THEN None
    ELSE IF Overridden("domain") THEN Reservation ELSE FromPool("domain", effective_pool(ip))

\* Option 121: a list of routes, which may have a default route of its own
\* ("ownDefault") or, in an override, be empty.
RouteKinds == {"routes", "ownDefault", "emptyRoutes"}

RouteList(ip) ==
    IF res # None /\ res \cap RouteKinds # {} THEN res \cap RouteKinds
    ELSE IF db_pool(ip) = None THEN {} ELSE Sets[db_pool(ip)] \cap RouteKinds

\* Mutant: the default route comes from the pool of the table.
DefaultRoute_table(ip) ==
    IF "ownDefault" \in RouteList(ip) THEN OwnRoute ELSE IF Overridden("gateway") THEN Reservation ELSE db_pool(ip)

\* The gateway of the default route in option 121.
DefaultRoute(ip) ==
    IF "ownDefault" \in RouteList(ip) THEN OwnRoute
    ELSE IF Overridden("gateway") THEN Reservation
    ELSE IF effective_pool(ip) # None THEN effective_pool(ip) ELSE ServerIp

OPT_ROUTES(ip) == IF RouteList(ip) \cap {"routes", "ownDefault"} = {} THEN None ELSE DefaultRoute(ip)

\* PXE: the reservation, or the configuration in memory, which a pool has only
\* with both a next server and a boot file.
Pxe(o, ip) ==
    IF Overridden(o) THEN Reservation
    ELSE IF effective_pool(ip) # None /\ {"next", "boot"} \subseteq Sets[effective_pool(ip)]
         THEN FromPool(o, effective_pool(ip)) ELSE None

OPT_ROOT_PATH(ip) == IF Overridden("emptyRoot") THEN None ELSE Pxe("root", ip)

\* client: "ipxe", "efi" or "bios"; which boot file it is sent.
BootFile(client, ip) ==
    IF Pxe("next", ip) = None \/ Pxe("boot", ip) = None THEN "none"
    ELSE CASE client = "ipxe" /\ OPT_ROOT_PATH(ip) = None /\ Pxe("url", ip) # None -> "url"
           [] client = "efi" /\ Pxe("efi", ip) # None -> "efi"
           [] OTHER -> "boot"

\* The TFTP server goes to clients that are not iPXE already.
OPT_TFTP_SERVER(client, ip) ==
    IF BootFile(client, ip) # "none" /\ client # "ipxe" THEN Pxe("next", ip) ELSE None

-----------------------------------------------------------------------------
(* Properties. *)

\* All options of a reply that come from a pool come from the same one, unless a
\* pool came or went since memory was rebuilt, or the table has a pool memory
\* leaves out: the index is then that of another pool of the table.
OnePoolPerReply ==
    \A ip \in Addresses : fresh /\ table \cap Unparsable = {} => db_pool(ip) = effective_pool(ip)

\* What a client does with a reply is coherent whatever memory and table say:
\* with option 121, where it ignores option 3, it gets the same router from both
\* unless the routes have a default of their own; its lease is written for the
\* time it is told, unless the reservation sets one, which only the client learns;
\* it is never given a single domain beside a search list; it has a file to load
\* whenever it is sent to a TFTP server, and the script of iPXE only in iPXE.
ReplyCoherent ==
    \A ip \in Addresses :
        /\ OPT_ROUTES(ip) # None /\ OPT_ROUTER(ip) # None => OPT_ROUTES(ip) \in {OPT_ROUTER(ip), OwnRoute}
        /\ lease_time(ip) # None /\ OPT_LEASE_TIME(ip) # None
              => OPT_LEASE_TIME(ip) = (IF Overridden("lease") THEN Reservation ELSE lease_time(ip))
        /\ OPT_DOMAIN_NAME(ip) = None \/ OPT_DOMAIN_SEARCH(ip) = None
        /\ \A client \in {"ipxe", "efi", "bios"} :
              /\ OPT_TFTP_SERVER(client, ip) # None => BootFile(client, ip) # "none"
              /\ BootFile(client, ip) = "url" => client = "ipxe" /\ OPT_ROOT_PATH(ip) = None

\* The options of a reply go together.
ReplyRight == OnePoolPerReply /\ ReplyCoherent

=============================================================================
