----------------------------- MODULE MCServers ------------------------------
(***************************************************************************)
(* The sockets, the query counters, the DHCP services and the REST         *)
(* handlers of addresses, routes and zone-transfer settings, model-checked *)
(* in one run.                                                             *)
(* They share no state, so each behaviour is one of one service: `slice`   *)
(* says which, and the others stay as they start.                          *)
(***************************************************************************)
EXTENDS Listener, QueryTracker, Dhcpv6, Ipam, TomlImport, DhcpOptions, DhcpLoop, TransferSettings

CONSTANT Slices

VARIABLE slice

MCIpamPools == [p \in {"p"} |-> 1..2]

\* Three pools that set different options; the second overlaps the first.
MCRangeOf == <<{1, 2}, {2, 3}, {4}>>
MCSets == <<{"domain", "routes", "next", "boot", "root"}, {"search", "ownDefault", "next", "boot", "url", "efi"},
            {"domain", "search", "root"}>>
MCReservations == {{}, {"gateway", "routes"}, {"emptySearch", "emptyRoutes", "domain"}, {"search", "ownDefault"},
                   {"next", "boot", "url"}, {"root", "efi", "gateway"}, {"emptyRoot", "domain"},
                   {"lease"}}

\* Two settings with as many entries each, one that lets everybody in, one with
\* IPv6, and one of which nothing parses.
Ip(v, n) == [v |-> v, n |-> n]
Block(a, p) == [addr |-> a, prefix |-> p]
HostPort(h, p) == [host |-> h, port |-> p]
MCTransferConfigs ==
    {[allow |-> {Block(Ip(4, 2), 1)}, notify |-> {HostPort("h", None)}, secondary |-> {}],
     [allow |-> {Block(Ip(4, 1), 2)}, notify |-> {HostPort("g", None)}, secondary |-> {}],
     [allow |-> {Block(Ip(4, 2), 0)}, notify |-> {HostPort("h", 5353)}, secondary |-> {[zone |-> "z", primary |-> HostPort("p", None)]}],
     [allow |-> {Block(Ip(6, 1), None), Block(Ip(4, 3), None)}, notify |-> {}, secondary |-> {}],
     [allow |-> {Block(None, None), Block(Ip(4, 1), 3)}, notify |-> {HostPort(None, None)},
      secondary |-> {[zone |-> "", primary |-> HostPort("p", 53)]}]}
MCAxfrPeers == {Ip(4, 1), Ip(4, 3), Ip(6, 1), Ip(6, 7)}

-----------------------------------------------------------------------------

mcVars == <<listenVars, trackVars, v6Vars, ipamVars, importVars, optionVars, loopVars, settingsVars, slice>>

\* A service that is not the one of the slice has one initial state.
MCInit ==
    /\ slice \in Slices
    /\ ListenInit /\ TrackInit /\ Dhcpv6Init /\ IpamInit /\ ImportInit /\ OptionsInit /\ LoopInit /\ SettingsInit
    /\ slice # "dhcpv6" => prefix = CHOOSE p \in Prefixes : TRUE
    /\ slice # "loop" => mode = "normal" /\ relayed = {}

MCNext ==
    \/ slice = "listener" /\ ListenNext /\ UNCHANGED <<trackVars, v6Vars, ipamVars, importVars, optionVars, loopVars, settingsVars, slice>>
    \/ slice = "tracker" /\ TrackNext /\ UNCHANGED <<listenVars, v6Vars, ipamVars, importVars, optionVars, loopVars, settingsVars, slice>>
    \/ slice = "dhcpv6" /\ Dhcpv6Next /\ UNCHANGED <<listenVars, trackVars, ipamVars, importVars, optionVars, loopVars, settingsVars, slice>>
    \/ slice = "alloc" /\ AllocNext /\ UNCHANGED <<listenVars, trackVars, v6Vars, importVars, optionVars, loopVars, settingsVars, slice>>
    \/ slice = "route" /\ RouteNext /\ UNCHANGED <<listenVars, trackVars, v6Vars, importVars, optionVars, loopVars, settingsVars, slice>>
    \/ slice = "import" /\ ImportNext /\ UNCHANGED <<listenVars, trackVars, v6Vars, ipamVars, optionVars, loopVars, settingsVars, slice>>
    \/ slice = "options" /\ OptionsNext /\ UNCHANGED <<listenVars, trackVars, v6Vars, ipamVars, importVars, loopVars, settingsVars, slice>>
    \/ slice = "loop" /\ LoopNext /\ UNCHANGED <<listenVars, trackVars, v6Vars, ipamVars, importVars, optionVars, settingsVars, slice>>
    \/ slice = "settings" /\ SettingsNext /\ UNCHANGED <<listenVars, trackVars, v6Vars, ipamVars, importVars, optionVars, loopVars, slice>>

\* Timeouts expire, tasks are polled; nothing is assumed of clients.
ListenFairness ==
    /\ \A s \in Servers : WF_listenVars(slice = "listener" /\ UdpStop(s)) /\ WF_listenVars(slice = "listener" /\ TcpStop(s))
    /\ \A s \in Servers, c \in Clients : /\ WF_listenVars(slice = "listener" /\ TcpTimeout(s, c))
                                         /\ WF_listenVars(slice = "listener" /\ UdpDone(s, c))

\* A bind succeeds in the end; a steadfast host gets packets into the socket again
\* and again; select! takes its ready branches in random order, so a packet, and
\* those before it in the socket, do not lose to the timer for ever; a handler
\* ends, and one that is asked again and again answers again and again.
LoopFairness ==
    /\ WF_loopVars(slice = "loop" /\ bind_recv_socket)
    /\ WF_loopVars(slice = "loop" /\ (recv_normal \/ recv_gateway))
    /\ WF_loopVars(slice = "loop" /\ (Answer \/ NoAnswer))
    /\ \A h \in Steadfast :
          /\ SF_loopVars(slice = "loop" /\ Transmit(h))
          /\ SF_loopVars(slice = "loop" /\ (\E i \in DOMAIN waiting : waiting[i] = h) /\ (recv_normal \/ recv_gateway))
          /\ SF_loopVars(slice = "loop" /\ waiting # <<>> /\ Head(waiting) = h /\ (recv_normal \/ recv_gateway))
          /\ SF_loopVars(slice = "loop" /\ handling = h /\ Answer)

\* The watcher ticks, and the database can be read again and again.
SettingsFairness ==
    /\ SF_settingsVars(slice = "settings" /\ WatcherReads(TRUE))
    /\ WF_settingsVars(slice = "settings" /\ replace)

MCSpec == MCInit /\ [][MCNext]_mcVars /\ ListenFairness /\ LoopFairness /\ SettingsFairness

=============================================================================
