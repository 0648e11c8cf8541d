SPECIFICATION MCSpec
CONSTANTS
    None = None
    Slices = {"listener", "tracker", "dhcpv6", "alloc", "route", "import", "options", "loop", "settings"}
    Servers = {"auth", "recursor"}
    Clients = {"c1", "c2"}
    Limit = 1
    Names = {"n1", "n2"}
    Tasks = {"t1", "t2"}
    MaxCount = 2
    Duids = {"d1", "d2"}
    First = 4
    Span = 4
    Prefixes = {16, 17}
    AllocIds = {"i1", "i2", "i3"}
    Containers = {"c1", "c2"}
    IpamPools <- MCIpamPools
    RouteIds = {"r1", "r2", "r3"}
    Targets = {"t1", "t2"}
    Requests = {"q1", "q2"}
    TomlPools = {"tp1", "tp2"}
    TomlReservations = {"tm"}
    TomlForwarders = {"tz"}
    AddedPools = {"ap"}
    PoolKeys = {1, 2, 3}
    RangeOf <- MCRangeOf
    Unparsable = {3}
    Sets <- MCSets
    Reservations <- MCReservations
    Addresses = {1, 2, 3, 4, 9}
    Buffer = 2
    Hosts = {"h1", "h2"}
    Steadfast = {"h1"}
    Bits = 2
    TransferConfigs <- MCTransferConfigs
    AxfrPeers <- MCAxfrPeers
    ZoneSizes = {2, 3, 4}
    AxfrRecords = 2
    MaxRuns = 2
INVARIANTS   ReplyRight
PROPERTIES ListenersLive RaceOnly  LoopServes TransferRight SettingsKept
