SPECIFICATION MCSpec
CONSTANTS
    None = None
    Slices = {"federation", "k8s", "heartbeat", "sync"}
    FedZones = {"z1", "z2"}
    Peers <- MCPeers
    PeerOf <- MCPeerOf
    Reliable = {"q"}
    MaxText = 2
    Grpc = {"q"}
    Svcs = {"s"}
    ClusterIps = {"c1"}
    PodIps = {"p1"}
    EndpointSource = "auto"
    Watched = {"services", "slices"}
    Shapes <- MCShapes
    Leaves = {"l1"}
    Interval = 2
    Wrap = 100
    ClockSteps <- MCClockSteps
    SyncIds = {"i1", "i2"}
    SyncNames = {"n1", "n2"}
    MaxPush = 3
INVARIANTS CopyHonest LeafTablesSound
PROPERTIES ReplicaMirrors Delivered ClusterServed FailureDetector
