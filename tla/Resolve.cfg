SPECIFICATION MCSpec
CONSTANTS
    None = None
    Q1 = "q1"
    Q2 = "q2"
    Queries = {"q1", "q2"}
    Slices = {"store", "local", "route", "full"}
    Zones <- MCZones
    Rows <- MCRows
    Names <- MCNames
    Types <- MCTypes
    FwdZones <- MCFwdZones
    Lists <- MCLists
    Static <- MCStatic
    Upstream <- MCUpstream
    MaxSize = 1
    MaxTtl = 1
INVARIANTS   CacheSound
PROPERTY Settles
