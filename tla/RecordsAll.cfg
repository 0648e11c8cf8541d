SPECIFICATION Spec
CONSTANTS
    z1 = z1  z2 = z2  z3 = z3  r1 = r1  r2 = r2  r3 = r3  r4 = r4  r5 = r5  r6 = r6  h = h  k = k  x = x  y = y
    None = None
    ZoneIds = {z1, z2}
    ZoneNames = {"fwd", "rev"}
    Hosts = {h, k}
    Ips = {x}
    Keys = {h, k, x}
    Data = {h, k, x}
    Ids = {r1, r2}
    Clients = {"c"}
    Ops = {"zone", "drop", "create", "update", "rename", "delete", "register", "unregister", "grpc", "grpc_update", "import"}
SYMMETRY IdSymmetry
INVARIANT IndexesSound
PROPERTY DeleteTakesAll
