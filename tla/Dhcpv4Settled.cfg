SPECIFICATION SettledSpec
CONSTANTS
    m1 = m1  m2 = m2  m3 = m3  l1 = l1  l2 = l2  l3 = l3
    None = None
    Macs = {m1, m2, m3}
    Ips = {1, 2}
    LeaseIds = {l1, l2, l3}
    LeaseTime = 1
    Retention = 0
    PoolIds = {1}
    lo <- PoolLo
    hi <- PoolHi
    Editable = {}
    Reservable = {}
SYMMETRY RowSymmetry
INVARIANTS TablesAgree 
PROPERTY LeaseSpec
