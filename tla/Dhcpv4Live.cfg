SPECIFICATION UpgradeSpec
CONSTANTS
    m1 = m1  m2 = m2  m3 = m3  l1 = l1  l2 = l2  l3 = l3
    None = None
    Macs = {m1}
    Ips = {1, 2, 3}
    LeaseIds = {l1, l2}
    LeaseTime = 1
    Retention = 1
    PoolIds = {1, 2}
    lo <- TwoPools
    hi <- TwoPools
    Editable = {1}
    Reservable <- ReserveAnywhere
PROPERTIES LiveLeaseNeverPurged ExpiredGo AbandonedReclaimed
