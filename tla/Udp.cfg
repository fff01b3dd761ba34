SPECIFICATION UdpFairSpec
CONSTANTS
    Keys = {k1, k2, k3}
    Fds = {f1, f2, f3, f4}
    None = None
    UdpCacheSize = 2
    DnsCacheSize = 1
INVARIANTS
    ClientTables
    OnlyLateLeft
PROPERTIES
    UsedIsKept
    PortReleased
CHECK_DEADLOCK FALSE
