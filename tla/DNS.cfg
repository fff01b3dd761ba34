SPECIFICATION DNSFairSpec
CONSTANTS
    Hostnames = {h1, h2}
    Callbacks = {k1, k2, k3}
    None = None
    IPV6_CONNECTION_SUPPORT = FALSE
INVARIANTS
    TablesAgree
    WaitersRegistered
    QueryOutstanding
PROPERTIES
    EveryCallerAnswered
CHECK_DEADLOCK FALSE
