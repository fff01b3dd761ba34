SPECIFICATION Spec
CONSTANTS
    Hostnames = {h1}
    Callbacks = {c1, c2}
    None = None
    IPV6_CONNECTION_SUPPORT = TRUE
    Fds = {f1, f2, f3, f4}
    Listener = Listener
    DnsSock = DnsSock
    IsLocal = TRUE
    FastOpen = TRUE
    NamesShared = FALSE
    MaxBatch = 3
SYMMETRY MCSymmetry
INVARIANTS
    FdTables
    DestroyedHoldsNothing
    DnsStageIsWaiting
    ConnectionCount
    OpenIsTimed
PROPERTIES
    DestroyedIsFinal
CHECK_DEADLOCK FALSE
