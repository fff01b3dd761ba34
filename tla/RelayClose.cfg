SPECIFICATION FairSpec
CONSTANTS
    Hostnames = {h1}
    Callbacks = {c1, c2}
    None = None
    IPV6_CONNECTION_SUPPORT = TRUE
    Fds = {f1, f2, f3}
    Listener = Listener
    DnsSock = DnsSock
    IsLocal = FALSE
    FastOpen = FALSE
    NamesShared = FALSE
    MaxBatch = 1
PROPERTIES
    CloseReleases
    DnsStageEnds
