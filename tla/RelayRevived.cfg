SPECIFICATION Spec
CONSTANTS
    Hostnames = {h1}
    Callbacks = {c1, c2}
    None = None
    IPV6_CONNECTION_SUPPORT = TRUE
    Fds = {f1, f2, f3, f4}
    Listener = Listener
    DnsSock = DnsSock
    IsLocal = FALSE
    FastOpen = FALSE
    NamesShared = TRUE
    MaxBatch = 1
SYMMETRY MCSymmetry
INVARIANTS
    DestroyedOnce
