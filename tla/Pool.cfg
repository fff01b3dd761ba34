SPECIFICATION FairSpec
CONSTANTS
    Ports = {1, 2}
    Configs = {1, 2}
    Fronts = {"pool", "manager"}
    MaxRelays = 8
    MaxPulls = 1
    Outside <- Taken
CHECK_DEADLOCK FALSE
INVARIANTS
    ListenersAccountedFor
    HalfStartedOnlyIfCrossed
PROPERTIES
    ClosedReleased
    RowsAreServed
