SPECIFICATION FairSpec
CONSTANTS
    MaxUp = 4
    MaxDown = 4
INVARIANTS
    Conserved
    InOrder
    PendingIsPolled
PROPERTIES
    Delivered
CHECK_DEADLOCK FALSE
