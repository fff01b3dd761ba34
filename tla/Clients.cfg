SPECIFICATION TableFairSpec
CONSTANTS
    MaxId = 7
    Lead = 1
    Window = 3
    Jump = 4
    Timeout = 2
    Counted = TRUE
    MaxRef = 3
    Me = me
    Others = {a, b}
    MaxClient = 2
INVARIANTS
    AcceptedOnce
    NextIdAccepted
    RefBelowOpen
PROPERTIES
    InactiveMakesRoom
