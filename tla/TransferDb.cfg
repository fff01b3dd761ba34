SPECIFICATION Spec
CONSTANTS
    Ports = {p1, p2}
    None = None
    Mode = "db"
    Threshold = 2
    Step = 1
    UseMu = FALSE
    Churn = "users"
    SqlFails = TRUE
    BadRows = FALSE
    MaxTraffic = 2
    MaxBilled = 2
INVARIANTS
    NotOverbilled
    UpdateBelowActual
    GoneIsNotForced
PROPERTIES
    UpdatedIsBilled
