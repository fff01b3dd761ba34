SPECIFICATION FairSpec
CONSTANTS
    Ports = {p1, p2}
    None = None
    Mode = "db"
    Threshold = 2
    Step = 1
    UseMu = TRUE
    Churn = "none"
    SqlFails = TRUE
    BadRows = TRUE
    MaxTraffic = 2
    MaxBilled = 2
PROPERTIES
    EventuallyBilled
