SPECIFICATION FairSpec
CONSTANTS
    Methods = {"tls", "http", "random_head"}
    MaxUp = 4
    MaxDown = 3
    MaxFaults = 1
CHECK_DEADLOCK FALSE
PROPERTIES
    ObfsServerGets
    ObfsClientGets
    HandshakeEnds
