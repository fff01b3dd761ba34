SPECIFICATION Spec
CONSTANTS
    IdMod = 16
    Protocols = {"auth_sha1_v4", "auth_aes128", "auth_chain", "auth_akarin"}
    MaxUp = 2
    MaxDown = 1
    MaxWrite = 2
    MaxFaults = 1
CHECK_DEADLOCK FALSE
INVARIANTS
    UndamagedSurvives
    AllHandedUp
PROPERTIES
    ServerGets
    ClientGets
