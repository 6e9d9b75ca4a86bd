SPECIFICATION FairSpec
CONSTANTS
    Peers = {phone}
    Caps = {battery, files}
    Battery = battery
    Advertised = {battery, files}
    AutoGrant = {battery}
    Sessions = {s1, s2}
    Clients = {cli}
    DiskFaults = TRUE
    None = none
INVARIANTS
    RevokedIsToldToStop
    FrozenIsToldToStop
    UnregisteredIsToldToStop
    ReadingFromOpenSession

    
