SPECIFICATION Spec
CONSTANTS
    Peers = {phone}
    Caps = {battery, files}
    Battery = battery
    Advertised = {battery, files}
    AutoGrant = {battery}
    Sessions = {s1, s2, s3}
    Clients = {cli}
    DiskFaults = FALSE
    None = none
INVARIANTS
    RevokedHasNoLiveSession
