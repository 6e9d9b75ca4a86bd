SPECIFICATION Spec
CONSTANTS
    Peers = {p1, p2}
    Sessions = {s1, s2}
    Clients = {c1, c2}
    Events = {e1, e2}
    Policies = {{}, {"send", "receive"}, {"receive", "autoReceive"}}
    EventCap = 1
    MaxUpdates = 2
    MaxSends = 1
    MaxChanges = 1
    MaxTrouble = 1
    None = None
SYMMETRY Symmetry
CHECK_DEADLOCK FALSE
INVARIANTS
    AppliedOnce
    ActsOnLeave
    MapsFollowSessions
