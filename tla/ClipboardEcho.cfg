SPECIFICATION EchoSpec
CONSTANTS
    Devices = {p1}
    Updates = {e1, e2}
    Sensitive = {e2}
    Texts = {x, y}
    Environments = {{"wayland", "tools", "dataControl", "marks"}, {"wayland", "tools", "xfixes"}, {"tools"}}
    SuppressionCap = 1
    SignalCap = 1
    MaxCopies = 1
    MaxPolicyChanges = 1
    MaxMishaps = 1
    Nobody = Nobody
CHECK_DEADLOCK FALSE
INVARIANTS
    NoEcho
    EntriesAreOwed
PROPERTY
    WatchFollowsPolicy
