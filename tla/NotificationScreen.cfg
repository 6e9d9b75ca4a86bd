CONSTANTS
    Ids = {"a", "b"}
    MirrorCap = 1
    QueueCap = 3
    LockPolicies = {"app-only", "suppress"}
    DismissSync = {TRUE}
    MaxWork = 2
    MaxLocks = 1
    MaxClosed = 1
    MaxTrouble = 1
SPECIFICATION Spec
INVARIANTS LockedShowsNoText DismissalsAreWanted TableMatchesScreen
CHECK_DEADLOCK FALSE
