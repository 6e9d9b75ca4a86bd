CONSTANTS
    Ids = {"a"}
    MaxSession = 2
    MaxVersion = 2
    QueueCap = 2
    MaxChanges = 1
    MaxTrouble = 1
SPECIFICATION Spec
INVARIANTS MirrorsMatchPhone SlotFollowsSessions
PROPERTIES WorkIsDoneAsQueued MirroringArrives
CHECK_DEADLOCK FALSE
