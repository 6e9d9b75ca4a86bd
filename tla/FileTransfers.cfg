\* One file in either direction, and one thing that goes wrong outside.
CONSTANTS
    Transfers = {t1}
    MaxSessions = 2
    MaxTrouble = 1
    Limit = 1
    None = None
SPECIFICATION FairSpec
INVARIANTS OnlyVerifiedIsStored 
PROPERTIES PromiseKept EveryTransferEnds
\* Everything may end and nobody offers again.
CHECK_DEADLOCK FALSE
