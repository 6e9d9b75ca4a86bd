\* Two windows, two devices, a person who may never answer.
CONSTANTS
    Operators = {o1, o2}
    Handshakes = {h1, h2}
    MaxFailed = 1
    None = None
SPECIFICATION FairSpec
INVARIANTS StoredByConsent TokenIsSingleUse ShownCodeWorks
PROPERTIES ProofIsAnswered
\* Every connection runs once.
CHECK_DEADLOCK FALSE
