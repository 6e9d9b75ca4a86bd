CONSTANTS
    Slots = 1
    QueueCap = 1
    ClientOrder <- MCClientOrder
    PhoneVersions <- MCPhoneVersions
    MaxReplies = 2
    MaxFrames = 1
    MaxTrouble = 1
SPECIFICATION Spec
INVARIANTS EndsAgree PingsAreMatched
PROPERTIES  PermitsComeBack
CHECK_DEADLOCK FALSE
