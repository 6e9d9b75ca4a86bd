\* One device and two clients that change its record at once: crashes, failed
\* writes, lost and edited files.
CONSTANTS
    Peers = {p1}
    Caps = {battery}
    AutoGrant = {battery}
    NotifyFlags = {mirror}
    ClipFlags = {send}
    DefaultFlags = {mirror, send}
    Identities = {i1, i2}
    Clients = {c1, c2}
    DiskFaults = TRUE
    None = None
    Torn = Torn
    Unreadable = Unreadable
SPECIFICATION Spec
SYMMETRY Interchangeable
INVARIANTS HiddenStaysOut RevocationStands
PROPERTIES IdentityNeverReplaced
CHECK_DEADLOCK FALSE
