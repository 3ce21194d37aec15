SPECIFICATION Spec
CONSTANTS
    None = None
    Task = {p1, p2}
    Id = {1}
    Pub = {pub1, pub2}
    Priv = {priv1, priv2}
    Cleanup = {TRUE, FALSE}
    MaxLate = 1
SYMMETRY Ocids
INVARIANTS TypeOK NamedExists LeaksOnlyUnread
CHECK_DEADLOCK FALSE
