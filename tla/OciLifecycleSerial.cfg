SPECIFICATION FairSpec
CONSTANTS
    None = None
    Task = {p1}
    Id = {1}
    Pub = {pub1, pub2}
    Priv = {priv1, priv2}
    Cleanup = {TRUE}
    MaxLate = 1
INVARIANT NoSilentLeak
PROPERTY DeleteConverges
CHECK_DEADLOCK FALSE
