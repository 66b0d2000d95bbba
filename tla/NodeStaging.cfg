SPECIFICATION FairSpec
CONSTANTS
    Calls = {a, b}
    Volumes = {v, w}
    Wanted = {v}
    Pods = {p}
    a = a
    b = b
    v = v
    w = w
    p = p
    None = None
    Slots = 1
    Tries = 2
    MaxMounts = 2
    FaultKinds = {"deadline", "portal", "probe", "mount", "stale", "marker", "restart", "hang"}
    MaxFaults = 2
INVARIANTS
    TypeOK
    SlotsAccounted
    PublishedIsBacked
    ReleasedIsUnmounted
    RootWhileMarked
PROPERTY
    CallsReturn
CHECK_DEADLOCK FALSE
