SPECIFICATION Spec
CONSTANTS
    overview = overview
    filtered = filtered
    p1 = p1
    p2 = p2
    a = a
    b = b
    None = None
    Prewarmer = Prewarmer
    Keys = {overview}
    Default = {overview}
    Scoped = {}
    Processes = {p1}
    Slots = {a, b}
    SnapshotTtl = 2
    HollowTtl = 1
    BaseTtl = 3
    Coalesce = 0
    CleanupInterval = 2
    Retention = 0
    PrewarmEnabled = TRUE
    PrewarmInterval = 3
    LocksMax = 2
    Evicted = 1
    MaxVersion = 2
    MaxViews = 3
    FirstVersions = {0}
    MaxTime = 2
    MaxFaults = 0
PROPERTY HollowIsRebuilt
CHECK_DEADLOCK FALSE
