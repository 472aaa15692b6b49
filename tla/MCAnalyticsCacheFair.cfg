SPECIFICATION FairSpec
CONSTANTS
    overview = overview
    filtered = filtered
    p1 = p1
    p2 = p2
    a = a
    b = b
    None = None
    Prewarmer = Prewarmer
    Keys = {overview, filtered}
    Default = {overview}
    Scoped = {filtered}
    Processes = {p1}
    Slots = {a, b}
    SnapshotTtl = 2
    HollowTtl = 1
    BaseTtl = 1
    Coalesce = 0
    CleanupInterval = 2
    Retention = 0
    PrewarmEnabled = FALSE
    PrewarmInterval = 3
    LocksMax = 1
    Evicted = 1
    MaxVersion = 1
    MaxViews = 2
    FirstVersions = {1}
    MaxTime = 1
    MaxFaults = 1
INVARIANT
    TypeOK
PROPERTIES
    TasksEnd
    BuildsDeliver
CHECK_DEADLOCK FALSE
