SPECIFICATION Spec
CONSTANTS
    overview = overview
    filtered = filtered
    p1 = p1
    p2 = p2
    a = a
    b = b
    None = None
    Prewarmer = Prewarmer
    Keys = {overview, filtered}
    Default = {overview}
    Scoped = {filtered}
    Processes = {p1}
    Slots = {a, b}
    SnapshotTtl = 2
    HollowTtl = 1
    BaseTtl = 1
    Coalesce = 0
    CleanupInterval = 2
    Retention = 0
    PrewarmEnabled = TRUE
    PrewarmInterval = 3
    LocksMax = 2
    Evicted = 1
    MaxVersion = 2
    MaxViews = 3
    FirstVersions = {1}
    MaxTime = 1
    MaxFaults = 1
SYMMETRY Interchangeable
INVARIANTS
    OneBuildPerKey
PROPERTIES
    BaseNeverGoesBack
    ForcedFetchesSpaced
    ViewsNeverGoBack
CHECK_DEADLOCK FALSE
