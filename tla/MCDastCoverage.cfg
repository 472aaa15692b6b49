SPECIFICATION FairSpec
CONSTANTS
    first = first
    second = second
    s1 = s1
    s2 = s2
    s3 = s3
    Sources <- MCSources
    Primary = first
    Scans <- MCScans
    Created <- MCCreated
    Owner <- MCOwner
    Visited <- MCVisited
    Callers = {c1, c2}
    Refreshes = {r1, r2}
    Limit = 2
    Recent = 1
    CoverageTtl = 3
    ErrorTtl = 1
    RefreshTimeout = 2
    Grace = 1
    MaxFaults = 2
    None = None
INVARIANTS
    TypeOK
    OneRefresh
    PatienceSuffices
    WindowFilled
PROPERTY
    AskedIsCovered
CHECK_DEADLOCK FALSE
