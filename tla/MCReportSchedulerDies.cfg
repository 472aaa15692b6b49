SPECIFICATION FairSpec
CONSTANTS
    s1 = s1
    s2 = s2
    w1 = w1
    w2 = w2
    r1 = r1
    r2 = r2
    None = None
    Schedules = {s1}
    Workers = {w1}
    Requests = {}
    Operations <- UserEdits
    Starts <- ByCron
    Payloads <- NoEdits
    Crons = {1}
    MaxRetries = 3
    BackoffBase = 1
    BackoffMax = 3
    MaxTime = 1
    MaxFaults = 1
    MaxCrashes = 0
PROPERTY
    DueIsAlwaysServed
CHECK_DEADLOCK FALSE
