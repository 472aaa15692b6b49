SPECIFICATION FairSpec
CONSTANTS
    s1 = s1
    s2 = s2
    w1 = w1
    w2 = w2
    r1 = r1
    r2 = r2
    None = None
    Schedules = {s1, s2}
    Workers = {w1}
    Requests = {r1}
    Operations <- UserEdits
    Starts <- AtOnceOrCron
    Payloads <- NoEdits
    Crons = {1}
    MaxRetries = 2
    BackoffBase = 1
    BackoffMax = 3
    MaxTime = 2
    MaxFaults = 2
    MaxCrashes = 0
INVARIANTS
    OncePerOccurrence
    FailuresAudited
PROPERTIES
    DueIsServed
CHECK_DEADLOCK FALSE
