SPECIFICATION Spec
CONSTANTS
    s1 = s1
    s2 = s2
    w1 = w1
    w2 = w2
    r1 = r1
    r2 = r2
    None = None
    Schedules = {s1}
    Workers = {w1}
    Requests = {r1}
    Operations <- AllOperations
    Starts <- ByCron
    Payloads <- Edits
    Crons = {2}
    MaxRetries = 2
    BackoffBase = 1
    BackoffMax = 2
    MaxTime = 3
    MaxFaults = 2
    MaxCrashes = 0

PROPERTY ExhaustedStaysDisabled
CHECK_DEADLOCK FALSE
