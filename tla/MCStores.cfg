SPECIFICATION StoresSpec
SYMMETRY StoresSymmetry
CHECK_DEADLOCK FALSE
CONSTANTS
    Requests = {r1, r2}
    Processes = {p1, p2}
    DashboardIds = {d1, d2}
    SeedDashboard = d1
    TemplateIds = {t1, t2}
    SeedTemplate = t1
    Names = {n1}
    w1 = w1
    w2 = w2
    Widgets = {w1, w2}
    Registered = {w1}
    WidgetLists <- TwoLists
    Layouts = {l1}
    SeedName = n1
    SeedWidgets <- SeedList
    SeedLayout = l0
    History <- Past
    None = None
    MaxRequestFaults = 1
    MaxStarts = 2
    MaxMishaps = 2
    SourceIds = {s1, s2, s3}
    k1 = k1
    k2 = k2
    Keys = {k1, k2}
    EnvKeys <- EnvList
    EnvIds <- EnvNames
    Booters = {p1, p2}
    Refreshers = {q1, q2}
    Views = {v1}
    Selections <- SomeSelections
    MaxSelected = 1
    Nobody = Nobody
    UnknownSource = UnknownSource
    MaxBoots = 2
    MaxEdits = 1
    Servers = {x1, x2}
    Calls = {c1, c2, c3, c4}
    Rows = {y1, y2}
    Jobs <- CrossingJobs
    x1 = x1
    x2 = x2
    c1 = c1
    c2 = c2
    c3 = c3
    c4 = c4
    y1 = y1
    y2 = y2
    NoServer = NoServer
    NoRow = NoRow
    MaxFailures = 1
INVARIANTS
    StoresTypeOK
    NumbersWithoutGaps
    LiveWidgetsAreVersioned
    RollbackRestores
    TrailIsTrue
    ImportsEachOnce
    IdentityIsOwn
PROPERTIES
    OneTransactionEach
    NoDashboardReturns
    SeedingOnlyAdds
    TagsAreTrue
    NoSourceReturns
