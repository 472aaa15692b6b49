SPECIFICATION PortfolioSpec
CHECK_DEADLOCK FALSE
CONSTANTS
    s1 = s1
    s2 = s2
    a1 = a1
    a2 = a2
    a3 = a3
    g1 = g1
    g2 = g2
    i1 = i1
    i2 = i2
    i3 = i3
    i4 = i4
    i5 = i5
    c1 = c1
    c2 = c2
    c3 = c3
    Apps = {a1, a2}
    Items = {i1, i2, i3, i4, i5}
    AppOf <- Homes
    Orders <- SomeOrders
    Top = 2
    MaxPages = 2
    NoLimit = 3
    MaxPageFaults = 1
    MaxRemoteChanges = 1
    Sources = {s1, s2}
    Catalog <- ThreeApps
    Contents <- SomeContents
    Users <- AdminAndReader
    Filters <- SomeFilters
    ListLosses <- SomeListLosses
    IssueLosses <- SomeIssueLosses
    Today = 400
    None = None
    MaxContentChanges = 1
INVARIANTS
    ListingLosesNothing
    ActiveIsCounted
    WarmIsCold
    FiltersNarrow
    FiguresAgree
