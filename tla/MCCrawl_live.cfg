SPECIFICATION FairSpec
CONSTANTS
    a = a
    b = b
    c = c
    d = d
    m = m
    n = n
    o = o
    i = i
    j = j
    NoUrl = NoUrl
    NoBody = NoBody
    Pages = {a, b}
    Maps = {m}
    Seeds = {m}
    Items = {i, j}
    Bodies <- LiveBodies
    Site <- LiveSite
    Scopes <- LiveScopes
    Policies <- LivePolicies
    Tagged = {a}
    FollowLinks = TRUE
    MaxDepth = 1
    MaxPages = 3
    MaxMaps = 1
    PagesPerRun = 2
    MapBatch = 1
    PageBatch = 2
    StreakLimit = 2
    RetireLimit = 1
    MaxEdits = 1
    MaxFaults = 1
PROPERTIES RetiresOnlyGone DueIsFetched  DatedIsRead
