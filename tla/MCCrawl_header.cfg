SPECIFICATION Spec
CONSTANTS
    a = a
    b = b
    c = c
    d = d
    m = m
    n = n
    o = o
    i = i
    j = j
    NoUrl = NoUrl
    NoBody = NoBody
    Pages = {a}
    Maps = {}
    Seeds = {a}
    Items = {i}
    Bodies <- HeaderBodies
    Site <- HeaderSite
    Scopes <- HeaderScopes
    Policies <- NoPolicies
    Tagged = {a}
    FollowLinks = TRUE
    MaxDepth = 1
    MaxPages = 3
    MaxMaps = 1
    PagesPerRun = 2
    MapBatch = 1
    PageBatch = 2
    StreakLimit = 2
    RetireLimit = 1
    MaxEdits = 1
    MaxFaults = 0
PROPERTIES NoindexHonoured
