SPECIFICATION Spec
CONSTANTS
    a = a
    b = b
    c = c
    d = d
    m = m
    n = n
    o = o
    i = i
    j = j
    NoUrl = NoUrl
    NoBody = NoBody
    Pages = {a, b, c, d}
    Maps = {m, n, o}
    Seeds = {a, m}
    Items = {i, j}
    Bodies <- CoreBodies
    Site <- CoreSite
    Scopes <- CoreScopes
    Policies <- CorePolicies
    Tagged = {a}
    FollowLinks = TRUE
    MaxDepth = 1
    MaxPages = 3
    MaxMaps = 2
    PagesPerRun = 2
    MapBatch = 1
    PageBatch = 2
    StreakLimit = 2
    RetireLimit = 2
    MaxEdits = 1
    MaxFaults = 1
INVARIANTS KeptBacked ListingBacked DuplicatesEnd
