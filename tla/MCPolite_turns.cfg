SPECIFICATION FairSpec
CONSTANTS
    r1 = r1
    r2 = r2
    h1 = h1
    h2 = h2
    Runs = {r1, r2}
    Hosts = {h1, h2}
    Urls <- PoliteUrls
    Targets <- PoliteTargets
    Texts <- PoliteTexts
    MinInterval <- PoliteIntervals
    Keyed = {r1}
    HostMin = 1
    Ttl = 1
    RetryTtl = 1
    MaxGap = 2
    MaxRedirects = 2
    Spoilt = {h1}
    Lines <- PoliteLines
    Longest = 4
INVARIANTS HeadersStay FilesAgree
PROPERTIES NeverGuessed TurnsApart RequestsEnd
