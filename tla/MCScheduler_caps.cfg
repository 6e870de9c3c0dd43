SPECIFICATION FairSpec
CONSTANTS
    Feeds = {f1, f2}
    Crawls = {c1, c2}
    Ticks = {t1}
    MaxConcurrent = 2
    MaxCrawls = 1
    Fetched = {c1}
    Patched = {f1}
    Unlucky = {c2}
    Ops = {"restart", "stop"}
INVARIANTS WithinCaps
PROPERTIES FeedsKeepTheRest DueIsServed
