SPECIFICATION FairSpec
CONSTANTS
    Identities = {i1}
    Settings = {s1, s2}
    i1 = i1
    i2 = i2
    NEndpoints = 1
    Lists <- ListsShared
    Triggers = {"schedule", "manual"}
    RetireAfter = 0
    MinInterval = 0
    Poll = 1
    MaxBackoff = 2
    Waits = {}
    NoValidators = NoValidators
    Ops = {"takedown", "crash", "dberror", "patch", "delete"}
    MaxSpan = 0
    MaxTime = 0
    MaxRuns = 2
    MaxStreak = 1
INVARIANTS TypeOK SingleFlight ValidatorsBacked ProvenanceUnlessOvertaken
PROPERTIES RemovalSticky RunEnds
CHECK_DEADLOCK FALSE
