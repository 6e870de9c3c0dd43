SPECIFICATION Spec
CONSTANTS
    Identities = {i1, i2}
    Settings = {s1}
    i1 = i1
    i2 = i2
    NEndpoints = 2
    Lists <- ListsApart
    Triggers = {"schedule"}
    RetireAfter = 2
    MinInterval = 1
    Poll = 1
    MaxBackoff = 2
    Waits = {2}
    NoValidators = NoValidators
    Ops = {"takedown"}
    MaxSpan = 3
    MaxTime = 5
    MaxRuns = 4
    MaxStreak = 2
INVARIANTS FailuresCounted
PROPERTIES PromptRunsRetireOnlyUnlisted RetryAfterHonoured
CHECK_DEADLOCK FALSE
