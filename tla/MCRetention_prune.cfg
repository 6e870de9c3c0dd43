SPECIFICATION FairSpec
CONSTANTS
    Identities = {i1, i2}
    Window = 1
    RetireAfter = 1
    BatchSize = 1
    MaxBatches = 2
    PullEvery = 1
    Ops = {"takedown", "restart", "dberror"}
PROPERTIES ChoosesOnlyUnlisted ChoosesOnlyRead BacklogClears
