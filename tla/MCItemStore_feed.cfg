SPECIFICATION FairSpec
CONSTANTS
    i1 = i1
    i2 = i2
    c1 = c1
    c2 = c2
    Items = {i1, i2}
    Contents = {c1, c2}
    NoContent = NoContent
    Writers = {w1, w2}
    Batches <- ChangingBatches
    Ops = {"ingest", "takedown", "retire"}
    PageSize = 1
    MaxSeq = 3
INVARIANTS ConsumerInStep HistoryComplete
PROPERTIES FeedSpec TxEnds
CHECK_DEADLOCK FALSE
