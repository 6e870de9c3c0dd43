SPECIFICATION FairSpec
CONSTANTS
    i = i
    j = j
    Ids = {i, j}
    LastPart = 4
    Rows <- DeltaRows
    Unterminated = {2, 4}
    Budgets = {1, 2, 3}
    MaxFaults = 1
    Longest = 6
INVARIANTS CsvAndLines Offsets
PROPERTIES LogSpec CatchesUp
