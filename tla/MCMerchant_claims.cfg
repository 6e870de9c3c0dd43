SPECIFICATION FairSpec
CONSTANTS
    Touched = {c1}
    MaxRequests = 2
    d1 = d1
    Claims = {c1, c2}
    Domains = {d1}
    DomainOf <- OneDomain
    Checkers = {"merchant", "worker"}
    Ops = {"withdraw", "patch", "delete", "erase"}
PROPERTIES MovesForward NoteKept 
CHECK_DEADLOCK FALSE
