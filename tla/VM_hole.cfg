SPECIFICATION Spec
CONSTANTS
    Threads = {t1, t2}
    Lines = 28
    PageClass = 2
    InitEnd = 3
    MaxClass = 5
    PerPage = 3
    MaxCalls = 4
    Requests = {2, 3, 4}
    MaxShrink = 0
    HolesTaken = TRUE
INVARIANT MemoryIsAvailable
