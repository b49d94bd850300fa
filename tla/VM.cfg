SPECIFICATION Spec
CONSTANTS
    Threads = {t1, t2}
    Lines = 12
    PageClass = 2
    InitEnd = 3
    MaxClass = 4
    PerPage = 2
    Requests = {2, 3}
    MaxCalls = 5
    MaxShrink = 1
    HolesTaken = FALSE
INVARIANT PoolConsistent
INVARIANT WaitingIsClean
PROPERTY ImplementsVMAlloc
PROPERTY DirtyIsReclaimed
PROPERTY WaitReturns
