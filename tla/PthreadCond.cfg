CONSTANTS
    Threads = {t1, t2}
    Waits = 2
    MaxSignals = 2
    MaxCount = 2
    MayTimeOut = TRUE
    MayCancel = {t1}
SPECIFICATION Spec
CHECK_DEADLOCK FALSE
INVARIANT MutexHeld
INVARIANT SleeperIsIndexed
PROPERTY WaitReturns
PROPERTY EntryLeaves
