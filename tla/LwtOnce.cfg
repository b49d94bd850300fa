CONSTANTS
    Callers = {c1, c2, c3}
    Fids = {f1, f2, f3}
SPECIFICATION FairOnceSpec
INVARIANT AssertsHold
INVARIANT EventFibersOwned
PROPERTY CallsEnd
PROPERTY ImplementsOnce
