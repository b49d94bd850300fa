CONSTANTS
    Fibers = {f1, f2}
    Executors = {e1, e2}
    Root = f1
    None = none
SPECIFICATION FairSpec
INVARIANT DeferredHasWaker
INVARIANT WokenForCause
INVARIANT OnePlace
INVARIANT WorkConserving
PROPERTY EnqueuedRuns
PROPERTY ImplementsFiberWake
