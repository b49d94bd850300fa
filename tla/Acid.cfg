CONSTANTS
    ca = ca
    cb = cb
    Pages = {1, 2}
    Callers = {ca, cb}
    Programs <- AllPrograms
SPECIFICATION FairSpec
INVARIANT CrashSafe
INVARIANT SyncedIsDurable
INVARIANT JournalVerifies
PROPERTY ImplementsAcidStore
PROPERTY FsyncReturns
