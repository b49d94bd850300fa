CONSTANT Threads = {t1, t2, t3}
SPECIFICATION FairSpec
PROPERTY SomeCallCompletes
PROPERTY ImplementsRWLock
