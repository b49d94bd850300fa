CONSTANTS
    rd = rd
    wr = wr
    fd1 = fd1
    fd2 = fd2
    None = none
    Fibers = {rd, wr}
    Fds = {fd1, fd2}
    Programs <- AllPrograms
SPECIFICATION FairSpec
CHECK_DEADLOCK FALSE
INVARIANT RegisteredFiberBlocks
INVARIANT ReadinessNotLost
PROPERTY WaiterWoken
