CONSTANTS
    srv = srv
    up = up
    ca = ca
    cb = cb
    cc = cc
    fn1 = fn1
    fn2 = fn2
    None = none
    Fibers = {srv, up, ca, cb, cc}
    Fns = {fn1, fn2}
    Programs <- AllPrograms
    MaxDepth = 2
SPECIFICATION Spec
CHECK_DEADLOCK FALSE
INVARIANT BooksAgree
INVARIANT NobodyForgotten
INVARIANT CanceledServerCloses
PROPERTY CancellationKept
PROPERTY ImplementsIFCUse
