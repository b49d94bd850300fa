CONSTANTS
    srv = srv
    up = ca
    ca = ca
    cb = cb
    cc = cc
    fn1 = fn1
    fn2 = fn2
    None = none
    Fibers = {srv, ca, cb, cc}
    Fns = {fn1, fn2}
    Programs <- LivePrograms
    MaxDepth = 1
SPECIFICATION UnwindingSpec
CHECK_DEADLOCK FALSE
PROPERTY NotStarved
PROPERTY ServersRelease
