CONSTANTS
    Executors = {e1, e2, e3}
    Caller = caller
    MaxQueue = 1
SPECIFICATION ChokeSpec
INVARIANT OneIsSpared
INVARIANT ChokedIsWoken
