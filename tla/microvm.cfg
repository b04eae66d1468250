CONSTANTS
    c1 = c1
    c2 = c2
    None = None
    Clients = {c1, c2}
    MaxCalls = 2
    MaxDeaths = 1
    Slow = FALSE
SPECIFICATION VmFairSpec
INVARIANTS RunningVmIsFound
PROPERTIES ReadyIsOfThisBoot EveryUpSettles
CONSTRAINT Unraced
CHECK_DEADLOCK FALSE
