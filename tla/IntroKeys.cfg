SPECIFICATION FairSpec
CONSTANTS
    Rid = {r1, r2}
    Inst = {i1, i2}
    Sweepers = {i1}
    Ttl = 1
    Cap = 1
    MaxConn = 2
    MaxNow = 2
    MaxLosses = 1
    MaxFaults = 1
CHECK_DEADLOCK FALSE
INVARIANT CopiesHeld
INVARIANT LifeEarned
PROPERTY CapReturns
PROPERTY KeysReturn
