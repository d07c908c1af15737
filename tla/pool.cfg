CONSTANTS
    r1 = r1
    r2 = r2
    r3 = r3
    Runs = {r1, r2, r3}
    PoolSize = 2
    Timeout = 2
    MaxCalls = 2
    MaxClock = 3
SPECIFICATION FairSpec
INVARIANTS
    PoolTypeOK
PROPERTIES
    EveryCallerReturns
    PoolRecovers
CHECK_DEADLOCK FALSE
