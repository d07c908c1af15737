CONSTANTS
    t1 = t1
    t2 = t2
    Threads = {t1, t2}
    Cooldown = 2
    Uptimes = {2}
    MaxClock = 4
    MaxAttempts = 2
    MaxCrashes = 0
SPECIFICATION Spec
INVARIANTS
    CooldownRespected
CHECK_DEADLOCK FALSE
