CONSTANTS
    t1 = t1
    t2 = t2
    Threads = {t1, t2}
    Cooldown = 2
    Uptimes = {0, 2}
    MaxClock = 5
    MaxAttempts = 4
    MaxCrashes = 1
SPECIFICATION Spec
SYMMETRY Symmetry
INVARIANTS
    TypeOK
    ThreadCooldown
    RestartsBounded
    RecordIsOfRestart
CHECK_DEADLOCK FALSE
