CONSTANTS
    t1 = t1
    t2 = t2
    Threads = {t1, t2}
    Dashboards = {1, 2}
    a1 = a1
    Alerts = {a1}
    TTL = 2
    MaxClock = 4
    MaxEdits = 1
SPECIFICATION Spec
SYMMETRY Symmetry
INVARIANTS
    CacheTypeOK
    LinkIsFresh
    QuietMeansDirect
CHECK_DEADLOCK FALSE
