CONSTANTS
    r1 = r1
    r2 = r2
    r3 = r3
    Requests = {r1, r2, r3}
    MaxRequests = 2
    Window = 1
    MaxClock = 3
    MaxAdmitted = 4
SPECIFICATION Spec
SYMMETRY Symmetry
INVARIANTS
    TypeOK
    BoundedOvershoot
    LimitHoldsAlone
    RetryAfterIsEnough
    NoErrorAlone
CHECK_DEADLOCK FALSE
