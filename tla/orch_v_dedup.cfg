CONSTANTS
    i1 = i1
    i2 = i2
    Incidents = {i1, i2}
    f1 = f1
    Fingerprints = {f1}
    AskFingerprints = {}
    h1 = h1
    h2 = h2
    Handlers = {h1, h2}
    w1 = w1
    Workers = {w1}
    SlackConfigured = TRUE
    Escapes = {}
    MaxTransitions = 1
    MaxCrashes = 0
    NoIncident = NoIncident
    NoEvent = NoEvent
SPECIFICATION Spec
SYMMETRY Symmetry
INVARIANTS
    OneActivePerFingerprint
