CONSTANTS
    i1 = i1
    i2 = i2
    Incidents = {i1, i2}
    f1 = f1
    Fingerprints = {f1}
    AskFingerprints = {}
    h1 = h1
    Handlers = {h1}
    w1 = w1
    Workers = {w1}
    SlackConfigured = FALSE
    Escapes = {"announce", "generate"}
    MaxTransitions = 2
    MaxCrashes = 1
    MaxClock = 2
    NoIncident = NoIncident
    NoEvent = NoEvent
SPECIFICATION MSpec
SYMMETRY Symmetry
INVARIANTS
    MTypeOK
    AnswerNamesIncident
    AnswerInv
