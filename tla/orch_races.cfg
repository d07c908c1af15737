CONSTANTS
    i1 = i1
    i2 = i2
    Incidents = {i1, i2}
    f1 = f1
    a1 = a1
    Fingerprints = {f1, a1}
    AskFingerprints = {a1}
    h1 = h1
    h2 = h2
    Handlers = {h1, h2}
    w1 = w1
    Workers = {w1}
    SlackConfigured = FALSE
    Escapes = {}
    MaxTransitions = 2
    MaxCrashes = 1
    NoIncident = NoIncident
    NoEvent = NoEvent
SPECIFICATION FairSpec
INVARIANTS
    SingleOwner
    RowsCoherent
    RunsConclude
    WaitingIsFresh
PROPERTIES
    NoIncidentLeftBehind
    SettledIncidentsStay
    FollowsLifecycle
