CONSTANTS
    i1 = i1
    i2 = i2
    Incidents = {i1, i2}
    f1 = f1
    Fingerprints = {f1}
    AskFingerprints = {}
    h1 = h1
    Handlers = {h1}
    w1 = w1
    w2 = w2
    Workers = {w1, w2}
    SlackConfigured = TRUE
    Escapes = {"announce", "generate", "postRca", "remediate"}
    MaxTransitions = 3
    MaxCrashes = 2
    NoIncident = NoIncident
    NoEvent = NoEvent
SPECIFICATION Spec
SYMMETRY Symmetry
INVARIANTS
    TypeOK
    PostedIsOnFile
    OneVerdictPerIncident
    OneIncidentPerEpisode
    OneThreadPerIncident
    ThreadInv
    EpisodeInv
    IndInv
PROPERTIES
    FollowsLifecycle
