CONSTANTS
    MaxOthers = 2
    Alerts = {"HighAPIp99Latency", "Backend5xxRateHigh", "MySQLDown", "other"}
SPECIFICATION Spec
INVARIANTS
    TypeOK
    CauseIsBacked
    HighIsEarned
    SupportedLeads
    RestartFitsSymptoms
    AskedRestartsFit
CHECK_DEADLOCK FALSE
