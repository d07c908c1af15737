CONSTANTS
    MaxOthers = 0
    Alerts = {"other"}
SPECIFICATION Spec
INVARIANTS
    AnswerIsKept
CHECK_DEADLOCK FALSE
