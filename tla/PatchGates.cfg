CONSTANTS
    MaxRefusals = 3
    MaxSessions = 3
SPECIFICATION GatesSpec
CHECK_DEADLOCK FALSE
INVARIANTS
    SavedIsStock
    ForgottenIsClean
    DownIsStock
    UpAsRequested
PROPERTY
    CallsAreGateSteps
