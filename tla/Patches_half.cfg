CONSTANTS
    MaxRefusals = 1
    MaxSessions = 2
SPECIFICATION Spec
CHECK_DEADLOCK FALSE
INVARIANTS
    UpMeansOpen
