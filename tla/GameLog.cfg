CONSTANTS
    Blocks = {b1, b2}
    None = None
    Count = 2
    Verbosities = {0, 3}
    EngineLevels = {0, 2, 5}
    MaxSessions = 2
    MaxWrites = 3
SPECIFICATION FairSpec
INVARIANTS
    GivenBack
    OnlyTwoValues
PROPERTIES
    KeepsUp
CHECK_DEADLOCK FALSE
