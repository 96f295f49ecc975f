CONSTANTS
    EngineValues = {1}
    MayRefuse = TRUE
    MaxCalls = 6
    MaxWrites = 2
    Us = us
    Others = {other}
    Nobody = Nobody
    NoFile = NoFile
    MayFail = TRUE
    MaxStarts = 3
    MaxDeaths = 1
    MaxEdits = 1
SPECIFICATION StartSpec
CHECK_DEADLOCK FALSE
INVARIANTS
    ProtectionIsOwed
    GateIsGivenBack
    ActiveMeansOpen
    ConvertsAsConfigured
