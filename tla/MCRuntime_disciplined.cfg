CONSTANTS
    Threads = {t1, t2}
    Pumpers = {t1}
    Nobody = Nobody
    Targets = {"observer", "auth", "setCert", "getter"}
    LibraryFaults = TRUE
    Settings <- SomeSettings
    Faults = {"config", "gate", "sku_file", "steam"}
    Disciplined = TRUE
    MaxCalls = 6
SPECIFICATION Spec
CHECK_DEADLOCK FALSE
INVARIANTS
    PackagesBehindOpenGates
    InitAnswerHolds
    NoDetourLeft
    CaptureIsObserved
    CertActiveMeansHooked
