CONSTANTS
    Threads = {t1, t2}
    Pumpers = {t1, t2}
    Nobody = Nobody
    Targets = {"observer", "auth", "setCert", "getter"}
    LibraryFaults = FALSE
    Settings <- FullSettings
    Faults = {}
    Disciplined = TRUE
    MaxCalls = 3
SPECIFICATION Spec
CHECK_DEADLOCK FALSE
INVARIANTS
    CertActiveMeansHooked
