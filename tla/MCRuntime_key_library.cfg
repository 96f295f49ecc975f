CONSTANTS
    Threads = {t1}
    Pumpers = {t1}
    Nobody = Nobody
    Targets = {"observer", "auth", "setCert", "getter"}
    LibraryFaults = FALSE
    Settings <- KeyOnly
    Faults = {}
    Disciplined = TRUE
    MaxCalls = 2
SPECIFICATION Spec
CHECK_DEADLOCK FALSE
INVARIANTS
    ConfiguredKeyInForce
