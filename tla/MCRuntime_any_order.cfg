CONSTANTS
    Threads = {t1, t2}
    Pumpers = {t1, t2}
    Nobody = Nobody
    Targets = {"observer", "auth", "setCert", "getter"}
    LibraryFaults = FALSE
    Settings <- FullSettings
    Faults = {"gate", "sku_file"}
    Disciplined = FALSE
    MaxCalls = 3
SPECIFICATION FairSpec
CHECK_DEADLOCK FALSE
INVARIANTS
    ArmedOrUnwound
    ActivatedOnce
PROPERTIES
    ChangesAreLogged
    EveryCallReturns
