CONSTANTS
    Loaders = {l1, l2}
    Texts = {a, b}
    Faults = {"backup", "write", "replace", "lose"}
    WatchfulEditor = TRUE
    MaxCalls = 2
    MaxEdits = 2
    MaxCrashes = 1
    MaxFaults = 2
SPECIFICATION FairSpec
CHECK_DEADLOCK FALSE
INVARIANTS
    OneOwner
    OptionsSurvive
PROPERTIES
    OnlyTheOriginalIsReplaced
    OriginalIsBackedUp
    OneLoaderConverts
