CONSTANTS
    original = original
    edited = edited
    built = built
    Paths = {original, edited, built}
    NoFile = NoFile
    NoPath = NoPath
    Garbled = Garbled
    BlockSize = 3
    MaxSize = 9
    HeaderSize = 2
    RetailFiles <- Retail
    Disks <- SomeDisks
    Commands <- SomeCommands
    Edits <- SomeEdits
    MaxRuns = 2
    MaxEdits = 1
    MaxFaults = 2
SPECIFICATION Spec
CHECK_DEADLOCK FALSE
INVARIANTS
    SignedIsRetail
    OthersAreLeftAlone
    OutputsAreFaithful
    AcceptedFitsTheClient
