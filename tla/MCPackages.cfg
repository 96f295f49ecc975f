CONSTANTS
    Trees <- AllTrees
    NotADirectory = NotADirectory
    NoPackage = NoPackage
    MaxScans = 2
    MaxErrors = 1
    Wildcard = Wildcard
    Pattern <- ShortPattern
    Images <- AllImages
SPECIFICATION Spec
CHECK_DEADLOCK FALSE
INVARIANTS
    ResolvesTheOnlyMatch
    ErrorsStayLocal
    RegistersTheChosen
