CONSTANTS
    Writers = {w1, w2}
    Control = control
    Capacity = 2
    MaxLines = 2
    MaxSessions = 2
    NoLine = NoLine
SPECIFICATION FairSpec
INVARIANTS
    NothingMisplaced
    LossesAccounted
    NothingLeftBehind
PROPERTIES
    NoOutputChangesUnderEmit
    ImplementsContract
    AcceptedIsWritten
    ShutdownReturns
