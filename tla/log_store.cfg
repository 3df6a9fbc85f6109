CONSTANTS
    Goroutines = {"g1", "g2"}
    Levels <- DebugInfoError
    max = 3
    MaxTime = 5
    NoEntry = NoEntry
    NoLevel = NoLevel
SPECIFICATION Spec
INVARIANT TypeOK
INVARIANT ListIsQuery
INVARIANT WritersInOrder
PROPERTY ImplementsLog
CHECK_DEADLOCK FALSE
