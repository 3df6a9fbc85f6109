CONSTANTS
    Requests = {"r1"}
    Goroutines = {"g1", "g2"}
    Main = "main"
    MaxUpdates = 2
    Lists <- EitherLonger
    MaxDests = 2
    Checks = {"ok", "invalid", "no_plugin"}
    WriteMayFail = TRUE
SPECIFICATION FairSpec
INVARIANT TypeOK
INVARIANT OnePassPerSyncer
INVARIANT ConfigIsConsistent
PROPERTY ShutdownCompletes
CHECK_DEADLOCK FALSE
