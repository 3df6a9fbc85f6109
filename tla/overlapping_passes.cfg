CONSTANTS
    Requests = {"r1"}
    Goroutines = {"g1", "g2"}
    Main = "main"
    MaxUpdates = 1
    Lists <- OneConnection
    MaxDests = 1
    Checks = {"ok"}
    WriteMayFail = FALSE
SPECIFICATION Spec
INVARIANT NoOverlappingPasses
