CONSTANTS
    Requests = {r1, r2}
    Goroutines = {"g1"}
    Main = "main"
    MaxUpdates = 3
    Lists <- OneConnection
    MaxDests = 1
    Checks = {"ok"}
    WriteMayFail = FALSE
SPECIFICATION Spec
INVARIANT ActiveScheduleMatchesConfig
SYMMETRY RequestSymmetry
