CONSTANTS
    Sources = {"s1"}
    Uids = {"u1", "u2"}
    Contents = {"a", "b"}
    NoEvent = NoEvent
    Kind <- AllPlain
    MaxRev = 3
    NDest = 1
    Calendars = {"c1"}
    CalendarOf <- OneCalendar
    InitialSource <- OneSource
    Repointable = {}
    Kept <- KeepAll
    DeleteMode = "hard"
    MaxAttempts = 2
    FaultKinds = {"source", "timeout", "bad_data", "put"}
    MaxFaults = 2
SPECIFICATION FairSpec
INVARIANT HashMatchesDestination
INVARIANT HardModePurges
PROPERTY Converges
