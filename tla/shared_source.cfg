CONSTANTS
    Sources = {"s1"}
    Uids = {"u1"}
    Contents = {"a"}
    NoEvent = NoEvent
    Kind <- AllETags
    MaxRev = 2
    NDest = 2
    Calendars = {"c1", "c2"}
    CalendarOf <- TwoCalendars
    InitialSource <- OneSource
    Repointable = {}
    Kept <- KeepAll
    DeleteMode = "soft"
    MaxAttempts = 2
    FaultKinds = {}
    MaxFaults = 0
SPECIFICATION FairSpec
PROPERTY Converges
