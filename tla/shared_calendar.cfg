CONSTANTS
    Sources = {"s1", "s2"}
    Uids = {"u1"}
    Contents = {"a", "b"}
    NoEvent = NoEvent
    Kind <- TokenAndETag
    MaxRev = 2
    NDest = 2
    Calendars = {"c1"}
    CalendarOf <- OneCalendar
    InitialSource <- TwoSources
    Repointable = {1, 2}
    Kept <- KeepAll
    DeleteMode = "hard"
    MaxAttempts = 2
    FaultKinds = {"bad_data", "delete", "crash"}
    MaxFaults = 1
SPECIFICATION Spec
PROPERTY OtherSourcesUntouched
