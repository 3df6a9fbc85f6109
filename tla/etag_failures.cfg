CONSTANTS
    Sources = {"s1"}
    Uids = {"u1", "u2"}
    Contents = {"a", "b", "private"}
    NoEvent = NoEvent
    Kind <- AllETags
    MaxRev = 3
    NDest = 1
    Calendars = {"c1"}
    CalendarOf <- OneCalendar
    InitialSource <- OneSource
    Repointable = {}
    Kept <- DropPrivate
    DeleteMode = "soft"
    MaxAttempts = 2
    FaultKinds = {"source", "timeout", "bad_data", "put"}
    MaxFaults = 2
SPECIFICATION FairSpec
INVARIANT StoredStateIsApplied
PROPERTY WritesAreJustified
PROPERTY ConvergesUnlessFailed
