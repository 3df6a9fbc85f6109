CONSTANTS
    Sources = {"s1"}
    Uids = {"u1", "u2"}
    Contents = {"a", "b"}
    NoEvent = NoEvent
    Kind <- AllTokens
    MaxRev = 2
    NDest = 1
    Calendars = {"c1"}
    CalendarOf <- OneCalendar
    InitialSource <- OneSource
    Repointable = {}
    Kept <- KeepAll
    DeleteMode = "soft"
    MaxAttempts = 2
    FaultKinds = {"source", "status", "timeout", "store", "put", "lost_reply", "crash"}
    MaxFaults = 2
SPECIFICATION FairSpec
INVARIANT TypeOK
INVARIANT MappedEventsExist
INVARIANT QuietFetchIsExact
PROPERTY PassesEnd
