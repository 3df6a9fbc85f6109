CONSTANTS
    Sources = {"s1"}
    Uids = {"u1", "u2"}
    Contents = {"a", "private"}
    NoEvent = NoEvent
    Kind <- AllCTags
    MaxRev = 3
    NDest = 1
    Calendars = {"c1"}
    CalendarOf <- OneCalendar
    InitialSource <- OneSource
    Repointable = {}
    Kept <- DropPrivate
    DeleteMode = "hard"
    MaxAttempts = 2
    FaultKinds = {"source", "status", "timeout", "store", "put", "delete", "lost_reply", "crash"}
    MaxFaults = 1
SPECIFICATION FairSpec
INVARIANT FetchIsFull
PROPERTY WritesAreJustified
PROPERTY ImplementsMirror
PROPERTY PassesEnd
