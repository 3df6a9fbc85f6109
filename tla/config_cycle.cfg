SPECIFICATION Spec
CONSTANTS
    Strings <- AllStrings
    Files <- WrittenFiles
    Environments <- SomeEnvironments
    SourceUpdates <- SomeSourceUpdates
    DestinationUpdates <- SomeDestinationUpdates
    SyncUpdates <- SomeSyncUpdates
    SourceNames <- FirstSource
    DestNames <- FirstDest
    SourceTypes = {"caldav", "ics"}
    DestinationTypes = {"caldav"}
    RefusedUrls = {"ftp"}
    Omitted = Omitted
    MaxEntries = 2
    MaxEdits = 3
    Events <- SomeEvents
    u1 = u1
    u2 = u2
    u3 = u3
    OwnUids = {u1, u2, u3}
CHECK_DEADLOCK FALSE
INVARIANT TypeOK
INVARIANT StartFailures
INVARIANT PrivacyHolds
INVARIANT UidsKeepApart
PROPERTY AcceptedUpdatesSurvive
PROPERTY ConnectionsAreKept
