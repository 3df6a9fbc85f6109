------------------------------ MODULE MCSyncer ------------------------------
(* Small instances of Syncer for TLC.                                         *)
EXTENDS SyncerProperties

TokenAndETag == [s \in Sources |-> IF s = "s1" THEN "caldav_token" ELSE "ics_etag"]
AllTokens == [s \in Sources |-> "caldav_token"]
AllCTags == [s \in Sources |-> "caldav_ctag"]
AllETags == [s \in Sources |-> "ics_etag"]
AllPlain == [s \in Sources |-> "ics_plain"]

OneCalendar == [d \in Dests |-> "c1"]
TwoCalendars == [d \in Dests |-> IF d = 1 THEN "c1" ELSE "c2"]

OneSource == [d \in Dests |-> "s1"]
TwoSources == [d \in Dests |-> IF d = 1 THEN "s1" ELSE "s2"]

KeepAll == [d \in Dests |-> Contents]
DropPrivate == [d \in Dests |-> Contents \ {"private"}]
=============================================================================
