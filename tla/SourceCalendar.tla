--------------------------- MODULE SourceCalendar ---------------------------
(* The source calendars, as internal/caldav/client.go reads them.  The owners *)
(* of the calendars edit them at any time.  A calendar server publishes a     *)
(* change token (CTag, sync-token or ETag) that moves with every edit: it is  *)
(* the number of the revision, and 0 stands for the empty token "".           *)
EXTENDS Naturals, Sequences

CONSTANTS
    Sources,    \* configured sources, each with its own URL
    Uids,       \* UIDs of the VEVENTs
    Contents,   \* bodies of a VEVENT; equal contents have equal SHA-256 hashes
    NoEvent,    \* the absence of an event
    Kind,       \* what each source's server offers
    MaxRev      \* bound: revisions of one source calendar

Kinds == {"caldav_token",   \* CTag and sync-token (RFC 6578)
          "caldav_ctag",    \* CTag only
          "ics_etag",       \* public .ics with an ETag
          "ics_plain"}      \* public .ics without any validator

ASSUME SourceAssumption ==
    /\ NoEvent \notin Contents
    /\ Kind \in [Sources -> Kinds]
    /\ MaxRev \in Nat \ {0}

VARIABLE source             \* the revisions of each calendar, the last is current

Calendar == [Uids -> Contents \cup {NoEvent}]
EmptyCalendar == [u \in Uids |-> NoEvent]

Rev(s) == Len(source[s])
Now(s) == source[s][Rev(s)]
Present(cal) == {u \in Uids : cal[u] # NoEvent}

CalDAV(s) == Kind[s] \in {"caldav_token", "caldav_ctag"}

State == [ctag : Nat, token : Nat, etag : Nat]
NoState == [ctag |-> 0, token |-> 0, etag |-> 0]

(* FetchCalendarState: PROPFIND (CTag, sync-token) or HEAD (ETag).            *)
CurrentState(s) ==
    [ctag  |-> IF CalDAV(s) THEN Rev(s) ELSE 0,
     token |-> IF Kind[s] = "caldav_token" THEN Rev(s) ELSE 0,
     etag  |-> IF Kind[s] = "ics_etag" THEN Rev(s) ELSE 0]

(* A plausible slip in HasChanged: forgetting the fallback that fetches a     *)
(* source with no change token at all.                                        *)
HasChangedWithoutFallback(last, cur) ==
    \E f \in {"ctag", "token", "etag"} : cur[f] # 0 /\ cur[f] # last[f]

(* HasChanged: a token the server gives and that differs from the stored one, *)
(* or no token on either side.                                                *)
HasChanged(last, cur) ==
    \/ \E f \in {"ctag", "token", "etag"} : cur[f] # 0 /\ cur[f] # last[f]
    \/ cur = NoState /\ last = NoState

(* What a sync-collection REPORT from token t lists: the resources touched    *)
(* since revision t; the deleted ones carry a 404 status and are skipped.     *)
ReportHrefs(s, t) ==
    {u \in Present(Now(s)) :
        \E r \in t..(Rev(s) - 1) : source[s][r][u] # source[s][r + 1][u]}

SourceInit == source \in [Sources -> {<<cal>> : cal \in Calendar}]

(* The owner of calendar s adds, changes or removes one event.                *)
EditSource(s) ==
    /\ Rev(s) < MaxRev
    /\ \E u \in Uids, c \in Contents \cup {NoEvent} :
          /\ c # Now(s)[u]
          /\ source' = [source EXCEPT ![s] = Append(@, [Now(s) EXCEPT ![u] = c])]
=============================================================================
