------------------------------- MODULE Syncer -------------------------------
(* internal/sync/syncer.go: one pass of Syncer.Sync after another, run by the *)
(* scheduler or by POST /api/sync.  A pass holds the running flag, walks over *)
(* the destinations in order and brings each of them in line with its source. *)
(* Every remote call and every SQLite statement is a step of its own, so that *)
(* edits of the sources, failures and crashes fall between any two of them.   *)
EXTENDS MappingStore

CONSTANTS
    Calendars,      \* remote calendars that the destinations write to
    CalendarOf,     \* the calendar of each destination (destinations[].url)
    InitialSource,  \* the source each destination references at first
    Repointable,    \* destinations whose source a configuration change may move
    Kept,           \* the contents that the pipeline of each destination keeps
    DeleteMode,     \* sync.delete_mode
    MaxAttempts,    \* retry.Config.MaxAttempts (3 in the code)
    FaultKinds,     \* the failures that may happen
    MaxFaults       \* bound: failures in one behaviour

Faults == {"source",        \* a request to a source fails
           "status",        \* a PROPFIND or REPORT is answered with an error status
           "timeout",       \* a request meets the timeout of the HTTP client, or the
                          \* context of the pass expires in it
           "bad_data",      \* a public .ics or a CalDAV resource that does not parse
           "store",         \* an SQLite statement fails
           "put",           \* a PUT fails and has no effect
           "delete",        \* a DELETE fails and has no effect
           "lost_reply",    \* a PUT takes effect but its answer is lost
           "crash"}         \* the process dies and is started again

ASSUME SyncerAssumption ==
    /\ CalendarOf \in [Dests -> Calendars]
    /\ InitialSource \in [Dests -> Sources]
    /\ Repointable \subseteq Dests
    /\ Kept \in [Dests -> SUBSET Contents]
    /\ DeleteMode \in {"soft", "hard"}
    /\ MaxAttempts \in Nat \ {0}
    /\ FaultKinds \subseteq Faults
    /\ MaxFaults \in Nat

VARIABLES
    remote,     \* the events of each remote calendar, by prefixed UID
    srcOf,      \* cfg.Destinations[di].Source
    connErr,    \* connStats[dest].LastError # ""
    lastErr,    \* Syncer.lastError # ""
    firstErr,   \* Sync: firstErr # nil
    pc,         \* where the pass is; "idle" is running = false
    di,         \* Sync: index of the destination
    token,      \* Sync: syncToken, taken from the state HasChanged returned
    tries,      \* attempt of retry.Do in Fetch
    hrefs,      \* mergeCalendar: resources still to GET
    merged,     \* the events fetched so far
    fetched,    \* the source state Fetch returns
    todo,       \* syncDestination: events still to visit
    gone,       \* syncDestination: mappings still to mark deleted
    inflight,   \* the event written remotely and not yet recorded
    asof,       \* auxiliary: revision of the source when the pass compared it
    faults      \* number of failures so far

fetchVars == <<token, tries, hrefs, merged, fetched, asof>>
applyVars == <<todo, gone, inflight>>
statusVars == <<connErr, lastErr, firstErr>>
vars == <<source, storeVars, remote, srcOf, statusVars, pc, di, fetchVars, applyVars, faults>>

Steps == {"idle", "check", "fetch", "list", "get", "state", "save", "apply",
          "events", "recordPut", "recordDelete"}

TypeOK ==
    /\ source \in [Sources -> Seq(Calendar)]
    /\ \A s \in Sources : Rev(s) \in 1..MaxRev
    /\ StoreTypeOK
    /\ remote \in [Calendars -> [Keys -> Contents \cup {NoEvent}]]
    /\ srcOf \in [Dests -> Sources]
    /\ connErr \in [Dests -> BOOLEAN]
    /\ lastErr \in BOOLEAN /\ firstErr \in BOOLEAN
    /\ pc \in Steps
    /\ di \in 1..(NDest + 1)
    /\ pc \in Steps \ {"check"} => di \in Dests
    /\ token \in Nat
    /\ tries \in 1..MaxAttempts
    /\ hrefs \subseteq Uids
    /\ merged \in Calendar
    /\ fetched \in State
    /\ todo \subseteq Keys /\ gone \subseteq Keys /\ inflight \subseteq Keys
    /\ asof \in 0..MaxRev
    /\ faults \in 0..MaxFaults

ResetFetch ==
    /\ token' = 0 /\ tries' = 1 /\ hrefs' = {}
    /\ merged' = EmptyCalendar /\ fetched' = NoState /\ asof' = 0

ResetApply == todo' = {} /\ gone' = {} /\ inflight' = {}

Init ==
    /\ SourceInit
    /\ StoreInit
    /\ remote = [c \in Calendars |-> [k \in Keys |-> NoEvent]]
    /\ srcOf = InitialSource
    /\ connErr = [d \in Dests |-> FALSE] /\ lastErr = FALSE /\ firstErr = FALSE
    /\ pc = "idle" /\ di = 1
    /\ token = 0 /\ tries = 1 /\ hrefs = {}
    /\ merged = EmptyCalendar /\ fetched = NoState /\ asof = 0
    /\ todo = {} /\ gone = {} /\ inflight = {}
    /\ faults = 0
-----------------------------------------------------------------------------
Src == srcOf[di]

Fault(kind) == kind \in FaultKinds /\ faults < MaxFaults /\ faults' = faults + 1

TwoFaults(kind, other) ==
    {kind, other} \subseteq FaultKinds /\ faults + 2 <= MaxFaults /\ faults' = faults + 2

(* The loop goes on to the next destination.                                  *)
NextConnection == pc' = "check" /\ di' = di + 1 /\ ResetFetch /\ ResetApply

(* A plausible slip in the error paths: the connection that failed is not     *)
(* flagged in connStats.                                                      *)
UnrecordedConnError(first) ==
    firstErr' = (firstErr \/ first) /\ NextConnection /\ UNCHANGED <<connErr, lastErr>>

(* recordConnError, firstErr and continue.  A failure of syncDestination does *)
(* not set firstErr.                                                          *)
ConnError(first) ==
    /\ connErr' = [connErr EXCEPT ![di] = TRUE]
    /\ firstErr' = (firstErr \/ first)
    /\ NextConnection
    /\ UNCHANGED lastErr

StartSync ==
    /\ pc = "idle"
    /\ pc' = "check" /\ di' = 1 /\ firstErr' = FALSE
    /\ UNCHANGED <<source, storeVars, remote, srcOf, connErr, lastErr, fetchVars,
                   applyVars, faults>>

(* A plausible slip: the stored sync-token is handed to Fetch instead of the  *)
(* one just read.                                                             *)
CompareAndKeepToken(last, cur) ==
    /\ pc = "check" /\ di \in Dests
    /\ IF HasChanged(last, cur)
         THEN /\ pc' = "fetch" /\ token' = last.token /\ asof' = Rev(Src)
              /\ UNCHANGED <<di, tries, hrefs, merged, fetched, applyVars>>
         ELSE NextConnection
    /\ UNCHANGED <<source, storeVars, remote, srcOf, statusVars>>

(* HasChanged with the stored state and the state of the source.              *)
Compare(last, cur) ==
    /\ pc = "check" /\ di \in Dests
    /\ IF HasChanged(last, cur)
         THEN /\ pc' = "fetch" /\ token' = cur.token /\ asof' = Rev(Src)
              /\ UNCHANGED <<di, tries, hrefs, merged, fetched, applyVars>>
         ELSE NextConnection
    /\ UNCHANGED <<source, storeVars, remote, srcOf, statusVars>>

CheckSource == Compare(saved[Src], CurrentState(Src)) /\ UNCHANGED faults

(* GetSourceState fails and counts as the empty state; the PROPFIND is        *)
(* answered with an error status, which fetchCalDAVState does not look at: no *)
(* CTag and no sync-token are found in the body and no error is returned; or  *)
(* both happen in one check.                                                  *)
CheckMisled ==
    \/ Compare(NoState, CurrentState(Src)) /\ Fault("store")
    \/ Compare(saved[Src], NoState) /\ CalDAV(Src) /\ Fault("status")
    \/ Compare(NoState, NoState) /\ CalDAV(Src) /\ TwoFaults("store", "status")

CheckFails ==
    /\ pc = "check" /\ di \in Dests
    /\ Fault("source")
    /\ ConnError(TRUE)
    /\ UNCHANGED <<source, storeVars, remote, srcOf>>
-----------------------------------------------------------------------------
(* Fetch.  A public source is one GET: body and ETag belong together.         *)
FetchPublicICS ==
    /\ pc = "fetch" /\ ~CalDAV(Src)
    /\ merged' = Now(Src) /\ fetched' = CurrentState(Src)
    /\ pc' = "save"
    /\ UNCHANGED <<source, storeVars, remote, srcOf, statusVars, di, token, tries,
                   hrefs, asof, applyVars, faults>>

(* fetchCalDAVEvents: a REPORT since the sync-token, or a listing without one.*)
(* When it names no resource, mergeCalendar lists the whole collection.       *)
Discover ==
    /\ pc = "fetch" /\ CalDAV(Src)
    /\ hrefs' = IF token # 0 THEN ReportHrefs(Src, token) ELSE Present(Now(Src))
    /\ fetched' = IF token # 0 THEN [NoState EXCEPT !.token = CurrentState(Src).token]
                               ELSE fetched
    /\ pc' = IF hrefs' = {} THEN "list" ELSE "get"
    /\ UNCHANGED <<source, storeVars, remote, srcOf, statusVars, di, token, tries,
                   merged, asof, applyVars, faults>>

ListCollection ==
    /\ pc = "list"
    /\ hrefs' = Present(Now(Src))
    /\ pc' = "get"
    /\ UNCHANGED <<source, storeVars, remote, srcOf, statusVars, di, token, tries,
                   merged, fetched, asof, applyVars, faults>>

(* The status of the REPORT or of a listing is not looked at either: no href  *)
(* and no sync-token are found in the body.                                   *)
ListingRefused ==
    /\ pc \in {"fetch", "list"} /\ CalDAV(Src)
    /\ Fault("status")
    /\ hrefs' = {}
    /\ fetched' = IF pc = "fetch" THEN NoState ELSE fetched
    /\ pc' = IF pc = "fetch" THEN "list" ELSE "get"
    /\ UNCHANGED <<source, storeVars, remote, srcOf, statusVars, di, token, tries,
                   merged, asof, applyVars>>

(* Plausible slips in fetchCalDAVEvents: an attempt that fails is retried for *)
(* ever; the number of attempts is off by one; or an attempt that fails hands *)
(* over what it has merged.                                                   *)
AttemptFailsForever ==
    /\ pc' = "fetch" /\ hrefs' = {} /\ merged' = EmptyCalendar
    /\ UNCHANGED <<di, token, tries, fetched, asof, applyVars, statusVars>>

AttemptFailsOnceMore ==
    IF tries <= MaxAttempts
      THEN /\ pc' = "fetch" /\ tries' = tries + 1
           /\ hrefs' = {} /\ merged' = EmptyCalendar
           /\ UNCHANGED <<di, token, fetched, asof, applyVars, statusVars>>
      ELSE ConnError(TRUE)

AttemptFailsPartially ==
    /\ pc' = "state" /\ hrefs' = {}
    /\ UNCHANGED <<di, token, tries, merged, fetched, asof, applyVars, statusVars>>

(* retry.Do around the fetch: another attempt with the same token, or Fetch   *)
(* returns the error.                                                         *)
AttemptFails ==
    IF tries < MaxAttempts
      THEN /\ pc' = "fetch" /\ tries' = tries + 1
           /\ hrefs' = {} /\ merged' = EmptyCalendar
           /\ UNCHANGED <<di, token, fetched, asof, applyVars, statusVars>>
      ELSE ConnError(TRUE)

(* getResource: a resource removed since it was listed is a 404, an error.    *)
GetResource ==
    /\ pc = "get"
    /\ \E u \in hrefs :
          IF Now(Src)[u] # NoEvent
            THEN /\ merged' = [merged EXCEPT ![u] = Now(Src)[u]]
                 /\ hrefs' = hrefs \ {u}
                 /\ UNCHANGED <<pc, di, token, tries, fetched, asof, applyVars, statusVars>>
            ELSE AttemptFails
    /\ UNCHANGED <<source, storeVars, remote, srcOf, faults>>

(* A resource that does not parse is left out of the merged calendar.         *)
SkipMalformed ==
    /\ pc = "get"
    /\ \E u \in hrefs : Now(Src)[u] # NoEvent /\ hrefs' = hrefs \ {u}
    /\ Fault("bad_data")
    /\ UNCHANGED <<source, storeVars, remote, srcOf, statusVars, pc, di, token, tries,
                   merged, fetched, asof, applyVars>>

(* All resources are merged.  The encoder of go-ical refuses a VCALENDAR that *)
(* has no component.                                                          *)
EncodeMerged ==
    /\ pc = "get" /\ hrefs = {}
    /\ IF merged = EmptyCalendar
         THEN AttemptFails
         ELSE /\ pc' = "state"
              /\ UNCHANGED <<di, fetchVars, applyVars, statusVars>>
    /\ UNCHANGED <<source, storeVars, remote, srcOf, faults>>

FetchFails ==
    /\ pc \in {"fetch", "list", "get"}
    /\ Fault("source")
    /\ AttemptFails
    /\ UNCHANGED <<source, storeVars, remote, srcOf>>

(* retry.Do retries neither a timeout nor an expired context.                 *)
FetchTimesOut ==
    /\ pc \in {"fetch", "list", "get"}
    /\ Fault("timeout")
    /\ ConnError(TRUE)
    /\ UNCHANGED <<source, storeVars, remote, srcOf>>

(* The CTag and sync-token read after the events replace those of the REPORT. *)
(* An error keeps the latter; an error status leaves all of them empty.       *)
ReadState ==
    /\ pc = "state"
    /\ \/ fetched' = CurrentState(Src) /\ UNCHANGED faults
       \/ fetched' = fetched /\ Fault("source")
       \/ fetched' = NoState /\ Fault("status")
    /\ pc' = "save"
    /\ UNCHANGED <<source, storeVars, remote, srcOf, statusVars, di, token, tries,
                   hrefs, merged, asof, applyVars>>

(* SetSourceState comes before the events are parsed and applied; its error   *)
(* is only logged.                                                            *)
SaveState ==
    /\ pc = "save"
    /\ \/ SetSourceState(Src, fetched) /\ UNCHANGED faults
       \/ UNCHANGED saved /\ Fault("store")
    /\ pc' = "apply"
    /\ UNCHANGED <<source, mapping, remote, srcOf, statusVars, di, fetchVars, applyVars>>
-----------------------------------------------------------------------------
(* A plausible slip: the pipeline lets everything through.                    *)
PublishUnfiltered(d, s, cal) ==
    [k \in Keys |-> IF k[1] = s THEN cal[k[2]] ELSE NoEvent]

(* parseEventsWithPipeline: the events of calendar cal that the pipeline of d *)
(* keeps, under the UIDs that carry the prefix of source s.                   *)
Publish(d, s, cal) ==
    [k \in Keys |-> IF k[1] = s /\ cal[k[2]] \in Kept[d] THEN cal[k[2]] ELSE NoEvent]

(* The events of the connection at hand, and the hashes of its active rows.   *)
Events == Publish(di, Src, merged)
Existing == ListMappings(di, Src)

(* Parsing and ListMappings.  Nothing else writes the rows of the destination *)
(* during the pass, so what the second loop will visit is known here.         *)
BeginDestination ==
    /\ pc = "apply"
    /\ todo' = {k \in Keys : Events[k] # NoEvent}
    /\ gone' = {k \in Keys : Events[k] = NoEvent /\ Existing[k] # NoEvent}
    /\ pc' = "events"
    /\ UNCHANGED <<source, storeVars, remote, srcOf, statusVars, di, fetchVars, inflight,
                   faults>>

BeginFails ==
    /\ pc = "apply"
    /\ \/ ~CalDAV(Src) /\ Fault("bad_data") /\ ConnError(TRUE)
       \/ Fault("store") /\ ConnError(FALSE)
    /\ UNCHANGED <<source, storeVars, remote, srcOf>>

(* The events whose hash differs from that of their active row, if any.       *)
Changed == {k \in todo : Events[k] # Existing[k]}

SkipUnchanged ==
    /\ pc = "events"
    /\ \E k \in todo \ Changed : todo' = todo \ {k}
    /\ UNCHANGED <<source, storeVars, remote, srcOf, statusVars, pc, di, fetchVars, gone,
                   inflight, faults>>

RemoteWrite(k, content) ==
    remote' = [remote EXCEPT ![CalendarOf[di]][k] = content]

(* CreateEvent and UpdateEvent both PUT to the URL made from the UID, without *)
(* If-Match since dest_etag is always stored empty.                           *)
PutEvent ==
    /\ pc = "events"
    /\ \E k \in Changed :
          /\ RemoteWrite(k, Events[k])
          /\ todo' = todo \ {k} /\ inflight' = {k}
    /\ pc' = "recordPut"
    /\ UNCHANGED <<source, storeVars, srcOf, statusVars, di, fetchVars, gone, faults>>

(* A plausible slip: a failed PUT is logged like a failed DELETE, and the     *)
(* mapping is recorded nevertheless.                                          *)
PutFailsLogged ==
    /\ pc = "events"
    /\ \E k \in Changed : todo' = todo \ {k} /\ inflight' = {k}
    /\ Fault("put")
    /\ pc' = "recordPut"
    /\ UNCHANGED <<source, storeVars, remote, srcOf, statusVars, di, fetchVars, gone>>

(* GetMapping of any event or the PUT of a changed one fails, and so does the *)
(* connection.                                                                *)
PutFails ==
    /\ pc = "events"
    /\ \/ todo # {} /\ Fault("store") /\ UNCHANGED remote
       \/ Changed # {} /\ Fault("put") /\ UNCHANGED remote
       \/ \E k \in Changed : Fault("lost_reply") /\ RemoteWrite(k, Events[k])
    /\ ConnError(FALSE)
    /\ UNCHANGED <<source, storeVars, srcOf>>

RecordPut ==
    /\ pc = "recordPut"
    /\ \E k \in inflight : SetMapping(di, k, Events[k], FALSE)
    /\ inflight' = {} /\ pc' = "events"
    /\ UNCHANGED <<source, saved, remote, srcOf, statusVars, di, fetchVars, todo, gone, faults>>

RecordFails ==
    /\ pc \in {"recordPut", "recordDelete"}
    /\ Fault("store")
    /\ ConnError(FALSE)
    /\ UNCHANGED <<source, storeVars, remote, srcOf>>

(* A plausible slip: the event is deleted remotely whatever the delete mode.  *)
DeleteAlways ==
    /\ pc = "events" /\ todo = {}
    /\ \E k \in gone :
          /\ gone' = gone \ {k} /\ inflight' = {k}
          /\ RemoteWrite(k, NoEvent) /\ UNCHANGED faults
    /\ pc' = "recordDelete"
    /\ UNCHANGED <<source, storeVars, srcOf, statusVars, di, fetchVars, todo>>

(* A plausible slip: hard mode never reaches the destination.                 *)
DeleteNever ==
    /\ pc = "events" /\ todo = {}
    /\ \E k \in gone : gone' = gone \ {k} /\ inflight' = {k}
    /\ pc' = "recordDelete"
    /\ UNCHANGED <<source, storeVars, remote, srcOf, statusVars, di, fetchVars, todo, faults>>

(* An event that the source no longer has.  In hard mode it is deleted from   *)
(* the destination; a failed DELETE (a 404 too) is only logged.               *)
DeleteEvent ==
    /\ pc = "events" /\ todo = {}
    /\ \E k \in gone :
          /\ gone' = gone \ {k} /\ inflight' = {k}
          /\ \/ DeleteMode = "soft" /\ UNCHANGED <<remote, faults>>
             \/ DeleteMode = "hard" /\ RemoteWrite(k, NoEvent) /\ UNCHANGED faults
             \/ DeleteMode = "hard" /\ UNCHANGED remote /\ Fault("delete")
    /\ pc' = "recordDelete"
    /\ UNCHANGED <<source, storeVars, srcOf, statusVars, di, fetchVars, todo>>

(* GetMapping fails in the deletion loop: the row is left as it is.           *)
SkipDeletion ==
    /\ pc = "events" /\ todo = {}
    /\ \E k \in gone : gone' = gone \ {k}
    /\ Fault("store")
    /\ UNCHANGED <<source, storeVars, remote, srcOf, statusVars, pc, di, fetchVars, todo,
                   inflight>>

RecordDelete ==
    /\ pc = "recordDelete"
    /\ \E k \in inflight : SetMapping(di, k, Existing[k], TRUE)
    /\ inflight' = {} /\ pc' = "events"
    /\ UNCHANGED <<source, saved, remote, srcOf, statusVars, di, fetchVars, todo, gone, faults>>

(* recordConnSuccess.                                                         *)
EndDestination ==
    /\ pc = "events" /\ todo = {} /\ gone = {}
    /\ connErr' = [connErr EXCEPT ![di] = FALSE]
    /\ NextConnection
    /\ UNCHANGED <<source, storeVars, remote, srcOf, lastErr, firstErr, faults>>

(* recordSuccess or recordFailure, and running = false.                       *)
FinishSync ==
    /\ pc = "check" /\ di \notin Dests
    /\ lastErr' = firstErr /\ firstErr' = FALSE
    /\ pc' = "idle" /\ di' = 1
    /\ UNCHANGED <<source, storeVars, remote, srcOf, connErr, fetchVars, applyVars, faults>>
-----------------------------------------------------------------------------
(* Everything that New builds from the configuration starts afresh.           *)
NewSyncer ==
    /\ connErr' = [d \in Dests |-> FALSE] /\ lastErr' = FALSE /\ firstErr' = FALSE
    /\ pc' = "idle" /\ di' = 1 /\ ResetFetch /\ ResetApply

(* The process dies at any point; the store and the calendars remain.         *)
Crash ==
    /\ Fault("crash")
    /\ NewSyncer
    /\ UNCHANGED <<source, storeVars, remote, srcOf>>

(* PUT /api/config between two passes moves destination d to source s.        *)
ApplyConfig(d, s) ==
    /\ pc = "idle" /\ d \in Repointable /\ s # srcOf[d]
    /\ srcOf' = [srcOf EXCEPT ![d] = s]
    /\ NewSyncer
    /\ UNCHANGED <<source, storeVars, remote, faults>>

OwnerEdits(s) ==
    /\ EditSource(s)
    /\ UNCHANGED <<storeVars, remote, srcOf, statusVars, pc, di, fetchVars, applyVars, faults>>

(* The steps of the pass itself.                                              *)
Sync ==
    \/ StartSync \/ CheckSource \/ FetchPublicICS \/ Discover \/ ListCollection
    \/ GetResource \/ EncodeMerged \/ ReadState \/ SaveState \/ BeginDestination
    \/ SkipUnchanged \/ PutEvent \/ RecordPut \/ DeleteEvent \/ RecordDelete \/ EndDestination
    \/ FinishSync

Failure ==
    \/ CheckMisled \/ CheckFails \/ ListingRefused \/ SkipMalformed \/ FetchFails
    \/ FetchTimesOut \/ BeginFails \/ PutFails \/ RecordFails \/ SkipDeletion \/ Crash

Next ==
    \/ Sync
    \/ Failure
    \/ \E d \in Dests, s \in Sources : ApplyConfig(d, s)
    \/ \E s \in Sources : OwnerEdits(s)

Spec == Init /\ [][Next]_vars

(* The scheduler starts a pass again and again, and a pass goes on by itself. *)
FairSpec == Spec /\ WF_vars(Sync)
=============================================================================
