-------------------------- MODULE SyncerProperties --------------------------
(* What Syncer.Sync is meant to achieve.                                      *)
EXTENDS Syncer

Active(d, k) == mapping[d][k].hash # NoEvent /\ ~mapping[d][k].deleted

(* The operation on key k for destination d has reached the remote calendar   *)
(* and is about to be recorded.                                               *)
InFlight(d, k) == d = di /\ k \in inflight

-----------------------------------------------------------------------------
(* Safety                                                                     *)

(* In soft mode an event that has a row in event_mapping is in the calendar   *)
(* of the destination: the PUT comes before SetMapping, an error in between   *)
(* leaves no row, and nothing ever removes an event (syncDestination), not    *)
(* even across crashes, lost answers and changes of configuration.            *)
MappedEventsExist ==
    DeleteMode = "soft" =>
        \A d \in Dests, k \in Keys :
            mapping[d][k] # NoMapping => remote[CalendarOf[d]][k] # NoEvent

(* The content hash of an active row is that of the event in the destination, *)
(* except while a write is under way.  Otherwise syncDestination would take   *)
(* an outdated event for an unchanged one and never repair it.                *)
HashMatchesDestination ==
    \A d \in Dests, k \in Keys :
        Active(d, k) /\ ~InFlight(d, k) =>
            remote[CalendarOf[d]][k] = mapping[d][k].hash

(* Between two passes, a connection without last_error holds exactly what the *)
(* source held at the revision stored in source_state: the pass that advanced *)
(* the stored state applied everything it stands for.  This is what makes it  *)
(* right to skip a source whose state is unchanged.                           *)
StoredStateIsApplied ==
    \A d \in Dests :
        LET s == srcOf[d] IN
        pc = "idle" /\ ~connErr[d] /\ saved[s].etag # 0 =>
            ListMappings(d, s) = Publish(d, s, source[s][saved[s].etag])

(* Fetch retrieves the full calendar: an event that the source has had ever   *)
(* since the pass compared the states is among the fetched ones, whatever was *)
(* edited meanwhile and whichever requests failed and were retried.           *)
FetchIsFull ==
    pc \in {"state", "save", "apply"} =>
        \A u \in Uids :
            (\A r \in asof..Rev(Src) : source[Src][r][u] # NoEvent) => merged[u] # NoEvent

(* A source that is not edited during the fetch is fetched exactly: the       *)
(* sync-token of the REPORT is the one the source has just answered with, so  *)
(* the REPORT is empty and the whole collection is listed.                    *)
QuietFetchIsExact ==
    pc \in {"state", "save", "apply"} /\ Rev(Src) = asof => merged = Now(Src)

(* Hard mode purges: an event marked deleted is gone from the destination     *)
(* (unless it is just being written again).                                   *)
HardModePurges ==
    DeleteMode = "hard" =>
        \A d \in Dests, k \in Keys :
            mapping[d][k].deleted /\ ~InFlight(d, k) =>
                remote[CalendarOf[d]][k] = NoEvent

(* Every row written is justified by a state the source had while the pass    *)
(* was running: a content it had, or the absence (or the filtering) of the    *)
(* event.  In particular no event is marked deleted that the source has kept  *)
(* all along.                                                                 *)
WritesAreJustified ==
    [][\A d \in Dests, k \in Keys :
          mapping'[d][k] # mapping[d][k] =>
              \E r \in asof..Rev(k[1]) :
                  LET content == source[k[1]][r][k[2]] IN
                  IF mapping'[d][k].deleted THEN content \notin Kept[d]
                  ELSE content \in Kept[d] /\ mapping'[d][k].hash = content]_vars

(* A pass touches neither rows nor remote events of another source, although  *)
(* destinations share a calendar or have been moved from source to source:    *)
(* "deletion detection never touches events synced from another source".      *)
OtherSourcesUntouched ==
    [][/\ \A d \in Dests, k \in Keys :
             mapping'[d][k] # mapping[d][k] => k[1] = Src
       /\ \A c \in Calendars, k \in Keys :
             remote'[c][k] # remote[c][k] => c = CalendarOf[di] /\ k[1] = Src]_vars

(* The passes implement a one-way mirror: whatever fails and however edits    *)
(* fall between the requests of a fetch, a destination is only ever given a   *)
(* content that its source has had since the connection compared the states   *)
(* (CreateEvent, UpdateEvent), and only ever loses, in hard mode, an event    *)
(* that the source has been without since then (DeleteEvent).                 *)
Serving == INSTANCE Mirror WITH dest <- IF asof = 0 THEN 0 ELSE di, since <- asof

ImplementsMirror == Serving!Spec

-----------------------------------------------------------------------------
(* Liveness                                                                   *)

(* Destination d shows what its source has now.                               *)
Mirrored(d) ==
    LET expected == Publish(d, srcOf[d], Now(srcOf[d])) IN
    /\ ListMappings(d, srcOf[d]) = expected
    /\ \A k \in Keys :
          /\ expected[k] # NoEvent => remote[CalendarOf[d]][k] = expected[k]
          /\ expected[k] = NoEvent /\ k[1] = srcOf[d] /\ DeleteMode = "hard" =>
                 remote[CalendarOf[d]][k] = NoEvent

(* Once the owners stop editing and the failures cease, every destination     *)
(* ends up with what its source has, and stays so.                            *)
Converges == \A d \in Dests : <>[]Mirrored(d)

(* With a source that has a change token a failed destination is not tried    *)
(* again until the source changes, but the failure is not hidden: for good,   *)
(* either the destination has what the source has, or its connection shows    *)
(* an error.                                                                  *)
ConvergesUnlessFailed == \A d \in Dests : <>[](Mirrored(d) \/ connErr[d])

(* A pass ends, whatever the source's owner does while it is running: the     *)
(* retries are bounded.                                                       *)
PassesEnd == pc # "idle" ~> pc = "idle"
=============================================================================
