------------------------------- MODULE Mirror -------------------------------
(* What SyncCal promises: a one-way mirror.  A destination is served one      *)
(* connection at a time; the connection brings it the events of its source,   *)
(* as they have been at some time since the connection began, and nothing     *)
(* else ever changes a destination.  How a source is fetched, what the store  *)
(* remembers, retries and failures are left to the implementation.            *)
EXTENDS SourceCalendar

CONSTANTS
    Dests,          \* the destinations
    Calendars,      \* remote calendars that the destinations write to
    CalendarOf,     \* the calendar of each destination
    InitialSource,  \* the source each destination shows at first
    Repointable,    \* destinations that may be given another source
    Kept,           \* the contents that each destination keeps
    DeleteMode      \* whether events the source no longer has are purged

VARIABLES
    remote,         \* the events of each remote calendar, by source and UID
    srcOf,          \* the source of each destination
    dest,           \* the destination being served, 0 when there is none
    since           \* revision of its source when the connection began

Keys == Sources \X Uids

Init ==
    /\ SourceInit
    /\ remote = [c \in Calendars |-> [k \in Keys |-> NoEvent]]
    /\ srcOf = InitialSource
    /\ dest = 0 /\ since = 0

Edit(s) == EditSource(s) /\ UNCHANGED <<remote, srcOf, dest, since>>

Begin(d) ==
    /\ dest = 0
    /\ dest' = d /\ since' = Rev(srcOf[d])
    /\ UNCHANGED <<source, remote, srcOf>>

Closed == dest' = 0 /\ since' = 0

(* The contents that an event of the source has had since revision since;     *)
(* NoEvent when it was absent.                                                *)
Had(k) == {source[k[1]][r][k[2]] : r \in since..Rev(k[1])}

(* An event of the source is copied, or one that the source did not have, or  *)
(* that the destination does not keep, is purged.  It may be the last thing   *)
(* that is done, as when the answer of the server is lost.                    *)
Write(k, content) ==
    /\ dest # 0 /\ k[1] = srcOf[dest]
    /\ \/ content \in Had(k) \cap Kept[dest]
       \/ DeleteMode = "hard" /\ content = NoEvent /\ Had(k) \ Kept[dest] # {}
    /\ remote' = [remote EXCEPT ![CalendarOf[dest]][k] = content]
    /\ UNCHANGED <<dest, since>> \/ Closed
    /\ UNCHANGED <<source, srcOf>>

End == dest # 0 /\ Closed /\ UNCHANGED <<source, remote, srcOf>>

Repoint(d, s) ==
    /\ dest = 0 /\ d \in Repointable
    /\ srcOf' = [srcOf EXCEPT ![d] = s]
    /\ UNCHANGED <<source, remote, dest, since>>

Next ==
    \/ End
    \/ \E s \in Sources : Edit(s)
    \/ \E d \in Dests : Begin(d) \/ \E s \in Sources : Repoint(d, s)
    \/ \E k \in Keys, content \in Contents \cup {NoEvent} : Write(k, content)

Spec == Init /\ [][Next]_<<source, remote, srcOf, dest, since>>
=============================================================================
