------------------------------ MODULE PassProofs ------------------------------
(* Theorems about a whole pass of Syncer: what it fetches, what it writes and *)
(* what it leaves behind, for every value of the constants.                   *)
EXTENDS SyncerProofs

USE SourceAssumption, StoreAssumption, SyncerAssumption

-----------------------------------------------------------------------------
(* The fetch.  Resources that do not parse are left out, so they have to      *)
(* parse; with a sync-token a fetch may be partial.                           *)
WellFormedData == "bad_data" \notin FaultKinds
NoSyncTokens == \A s \in Sources : Kind[s] # "caldav_token"

(* An event that the source at hand has had since the comparison; a content   *)
(* (or the absence) of an event that it has had at some time since.           *)
Steady(u) == \A r \in asof..Rev(Src) : source[Src][r][u] # NoEvent
Seen(u, content) == \E r \in asof..Rev(Src) : source[Src][r][u] = content

(* Nothing but the resources still to GET is missing in what has been merged. *)
Complete ==
    /\ Rev(Src) = asof => \A u \in Uids \ hrefs : merged[u] = Now(Src)[u]
    /\ NoSyncTokens => \A u \in Uids \ hrefs : Steady(u) => merged[u] # NoEvent

(* Nothing is merged before the resources are read; the sync-token at hand is *)
(* that of the comparison; what is merged has been seen in the source; and it *)
(* is complete, unless the listing was refused and the attempt is to fail.    *)
FetchInv ==
    /\ pc # "get" => hrefs = {}
    /\ pc \in {"idle", "check", "fetch", "list"} => merged = EmptyCalendar
    /\ pc \notin {"idle", "check"} => asof \in 1..Rev(Src)
    /\ pc \in {"fetch", "list", "get"} => token \in {0, asof} /\ (NoSyncTokens => token = 0)
    /\ pc \notin {"idle", "check"} =>
           \A u \in Uids : merged[u] # NoEvent => Seen(u, merged[u])
    /\ pc = "get" => Complete \/ (hrefs = {} /\ merged = EmptyCalendar)
    /\ pc \notin {"idle", "check", "fetch", "list", "get"} => Complete

(* The fetch starts afresh with each connection and with each Syncer.         *)
LEMMA FreshFetch == ASSUME ResetFetch, pc' \in {"idle", "check"} PROVE FetchInv'
BY DEF ResetFetch, FetchInv

LEMMA ErrorFreshFetch == ASSUME NEW first, ConnError(first) PROVE FetchInv'
BY FreshFetch DEF ConnError, NextConnection

(* What is said about the source at hand depends on these variables only.     *)
LEMMA SameSource ==
    ASSUME UNCHANGED <<source, srcOf, di, asof>>
    PROVE  /\ Rev(Src)' = Rev(Src) /\ Now(Src)' = Now(Src)
           /\ \A u \in Uids : Steady(u)' = Steady(u)
           /\ \A u \in Uids : \A c : Seen(u, c)' = Seen(u, c)
<1>1. Src' = Src /\ source'[Src] = source[Src]
  BY DEF Src
<1>2. Rev(Src)' = Rev(Src) /\ Now(Src)' = Now(Src)
  BY <1>1 DEF Rev, Now
<1>3. ASSUME NEW u \in Uids PROVE Steady(u)' = Steady(u)
  BY <1>1, <1>2 DEF Steady
<1>4. ASSUME NEW u \in Uids, NEW c PROVE Seen(u, c)' = Seen(u, c)
  BY <1>1, <1>2 DEF Seen
<1> QED BY <1>2, <1>3, <1>4

(* What the source has now is seen, and a steady event is there now.          *)
LEMMA NowIsSeen ==
    ASSUME TypeOK, asof \in 1..Rev(Src), di \in Dests, NEW u \in Uids
    PROVE  Seen(u, Now(Src)[u]) /\ (Steady(u) => Now(Src)[u] # NoEvent)
<1>1. Src \in Sources
  BY DEF TypeOK, Src
<1>2. Rev(Src) \in asof..Rev(Src)
  BY <1>1, SourceAnswers
<1> QED BY <1>2 DEF Seen, Steady, Now

(* A step that leaves the fetch alone.                                        *)
LEMMA SameFetch ==
    ASSUME FetchInv, UNCHANGED <<source, srcOf, di, asof, merged, hrefs, token>>,
           \/ pc' = pc
           \/ pc' \notin {"idle", "check", "fetch", "list", "get"} /\ hrefs = {} /\ Complete
              /\ pc \notin {"idle", "check"}
    PROVE  FetchInv'
<1>1. Complete' = Complete
  BY SameSource DEF Complete
<1> QED BY <1>1, SameSource DEF FetchInv

(* An attempt that fails hands nothing over.                                  *)
LEMMA FailedAttempt ==
    ASSUME FetchInv, AttemptFails, UNCHANGED <<source, srcOf>>, pc \in {"fetch", "list", "get"}
    PROVE  FetchInv'
<1>1. CASE tries < MaxAttempts
  <2>1. /\ pc' = "fetch" /\ hrefs' = {} /\ merged' = EmptyCalendar
        /\ UNCHANGED <<di, token, asof>>
    BY <1>1 DEF AttemptFails
  <2> QED BY <2>1, SameSource DEF FetchInv, EmptyCalendar
<1>2. CASE ~(tries < MaxAttempts)
  BY <1>2, ErrorFreshFetch DEF AttemptFails
<1> QED BY <1>1, <1>2

(* Editing adds a revision to one source.                                     *)
LEMMA EditAddsRevision ==
    ASSUME TypeOK, NEW s \in Sources, EditSource(s), NEW t \in Sources
    PROVE  \/ source'[t] = source[t]
           \/ /\ Len(source'[t]) = Len(source[t]) + 1
              /\ \A r \in 1..Len(source[t]) : source'[t][r] = source[t][r]
<1>1. PICK u \in Uids, c \in Contents \cup {NoEvent} :
        source' = [source EXCEPT ![s] = Append(@, [Now(s) EXCEPT ![u] = c])]
  BY DEF EditSource
<1>2. source \in [Sources -> Seq(Calendar)] /\ Now(s) \in Calendar
  BY SourceAnswers DEF TypeOK
<1> DEFINE cal == [Now(s) EXCEPT ![u] = c]
<1>3. cal \in Calendar
  BY <1>2 DEF Calendar
<1>4. CASE t = s
  <2>1. source'[t] = Append(source[t], cal)
    BY <1>1, <1>2, <1>4
  <2>2. source[t] \in Seq(Calendar)
    BY <1>2
  <2> HIDE DEF cal
  <2> QED BY <1>3, <2>1, <2>2
<1>5. CASE t # s
  BY <1>1, <1>2, <1>5
<1> QED BY <1>4, <1>5

(* An edit leaves what is known about the fetch true.                         *)
LEMMA EditFetchInv ==
    ASSUME TypeOK, FetchInv, NEW s \in Sources, OwnerEdits(s)
    PROVE  FetchInv'
<1> DEFINE H == source[Src]
           G == source'[Src]
<1>0. UNCHANGED <<srcOf, pc, di, token, hrefs, merged, asof>> /\ Src' = Src
  BY DEF OwnerEdits, fetchVars, Src
<1>1. CASE pc \in {"idle", "check"}
  BY <1>0, <1>1 DEF FetchInv
<1>2. CASE pc \notin {"idle", "check"}
  <2>1. di \in Dests /\ Src \in Sources /\ asof \in 1..Len(H) /\ Len(H) \in Nat
    BY <1>2, SourceAnswers DEF TypeOK, FetchInv, Src, Rev
  <2>2. \/ G = H
        \/ Len(G) = Len(H) + 1 /\ \A r \in 1..Len(H) : G[r] = H[r]
    BY <2>1, EditAddsRevision DEF OwnerEdits
  <2>3. Rev(Src)' = Len(G) /\ Now(Src)' = G[Len(G)]
    BY <1>0 DEF Rev, Now
  <2>4. asof \in 1..Len(G) /\ asof..Len(H) \subseteq asof..Len(G)
    BY <2>1, <2>2
  <2>5. \A r \in asof..Len(H) : G[r] = H[r]
    BY <2>1, <2>2
  <2>6. ASSUME NEW u \in Uids, NEW c, Seen(u, c) PROVE Seen(u, c)'
    <3>1. PICK r \in asof..Len(H) : H[r][u] = c
      BY <2>6 DEF Seen, Rev
    <3>2. r \in asof..Len(G) /\ G[r][u] = c
      BY <2>4, <2>5, <3>1
    <3> QED BY <1>0, <2>3, <3>2 DEF Seen
  <2>7. ASSUME NEW u \in Uids, Steady(u)' PROVE Steady(u)
    <3>1. \A r \in asof..Len(G) : G[r][u] # NoEvent
      BY <1>0, <2>3, <2>7 DEF Steady
    <3> QED BY <2>4, <2>5, <3>1 DEF Steady, Rev
  <2>8. ASSUME Complete PROVE Complete'
    <3>1. Len(G) = asof => G = H
      BY <2>1, <2>2
    <3>2. Rev(Src)' = asof' => Rev(Src) = asof /\ Now(Src)' = Now(Src)
      BY <1>0, <2>3, <3>1 DEF Rev, Now
    <3> QED BY <1>0, <2>7, <2>8, <3>2 DEF Complete
  <2> HIDE DEF H, G
  <2> QED BY <1>0, <1>2, <2>3, <2>4, <2>6, <2>8 DEF FetchInv
<1> QED BY <1>1, <1>2

(* The comparison of the stored state with that of the source starts a fetch  *)
(* with the sync-token of the source, or with none.                           *)
LEMMA CompareFetchInv ==
    ASSUME TypeOK, FetchInv, CheckSource \/ CheckMisled
    PROVE  FetchInv'
<1>1. PICK last, cur : Compare(last, cur) /\ cur \in {CurrentState(Src), NoState}
  BY DEF CheckSource, CheckMisled
<1>2. pc = "check" /\ di \in Dests /\ Src \in Sources /\ UNCHANGED <<source, srcOf>>
  BY <1>1 DEF Compare, TypeOK, Src
<1>3. CASE HasChanged(last, cur)
  <2>1. /\ pc' = "fetch" /\ token' = cur.token /\ asof' = Rev(Src)
        /\ UNCHANGED <<di, hrefs, merged>>
    BY <1>1, <1>3 DEF Compare
  <2>2. Rev(Src)' = Rev(Src) /\ Rev(Src) \in 1..Rev(Src)
    BY <1>2, <2>1, SourceAnswers DEF Rev, Src
  <2>3. cur.token \in {0, Rev(Src)} /\ (NoSyncTokens => cur.token = 0)
    BY <1>1, <1>2 DEF CurrentState, NoState, NoSyncTokens
  <2> QED BY <1>2, <2>1, <2>2, <2>3 DEF FetchInv, EmptyCalendar
<1>4. CASE ~HasChanged(last, cur)
  BY <1>1, <1>4, FreshFetch DEF Compare, NextConnection
<1> QED BY <1>3, <1>4

(* A public source is read in one request.                                    *)
LEMMA PublicFetchInv ==
    ASSUME TypeOK, FetchInv, FetchPublicICS
    PROVE  FetchInv'
<1>1. /\ pc = "fetch" /\ pc' = "save" /\ merged' = Now(Src)
      /\ UNCHANGED <<source, srcOf, di, hrefs, asof, token>>
  BY DEF FetchPublicICS
<1>2. di \in Dests /\ asof \in 1..Rev(Src) /\ hrefs = {}
  BY <1>1 DEF TypeOK, FetchInv, Steps
<1>3. \A u \in Uids : Seen(u, Now(Src)[u]) /\ (Steady(u) => Now(Src)[u] # NoEvent)
  BY <1>2, NowIsSeen
<1> QED BY <1>1, <1>2, <1>3, SameSource DEF FetchInv, Complete

(* A listing names every resource there is, or none when it is refused.  The  *)
(* REPORT since the sync-token of the comparison names none either while the  *)
(* source is not edited.                                                      *)
LEMMA ListingFetchInv ==
    ASSUME TypeOK, FetchInv, Discover \/ ListCollection \/ ListingRefused
    PROVE  FetchInv'
<1>1. pc \in {"fetch", "list"} /\ UNCHANGED <<source, srcOf, di, merged, asof, token>>
  BY DEF Discover, ListCollection, ListingRefused
<1>2. /\ di \in Dests /\ Src \in Sources /\ asof \in 1..Rev(Src) /\ merged = EmptyCalendar
      /\ token \in {0, asof} /\ (NoSyncTokens => token = 0)
  BY <1>1 DEF TypeOK, FetchInv, Src, Steps
<1>3. \A u \in Uids : merged[u] = NoEvent
  BY <1>2 DEF EmptyCalendar
<1>4. \A u \in Uids : Steady(u) => Now(Src)[u] # NoEvent
  BY <1>2, NowIsSeen
<1>5. pc' \in {"list", "get"} /\ (pc' = "list" => hrefs' = {})
  BY DEF Discover, ListCollection, ListingRefused
<1>6. hrefs' = {} \/ Complete'
  <2>1. CASE hrefs' = Present(Now(Src))
    <3>1. \A u \in Uids \ hrefs' : Now(Src)[u] = NoEvent
      BY <2>1 DEF Present
    <3> QED BY <1>1, <1>3, <1>4, <3>1, SameSource DEF Complete
  <2>2. CASE Discover /\ token # 0
    <3>1. hrefs' = ReportHrefs(Src, asof) /\ ~NoSyncTokens
      BY <1>2, <2>2 DEF Discover
    <3>2. Rev(Src) = asof => hrefs' = {}
      <4>1. ASSUME Rev(Src) = asof PROVE asof..(Rev(Src) - 1) = {}
        BY <1>2, <4>1
      <4> QED BY <3>1, <4>1 DEF ReportHrefs
    <3> QED BY <1>1, <3>1, <3>2, SameSource DEF Complete
  <2> QED BY <2>1, <2>2 DEF Discover, ListCollection, ListingRefused
<1> QED
  BY <1>1, <1>2, <1>3, <1>5, <1>6, SameSource DEF FetchInv

(* A resource is merged as it is.                                             *)
LEMMA GetFetchInv ==
    ASSUME TypeOK, FetchInv, GetResource
    PROVE  FetchInv'
<1>1. pc = "get" /\ UNCHANGED <<source, srcOf>>
  BY DEF GetResource
<1>2. CASE AttemptFails
  BY <1>1, <1>2, FailedAttempt
<1>3. CASE ~AttemptFails
  <2>1. PICK u \in hrefs :
          /\ Now(Src)[u] # NoEvent
          /\ merged' = [merged EXCEPT ![u] = Now(Src)[u]] /\ hrefs' = hrefs \ {u}
          /\ UNCHANGED <<pc, di, token, asof>>
    BY <1>3 DEF GetResource
  <2>2. di \in Dests /\ u \in Uids /\ merged \in Calendar /\ asof \in 1..Rev(Src)
    BY <1>1 DEF TypeOK, FetchInv, Steps
  <2>3. merged'[u] = Now(Src)[u] /\ \A v \in Uids \ {u} : merged'[v] = merged[v]
    BY <2>1, <2>2 DEF Calendar
  <2>4. Complete
    BY <1>1, <2>1 DEF FetchInv
  <2>5. Complete'
    BY <1>1, <2>1, <2>3, <2>4, SameSource DEF Complete
  <2>6. ASSUME NEW v \in Uids, merged'[v] # NoEvent PROVE Seen(v, merged'[v])
    <3>1. CASE v = u
      BY <2>2, <2>3, <3>1, NowIsSeen
    <3>2. CASE v # u
      BY <1>1, <2>3, <2>6, <3>2 DEF FetchInv
    <3> QED BY <3>1, <3>2
  <2> QED BY <1>1, <2>1, <2>2, <2>5, <2>6, SameSource DEF FetchInv
<1> QED BY <1>2, <1>3

(* The invariant holds at first and every step keeps it.                      *)
LEMMA InitFetchInv == Init => FetchInv
BY DEF Init, FetchInv

LEMMA NextFetchInv ==
    ASSUME WellFormedData
    PROVE  TypeOK /\ FetchInv /\ [Next]_vars => FetchInv'
<1> SUFFICES ASSUME TypeOK, FetchInv, [Next]_vars PROVE FetchInv'
  OBVIOUS
<1>1. CASE StartSync
  BY <1>1 DEF StartSync, fetchVars, FetchInv
<1>2. CASE CheckSource \/ CheckMisled
  BY <1>2, CompareFetchInv
<1>3. CASE CheckFails \/ FetchTimesOut \/ BeginFails \/ PutFails \/ RecordFails
  BY <1>3, ErrorFreshFetch DEF CheckFails, FetchTimesOut, BeginFails, PutFails, RecordFails
<1>4. CASE FetchPublicICS
  BY <1>4, PublicFetchInv
<1>5. CASE Discover \/ ListCollection \/ ListingRefused
  BY <1>5, ListingFetchInv
<1>6. CASE GetResource
  BY <1>6, GetFetchInv
<1>7. CASE SkipMalformed
  BY <1>7 DEF SkipMalformed, Fault, WellFormedData
<1>8. CASE EncodeMerged
  <2>1. CASE AttemptFails
    BY <1>8, <2>1, FailedAttempt DEF EncodeMerged
  <2>2. CASE ~AttemptFails
    BY <1>8, <2>2, SameFetch DEF EncodeMerged, fetchVars, FetchInv
  <2> QED BY <2>1, <2>2
<1>9. CASE FetchFails
  BY <1>9, FailedAttempt DEF FetchFails
<1>10. CASE ReadState \/ SaveState \/ BeginDestination \/ PutEvent \/ RecordPut
            \/ DeleteEvent \/ RecordDelete
  <2>1. /\ pc \notin {"idle", "check", "fetch", "list", "get"}
        /\ pc' \notin {"idle", "check", "fetch", "list", "get"}
        /\ UNCHANGED <<source, srcOf, di, asof, merged, hrefs, token>>
    BY <1>10 DEF ReadState, SaveState, BeginDestination, PutEvent, RecordPut, DeleteEvent,
                 RecordDelete, fetchVars
  <2>2. hrefs = {} /\ Complete
    BY <2>1 DEF FetchInv
  <2> QED BY <2>1, <2>2, SameFetch
<1>11. CASE SkipUnchanged \/ SkipDeletion \/ UNCHANGED vars
  BY <1>11, SameFetch DEF SkipUnchanged, SkipDeletion, vars, fetchVars
<1>12. CASE EndDestination
  BY <1>12, FreshFetch DEF EndDestination, NextConnection
<1>13. CASE FinishSync
  BY <1>13 DEF FinishSync, fetchVars, FetchInv
<1>14. CASE Crash \/ \E d \in Dests, s \in Sources : ApplyConfig(d, s)
  BY <1>14, FreshFetch DEF Crash, ApplyConfig, NewSyncer
<1>15. ASSUME NEW s \in Sources, OwnerEdits(s) PROVE FetchInv'
  BY <1>15, EditFetchInv
<1> QED
  BY <1>1, <1>2, <1>3, <1>4, <1>5, <1>6, <1>7, <1>8, <1>9, <1>10, <1>11, <1>12, <1>13, <1>14, <1>15
  DEF Next, Sync, Failure

(* The invariant of the fetch holds in every reachable state.                 *)
THEOREM FetchInvariant == ASSUME WellFormedData PROVE Spec => []FetchInv
<1>1. TypeOK /\ FetchInv /\ [Next]_vars => FetchInv'
  BY NextFetchInv
<1> QED BY <1>1, InitFetchInv, TypeCorrect, PTL DEF Spec

(* A fetch during which the source is not edited is exact, with and without   *)
(* sync-token, whichever requests fail or are refused.                        *)
THEOREM QuietFetchesAreExact ==
    ASSUME WellFormedData
    PROVE  Spec => []QuietFetchIsExact
<1>1. TypeOK /\ FetchInv => QuietFetchIsExact
  <2> SUFFICES ASSUME TypeOK, FetchInv, pc \in {"state", "save", "apply"}, Rev(Src) = asof
               PROVE  merged = Now(Src)
    BY DEF QuietFetchIsExact
  <2>1. Src \in Sources /\ merged \in Calendar
    BY DEF TypeOK, Src, Steps
  <2>2. Now(Src) \in Calendar
    BY <2>1, SourceAnswers
  <2>3. \A u \in Uids : merged[u] = Now(Src)[u]
    BY DEF FetchInv, Complete
  <2> QED BY <2>1, <2>2, <2>3 DEF Calendar
<1> QED BY <1>1, FetchInvariant, TypeCorrect, PTL

(* Without sync-tokens a fetch is complete, however its many requests and     *)
(* attempts interleave with edits of the source.                              *)
THEOREM FetchesAreFull ==
    ASSUME WellFormedData, NoSyncTokens
    PROVE  Spec => []FetchIsFull
<1>1. FetchInv => FetchIsFull
  BY DEF FetchInv, FetchIsFull, Complete, Steady
<1> QED BY <1>1, FetchInvariant, PTL

(* What is marked deleted is not among the events fetched.                    *)
GoneInv ==
    /\ \A k \in gone : Events[k] = NoEvent
    /\ pc = "recordDelete" => \A k \in inflight : Events[k] = NoEvent

(* The invariant is kept by every step.                                       *)
LEMMA NextGoneInv == TypeOK /\ ApplyInv /\ GoneInv /\ [Next]_vars => GoneInv'
<1> SUFFICES ASSUME TypeOK, ApplyInv, GoneInv, [Next]_vars PROVE GoneInv'
  OBVIOUS
<1>1. CASE gone' = {} /\ pc' # "recordDelete"
  BY <1>1 DEF GoneInv
<1>2. CASE UNCHANGED <<di, srcOf, merged>>
  <2>1. Events' = Events
    BY <1>2, SameEvents
  <2>2. CASE BeginDestination
    BY <2>1, <2>2 DEF BeginDestination, GoneInv
  <2>3. CASE DeleteEvent
    BY <2>1, <2>3 DEF DeleteEvent, GoneInv
  <2>4. ASSUME gone' \subseteq gone, pc' # "recordDelete" PROVE GoneInv'
    BY <2>1, <2>4 DEF GoneInv
  <2>5. CASE UNCHANGED vars \/ \E s \in Sources : OwnerEdits(s)
    BY <2>1, <2>5 DEF vars, applyVars, OwnerEdits, GoneInv
  <2> QED
    BY <2>2, <2>3, <2>4, <2>5
    DEF Next, Sync, Failure, StartSync, CheckSource, CheckMisled, Compare, CheckFails,
        FetchPublicICS, Discover, ListCollection, ListingRefused, GetResource, SkipMalformed,
        EncodeMerged, AttemptFails, FetchFails, FetchTimesOut, ReadState, SaveState, BeginFails,
        SkipUnchanged, PutEvent, PutFails, RecordPut, RecordFails, SkipDeletion, RecordDelete,
        EndDestination, FinishSync, Crash, ApplyConfig, ConnError, NextConnection, NewSyncer,
        ResetApply, applyVars
<1> QED
  BY <1>1, <1>2
  DEF Next, Sync, Failure, vars, fetchVars, applyVars, ApplyInv, StartSync, CheckSource,
      CheckMisled, Compare, CheckFails, FetchPublicICS, Discover, ListCollection,
      ListingRefused, GetResource, SkipMalformed, EncodeMerged, AttemptFails, FetchFails,
      FetchTimesOut, ReadState, SaveState, BeginDestination, BeginFails, SkipUnchanged,
      PutEvent, PutFails, RecordPut, RecordFails, DeleteEvent, SkipDeletion, RecordDelete, EndDestination, FinishSync, Crash, ApplyConfig,
      OwnerEdits, ConnError, NextConnection, NewSyncer, ResetApply

LEMMA GoneInvariant == Spec => []GoneInv
<1>1. Init => GoneInv
  BY DEF Init, GoneInv
<1> QED BY <1>1, NextGoneInv, TypeCorrect, ApplyInvariant, PTL DEF Spec

(* Without sync-tokens, every row that a pass writes, and every deletion it   *)
(* infers, is justified by a state the source has had during the pass.        *)
THEOREM WritesHaveReasons ==
    ASSUME WellFormedData, NoSyncTokens
    PROVE  Spec => WritesAreJustified
<1> DEFINE Justified ==
      \A d \in Dests, k \in Keys :
          mapping'[d][k] # mapping[d][k] =>
              \E r \in asof..Rev(k[1]) :
                  LET content == source[k[1]][r][k[2]] IN
                  IF mapping'[d][k].deleted THEN content \notin Kept[d]
                  ELSE content \in Kept[d] /\ mapping'[d][k].hash = content
<1>1. TypeOK /\ ApplyInv /\ GoneInv /\ FetchInv /\ [Next]_vars => Justified
  <2> SUFFICES ASSUME TypeOK, ApplyInv, GoneInv, FetchInv, [Next]_vars,
                      NEW d \in Dests, NEW k \in Keys, mapping'[d][k] # mapping[d][k]
               PROVE  \E r \in asof..Rev(k[1]) :
                          IF mapping'[d][k].deleted THEN source[k[1]][r][k[2]] \notin Kept[d]
                          ELSE /\ source[k[1]][r][k[2]] \in Kept[d]
                               /\ mapping'[d][k].hash = source[k[1]][r][k[2]]
    OBVIOUS
  <2>1. k[2] \in Uids /\ NoEvent \notin Kept[d] /\ di \in Dests
    BY StoreSteps DEF Keys, RecordPut, RecordDelete, TypeOK
  <2>2. Complete /\ hrefs = {} /\ \A u \in Uids : merged[u] # NoEvent => Seen(u, merged[u])
    BY StoreSteps DEF FetchInv, RecordPut, RecordDelete
  <2>3. CASE RecordPut
    <3>1. PICK j \in inflight : SetMapping(di, j, Events[j], FALSE) /\ Events[j] # NoEvent
      BY <2>3 DEF RecordPut, ApplyInv
    <3>2. d = di /\ k = j /\ mapping'[d][k] = [hash |-> Events[k], deleted |-> FALSE]
      BY <2>1, <3>1 DEF SetMapping, TypeOK, StoreTypeOK
    <3>3. k[1] = Src /\ Events[k] = merged[k[2]] /\ merged[k[2]] \in Kept[d]
      BY <3>1, <3>2 DEF Events, Publish
    <3>4. Seen(k[2], merged[k[2]])
      BY <2>1, <2>2, <3>1, <3>2, <3>3
    <3> QED BY <3>2, <3>3, <3>4 DEF Seen
  <2>4. CASE RecordDelete
    <3>1. PICK j \in inflight :
            SetMapping(di, j, Existing[j], TRUE) /\ Existing[j] # NoEvent /\ Events[j] = NoEvent
      BY <2>4 DEF RecordDelete, ApplyInv, GoneInv
    <3>2. d = di /\ k = j /\ mapping'[d][k] = [hash |-> Existing[k], deleted |-> TRUE]
      BY <2>1, <3>1 DEF SetMapping, TypeOK, StoreTypeOK
    <3>3. k[1] = Src
      BY <3>1, <3>2 DEF Existing, ListMappings
    <3>4. merged[k[2]] = NoEvent \/ merged[k[2]] \notin Kept[d]
      BY <3>1, <3>2, <3>3 DEF Events, Publish
    <3>5. CASE merged[k[2]] # NoEvent
      BY <2>1, <2>2, <3>2, <3>3, <3>4, <3>5 DEF Seen
    <3>6. CASE merged[k[2]] = NoEvent
      <4>1. ~Steady(k[2])
        BY <2>1, <2>2, <3>6 DEF Complete
      <4> QED BY <2>1, <3>2, <3>3, <4>1 DEF Steady
    <3> QED BY <3>5, <3>6
  <2> QED BY <2>3, <2>4, StoreSteps
<1>2. TypeOK /\ ApplyInv /\ GoneInv /\ FetchInv /\ [Next]_vars => [Justified]_vars
  BY <1>1
<1> QED
  BY <1>2, TypeCorrect, ApplyInvariant, GoneInvariant, FetchInvariant, PTL
  DEF Spec, WritesAreJustified

-----------------------------------------------------------------------------
(* The passes implement the one-way mirror.  A connection is being served     *)
(* from the comparison that starts the fetch until it ends.                   *)
ServedInv == pc \in {"idle", "check"} => asof = 0

LEMMA NextServedInv == ServedInv /\ [Next]_vars => ServedInv'
<1> SUFFICES ASSUME ServedInv, [Next]_vars PROVE ServedInv'
  OBVIOUS
<1>1. CASE asof' = 0
  BY <1>1 DEF ServedInv
<1>2. CASE pc' \notin {"idle", "check"}
  BY <1>2 DEF ServedInv
<1>3. CASE pc' = pc /\ asof' = asof
  BY <1>3 DEF ServedInv
<1>4. CASE StartSync \/ FinishSync
  BY <1>4 DEF StartSync, FinishSync, fetchVars, ServedInv
<1>5. ASSUME NEW first, ConnError(first) PROVE ServedInv'
  BY <1>5, <1>1 DEF ConnError, NextConnection, ResetFetch
<1>6. CASE CheckSource \/ CheckMisled \/ AttemptFails
  BY <1>1, <1>2, <1>5, <1>6
  DEF CheckSource, CheckMisled, Compare, AttemptFails, NextConnection, ResetFetch
<1>7. CASE CheckFails \/ FetchFails \/ FetchTimesOut \/ BeginFails \/ PutFails \/ RecordFails
  BY <1>5, <1>6, <1>7 DEF CheckFails, FetchFails, FetchTimesOut, BeginFails, PutFails, RecordFails
<1>8. CASE GetResource \/ EncodeMerged
  BY <1>2, <1>3, <1>6, <1>8 DEF GetResource, EncodeMerged, fetchVars
<1>9. CASE EndDestination \/ Crash \/ \E d \in Dests, s \in Sources : ApplyConfig(d, s)
  BY <1>1, <1>9 DEF EndDestination, NextConnection, Crash, ApplyConfig, NewSyncer, ResetFetch
<1>10. CASE UNCHANGED vars \/ \E s \in Sources : OwnerEdits(s)
  BY <1>3, <1>10 DEF vars, fetchVars, OwnerEdits
<1> QED
  BY <1>2, <1>3, <1>4, <1>6, <1>7, <1>8, <1>9, <1>10
  DEF Next, Sync, Failure, FetchPublicICS, Discover, ListCollection, ListingRefused,
      SkipMalformed, ReadState, SaveState, BeginDestination, SkipUnchanged, PutEvent,
      RecordPut, DeleteEvent, SkipDeletion, RecordDelete

LEMMA ServedInvariant == Spec => []ServedInv
<1>1. Init => ServedInv
  BY DEF Init, ServedInv
<1> QED BY <1>1, NextServedInv, PTL DEF Spec

(* The source has had what is published of it, and has been without what is   *)
(* not, since the connection began.                                           *)
LEMMA PublishedWereHad ==
    ASSUME NoSyncTokens, TypeOK, FetchInv, pc = "events", NEW k \in Keys, k[1] = Src
    PROVE  /\ Events[k] # NoEvent => Events[k] \in Serving!Had(k) \cap Kept[di]
           /\ Events[k] = NoEvent => Serving!Had(k) \ Kept[di] # {}
<1>1. /\ k[2] \in Uids /\ di \in Dests /\ NoEvent \notin Kept[di]
      /\ Complete /\ hrefs = {} /\ \A u \in Uids : merged[u] # NoEvent => Seen(u, merged[u])
  BY DEF Keys, TypeOK, Steps, FetchInv
<1>2. Serving!Had(k) = {source[Src][r][k[2]] : r \in asof..Rev(Src)}
  BY DEF Serving!Had, Serving!Rev, Rev
<1>3. \A c : Seen(k[2], c) => c \in Serving!Had(k)
  BY <1>2 DEF Seen
<1>4. Events[k] = IF merged[k[2]] \in Kept[di] THEN merged[k[2]] ELSE NoEvent
  BY DEF Events, Publish
<1>5. ASSUME merged[k[2]] = NoEvent PROVE NoEvent \in Serving!Had(k)
  <2>1. ~Steady(k[2])
    BY <1>1, <1>5 DEF Complete
  <2> QED BY <1>2, <2>1 DEF Steady
<1>6. merged[k[2]] \in Serving!Had(k)
  BY <1>1, <1>3, <1>5
<1> QED BY <1>1, <1>4, <1>6

(* What is published is a content that the destination keeps.                 *)
LEMMA AppliedType ==
    ASSUME di \in Dests, NEW k \in Keys, Events[k] # NoEvent
    PROVE  Events[k] \in Contents
BY SyncerAssumption DEF Events, Publish

(* What the mirror sees of the state of the passes.                           *)
Served == IF asof = 0 THEN 0 ELSE di
mirrorVars == <<source, remote, srcOf, Served, asof>>

(* An operation on the destination is a write of the mirror.                  *)
LEMMA WriteMirrors ==
    ASSUME NoSyncTokens, TypeOK, FetchInv, pc = "events",
           NEW k \in Keys, NEW content \in Contents \cup {NoEvent}, k[1] = Src,
           RemoteWrite(k, content), UNCHANGED <<source, srcOf>>,
           content = Events[k], content = NoEvent => DeleteMode = "hard",
           UNCHANGED <<di, asof>> \/ asof' = 0
    PROVE  Serving!Next
<1>1. asof # 0 /\ di \in Dests
  BY SourceAnswers DEF FetchInv, TypeOK, Steps
<1>2. di # 0
  BY <1>1 DEF Dests
<1>3. Serving!Write(k, content)
  <2>1. \/ content \in Serving!Had(k) \cap Kept[di]
        \/ DeleteMode = "hard" /\ content = NoEvent /\ Serving!Had(k) \ Kept[di] # {}
    BY PublishedWereHad
  <2>2. UNCHANGED <<Served, asof>> \/ (Served' = 0 /\ asof' = 0)
    BY DEF Served
  <2> QED
    BY <1>1, <1>2, <2>1, <2>2 DEF Serving!Write, Serving!Closed, Served, Src, RemoteWrite
<1> QED
  BY <1>3 DEF Serving!Next, Serving!Keys, Keys

(* Every step is a step of the mirror or leaves it as it is.                  *)
LEMMA StepMirrors ==
    ASSUME NoSyncTokens, TypeOK, ApplyInv, GoneInv, FetchInv, ServedInv, [Next]_vars
    PROVE  [Serving!Next]_mirrorVars
<1>1. CASE UNCHANGED <<source, remote, srcOf, di, asof>>
  BY <1>1 DEF mirrorVars, Served
<1>2. CASE asof' = 0 /\ UNCHANGED <<source, remote, srcOf>>
  <2>1. CASE asof = 0
    BY <1>2, <2>1 DEF mirrorVars, Served
  <2>2. CASE asof # 0
    <3>1. di \in Dests
      BY <2>2 DEF ServedInv, TypeOK, Steps
    <3>2. Served # 0 /\ Served' = 0
      BY <1>2, <2>2, <3>1 DEF Served, Dests
    <3> QED BY <1>2, <3>2 DEF Serving!Next, Serving!End, Serving!Closed, Served
  <2> QED BY <2>1, <2>2
<1>3. CASE CheckSource \/ CheckMisled
  <2>1. PICK last, cur : Compare(last, cur)
    BY <1>3 DEF CheckSource, CheckMisled
  <2>2. CASE HasChanged(last, cur)
    <3>1. di \in Dests /\ Src \in Sources /\ Served = 0
      BY <2>1 DEF Compare, TypeOK, Src, ServedInv, Served
    <3>2. asof' = Rev(Src) /\ asof' # 0 /\ di' = di /\ UNCHANGED <<source, remote, srcOf>>
      BY <2>1, <2>2, <3>1, SourceAnswers DEF Compare
    <3>3. Serving!Begin(di)
      BY <3>1, <3>2 DEF Serving!Begin, Served, Serving!Rev, Rev, Src
    <3> QED BY <3>1, <3>3 DEF Serving!Next
  <2>3. CASE ~HasChanged(last, cur)
    BY <1>2, <2>1, <2>3 DEF Compare, NextConnection, ResetFetch
  <2> QED BY <2>2, <2>3
<1>4. CASE PutEvent
  <2>1. PICK k \in Changed : RemoteWrite(k, Events[k])
    BY <1>4 DEF PutEvent
  <2>2. pc = "events" /\ k \in Keys /\ k \in todo /\ UNCHANGED <<source, srcOf, di, asof>>
    BY <1>4, <2>1 DEF PutEvent, Changed, fetchVars, TypeOK
  <2>3. Events[k] \in Contents /\ Events[k] # NoEvent /\ k[1] = Src
    BY <2>2, OwnKeys, AppliedType DEF ApplyInv, TypeOK, Steps
  <2> QED BY <2>1, <2>2, <2>3, WriteMirrors
<1>5. CASE PutFails
  <2>1. pc = "events" /\ asof' = 0 /\ UNCHANGED <<source, srcOf>>
    BY <1>5 DEF PutFails, ConnError, NextConnection, ResetFetch
  <2>2. CASE remote' # remote
    <3>1. PICK k \in Changed : RemoteWrite(k, Events[k])
      BY <1>5, <2>2 DEF PutFails
    <3>2. k \in Keys /\ k \in todo
      BY <3>1 DEF Changed, TypeOK
    <3>3. Events[k] \in Contents /\ Events[k] # NoEvent /\ k[1] = Src
      BY <2>1, <3>2, OwnKeys, AppliedType DEF ApplyInv, TypeOK, Steps
    <3> QED BY <2>1, <3>1, <3>2, <3>3, WriteMirrors
  <2>3. CASE remote' = remote
    BY <1>2, <2>1, <2>3
  <2> QED BY <2>2, <2>3
<1>6. CASE DeleteEvent
  <2>1. pc = "events" /\ UNCHANGED <<source, srcOf, di, asof>>
    BY <1>6 DEF DeleteEvent, fetchVars
  <2>2. CASE remote' # remote
    <3>1. PICK k \in gone : DeleteMode = "hard" /\ RemoteWrite(k, NoEvent)
      BY <1>6, <2>2 DEF DeleteEvent
    <3>2. k \in Keys /\ k[1] = Src /\ Events[k] = NoEvent
      BY <3>1, OwnKeys DEF ApplyInv, GoneInv, TypeOK
    <3> QED BY <2>1, <3>1, <3>2, WriteMirrors
  <2>3. CASE remote' = remote
    BY <1>1, <2>1, <2>3
  <2> QED BY <2>2, <2>3
<1>7. ASSUME NEW s \in Sources, OwnerEdits(s) PROVE Serving!Next
  BY <1>7
  DEF OwnerEdits, fetchVars, EditSource, Rev, Now, Serving!Next, Serving!Edit,
      Serving!EditSource, Serving!Rev, Serving!Now
<1>8. ASSUME NEW d \in Dests, NEW s \in Sources, ApplyConfig(d, s) PROVE Serving!Next
  BY <1>8
  DEF ApplyConfig, NewSyncer, ResetFetch, ServedInv, Serving!Next, Serving!Repoint
<1>9. ASSUME NEW first, ConnError(first), UNCHANGED <<source, remote, srcOf>>
      PROVE  [Serving!Next]_mirrorVars
  BY <1>2, <1>9 DEF ConnError, NextConnection, ResetFetch
<1>10. CASE AttemptFails /\ UNCHANGED <<source, remote, srcOf>>
  BY <1>1, <1>9, <1>10 DEF AttemptFails
<1>11. CASE CheckFails \/ FetchFails \/ FetchTimesOut \/ BeginFails \/ RecordFails
  BY <1>9, <1>10, <1>11 DEF CheckFails, FetchFails, FetchTimesOut, BeginFails, RecordFails
<1>12. CASE GetResource \/ EncodeMerged
  BY <1>1, <1>10, <1>12 DEF GetResource, EncodeMerged, fetchVars
<1>13. CASE EndDestination \/ Crash
  BY <1>2, <1>13 DEF EndDestination, NextConnection, Crash, NewSyncer, ResetFetch
<1>14. CASE UNCHANGED vars
  BY <1>1, <1>14 DEF vars, fetchVars
<1>15. CASE StartSync \/ FinishSync
  <2>1. asof = 0 /\ asof' = 0
    BY <1>15 DEF StartSync, FinishSync, fetchVars, ServedInv
  <2> QED BY <1>2, <1>15, <2>1 DEF StartSync, FinishSync
<1>16. CASE \/ FetchPublicICS \/ Discover \/ ListCollection \/ ListingRefused \/ SkipMalformed
            \/ ReadState \/ SaveState \/ BeginDestination \/ SkipUnchanged \/ RecordPut
            \/ SkipDeletion \/ RecordDelete
  BY <1>1, <1>16
  DEF FetchPublicICS, Discover, ListCollection, ListingRefused, SkipMalformed, ReadState,
      SaveState, BeginDestination, SkipUnchanged, RecordPut, SkipDeletion, RecordDelete, fetchVars
<1> QED
  BY <1>3, <1>4, <1>5, <1>6, <1>7, <1>8, <1>11, <1>12, <1>13, <1>14, <1>15, <1>16
  DEF Next, Sync, Failure

(* Without sync-tokens the passes implement the one-way mirror, for every     *)
(* interleaving of requests, edits, failures, crashes and moves of a          *)
(* destination to another source.                                             *)
THEOREM PassesMirror ==
    ASSUME WellFormedData, NoSyncTokens
    PROVE  Spec => ImplementsMirror
<1>1. Init => Serving!Init
  BY DEF Init, SourceInit, Calendar, Keys, Serving!Init, Serving!SourceInit, Serving!Calendar,
         Serving!Keys
<1>2. TypeOK /\ ApplyInv /\ GoneInv /\ FetchInv /\ ServedInv /\ [Next]_vars
        => [Serving!Next]_mirrorVars
  BY StepMirrors
<1> QED
  BY <1>1, <1>2, TypeCorrect, ApplyInvariant, GoneInvariant, FetchInvariant, ServedInvariant, PTL
  DEF Spec, ImplementsMirror, Serving!Spec, mirrorVars, Served

-----------------------------------------------------------------------------
(* Hard mode.  A failed DELETE is only logged, so it must not happen; and     *)
(* nothing else may write to the calendar of the destination.                 *)
DeletesSucceed == "delete" \notin FaultKinds

(* What is about to be marked deleted has been deleted.                       *)
PurgeInv ==
    DeleteMode = "hard" /\ pc = "recordDelete" =>
        \A k \in inflight : remote[CalendarOf[di]][k] = NoEvent

LEMMA NextPurgeInv ==
    ASSUME DeletesSucceed
    PROVE  TypeOK /\ PurgeInv /\ [Next]_vars => PurgeInv'
<1> SUFFICES ASSUME TypeOK, PurgeInv, [Next]_vars, DeleteMode = "hard",
                    pc' = "recordDelete", NEW k \in inflight'
             PROVE  remote'[CalendarOf[di']][k] = NoEvent
  BY DEF PurgeInv
<1>1. CASE DeleteEvent
  <2>1. di \in Dests /\ di' = di /\ k \in Keys /\ RemoteWrite(k, NoEvent)
    BY <1>1 DEF DeleteEvent, DeletesSucceed, Fault, TypeOK
  <2> QED BY <2>1 DEF RemoteWrite, TypeOK
<1>2. CASE UNCHANGED <<remote, pc, di, inflight>>
  BY <1>2 DEF PurgeInv
<1> QED
  BY <1>1, <1>2
  DEF Next, Sync, Failure, vars, applyVars, StartSync, CheckSource, CheckMisled, Compare,
      CheckFails, FetchPublicICS, Discover, ListCollection, ListingRefused, GetResource,
      SkipMalformed, EncodeMerged, AttemptFails, FetchFails, FetchTimesOut, ReadState, SaveState,
      BeginDestination, BeginFails, SkipUnchanged, PutEvent, PutFails, RecordPut, RecordFails,
      SkipDeletion, RecordDelete, EndDestination, FinishSync, Crash, ApplyConfig,
      OwnerEdits, ConnError, NextConnection, NewSyncer

(* In hard mode an event marked deleted is gone from the destination, as long *)
(* as DELETEs succeed and every remote write gets recorded.                   *)
THEOREM HardModeDeletes ==
    ASSUME NoHalfWrites, OwnCalendars, DeletesSucceed
    PROVE  Spec => []HardModePurges
<1>1. Init => HardModePurges /\ PurgeInv
  BY DEF Init, StoreInit, NoMapping, HardModePurges, PurgeInv
<1>2. TypeOK /\ ApplyInv /\ PurgeInv /\ HardModePurges /\ [Next]_vars => HardModePurges'
  <2> SUFFICES ASSUME TypeOK, ApplyInv, PurgeInv, HardModePurges, [Next]_vars,
                      DeleteMode = "hard", NEW d \in Dests, NEW k \in Keys,
                      mapping'[d][k].deleted, ~InFlight(d, k)'
               PROVE  remote'[CalendarOf[d]][k] = NoEvent
    BY DEF HardModePurges
  <2>1. remote'[CalendarOf[d]][k] = remote[CalendarOf[d]][k]
    BY WritesAreInFlight
  <2>2. ASSUME mapping'[d][k] = mapping[d][k], ~InFlight(d, k)
        PROVE  remote'[CalendarOf[d]][k] = NoEvent
    BY <2>1, <2>2 DEF HardModePurges
  <2>3. CASE RecordPut
    <3>1. PICK j \in inflight : \E hash : SetMapping(di, j, hash, FALSE)
      BY <2>3 DEF RecordPut
    <3>2. j \in Keys /\ di \in Dests
      BY <2>3 DEF RecordPut, TypeOK
    <3>3. ~(d = di /\ k = j)
      BY <3>1, <3>2 DEF SetMapping, TypeOK, StoreTypeOK
    <3>4. mapping'[d][k] = mapping[d][k]
      BY <3>1, <3>2, <3>3 DEF SetMapping, TypeOK, StoreTypeOK
    <3>5. ~InFlight(d, k)
      BY <3>1, <3>3 DEF InFlight, ApplyInv
    <3> QED BY <2>2, <3>4, <3>5
  <2>4. CASE RecordDelete
    <3>1. PICK j \in inflight : \E hash : SetMapping(di, j, hash, TRUE)
      BY <2>4 DEF RecordDelete
    <3>2. j \in Keys /\ di \in Dests
      BY <2>4 DEF RecordDelete, TypeOK
    <3>3. CASE d = di /\ k = j
      BY <2>4, <3>1, <3>3 DEF PurgeInv, RecordDelete
    <3>4. CASE ~(d = di /\ k = j)
      <4>1. mapping'[d][k] = mapping[d][k]
        BY <3>1, <3>2, <3>4 DEF SetMapping, TypeOK, StoreTypeOK
      <4>2. ~InFlight(d, k)
        BY <3>1, <3>4 DEF InFlight, ApplyInv
      <4> QED BY <2>2, <4>1, <4>2
    <3> QED BY <3>3, <3>4
  <2>5. CASE ~RecordPut /\ ~RecordDelete
    <3>1. mapping' = mapping
      BY <2>5, StoreSteps
    <3>2. ~InFlight(d, k)
      BY <2>5, InFlightIsRecorded DEF InFlight
    <3> QED BY <2>2, <3>1, <3>2
  <2> QED BY <2>3, <2>4, <2>5
<1> QED BY <1>1, <1>2, NextPurgeInv, TypeCorrect, ApplyInvariant, PTL DEF Spec

-----------------------------------------------------------------------------
(* The stored state.  Every failure that loses a part of a pass is recorded   *)
(* as the error of the connection, except that of an SQLite statement; a      *)
(* restart and a change of configuration forget it; and destinations that     *)
(* share a source share its stored state.                                     *)
ErrorsAreKept == FaultKinds \cap {"store", "crash"} = {} /\ Repointable = {}
OwnSources == \A d, e \in Dests : InitialSource[d] = InitialSource[e] => d = e

Applying == {"apply", "events", "recordPut", "recordDelete"}

(* The rows of destination d are those of the stored revision of its source.  *)
Applied(d) ==
    saved[srcOf[d]].etag # 0 =>
        ListMappings(d, srcOf[d]) =
            Publish(d, srcOf[d], source[srcOf[d]][saved[srcOf[d]].etag])

(* The data at hand are those of the ETag that is stored with them, and each  *)
(* row is that of the data or still to be visited.                            *)
AtHandInv ==
    /\ pc \in {"list", "get", "state"} => CalDAV(Src)
    /\ pc # "save" /\ pc \notin Applying => fetched.etag = 0
    /\ pc = "save" /\ fetched.etag # 0 =>
           fetched.etag \in 1..Rev(Src) /\ merged = source[Src][fetched.etag]
    /\ pc \in Applying /\ saved[Src].etag # 0 => merged = source[Src][saved[Src].etag]
    /\ pc \in Applying \ {"apply"} =>
           \A k \in Keys : k \in todo \cup gone \cup inflight \/ Existing[k] = Events[k]

StateInv ==
    /\ srcOf = InitialSource
    /\ \A s \in Sources : saved[s].etag \in 0..Rev(s)
    /\ AtHandInv
    /\ \A d \in Dests : connErr[d] \/ (d = di /\ pc \in Applying) \/ Applied(d)

(* Destinations other than the one at hand keep their rows, stored states and *)
(* errors; and so does the one at hand outside the loops.                     *)
LEMMA SameApplied ==
    ASSUME NEW d \in Dests, UNCHANGED <<source, mapping, srcOf>>,
           saved'[srcOf[d]] = saved[srcOf[d]]
    PROVE  Applied(d)' = Applied(d)
BY DEF Applied, ListMappings, Publish

(* Nothing is at hand between connections.                                    *)
LEMMA NothingAtHand ==
    ASSUME ResetFetch, pc' \in {"idle", "check"}
    PROVE  AtHandInv'
BY DEF ResetFetch, NoState, Applying, AtHandInv

(* A connection that ends in an error is flagged.                             *)
LEMMA ErrorStateInv ==
    ASSUME TypeOK, StateInv, di \in Dests, NEW first, ConnError(first),
           UNCHANGED <<source, storeVars, srcOf>>
    PROVE  StateInv'
<1>1. AtHandInv'
  BY NothingAtHand DEF ConnError, NextConnection
<1>2. srcOf' = InitialSource /\ \A s \in Sources : saved'[s].etag \in 0..Rev(s)'
  BY DEF StateInv, storeVars, Rev
<1>3. ASSUME NEW d \in Dests PROVE connErr'[d] \/ Applied(d)'
  <2>1. CASE d = di
    BY <2>1 DEF ConnError, TypeOK
  <2>2. CASE d # di
    BY <2>2, SameApplied DEF ConnError, TypeOK, StateInv, storeVars
  <2> QED BY <2>1, <2>2
<1> QED BY <1>1, <1>2, <1>3 DEF StateInv

(* A connection that ends, or never begins, with its rows in order.           *)
LEMMA NextStateInv ==
    ASSUME TypeOK, StateInv, di \in Dests, NextConnection, Applied(di) \/ pc \notin Applying,
           UNCHANGED <<source, storeVars, srcOf>>,
           \A d \in Dests : connErr'[d] = connErr[d] \/ (d = di /\ Applied(d))
    PROVE  StateInv'
<1>1. AtHandInv'
  BY NothingAtHand DEF NextConnection
<1>2. srcOf' = InitialSource /\ \A s \in Sources : saved'[s].etag \in 0..Rev(s)'
  BY DEF StateInv, storeVars, Rev
<1>3. ASSUME NEW d \in Dests PROVE connErr'[d] \/ Applied(d)'
  BY SameApplied DEF StateInv, storeVars
<1> QED BY <1>1, <1>2, <1>3 DEF StateInv

(* A step that has nothing to do with the rows or the stored states.          *)
LEMMA OutsideState ==
    ASSUME StateInv, AtHandInv', UNCHANGED <<source, storeVars, srcOf, connErr>>,
           pc \in Applying => pc' \in Applying /\ di' = di
    PROVE  StateInv'
BY SameApplied DEF StateInv, storeVars, Rev

(* A failed attempt of the fetch, which may end the connection.               *)
LEMMA AttemptStateInv ==
    ASSUME TypeOK, StateInv, AttemptFails, pc \in {"fetch", "list", "get"},
           UNCHANGED <<source, storeVars, srcOf>>
    PROVE  StateInv'
<1>1. CASE tries < MaxAttempts
  <2>1. pc' = "fetch" /\ UNCHANGED <<di, fetched, connErr>>
    BY <1>1 DEF AttemptFails, statusVars
  <2>2. AtHandInv' /\ pc \notin Applying
    BY <2>1 DEF AtHandInv, StateInv, Applying
  <2> QED BY <2>1, <2>2, OutsideState
<1>2. CASE ~(tries < MaxAttempts)
  <2>1. ConnError(TRUE) /\ di \in Dests
    BY <1>2 DEF AttemptFails, TypeOK, Steps
  <2> QED BY <2>1, ErrorStateInv
<1> QED BY <1>1, <1>2

(* The fetch up to the point where its state is stored.                       *)
LEMMA FetchStateInv ==
    ASSUME TypeOK, StateInv,
           \/ FetchPublicICS \/ Discover \/ ListCollection \/ ListingRefused
           \/ GetResource \/ SkipMalformed \/ EncodeMerged \/ FetchFails \/ ReadState
    PROVE  StateInv'
<1>1. pc \in {"fetch", "list", "get", "state"} /\ UNCHANGED <<source, storeVars, srcOf>>
  BY DEF FetchPublicICS, Discover, ListCollection, ListingRefused, GetResource, SkipMalformed,
         EncodeMerged, FetchFails, ReadState
<1>2. di \in Dests /\ Src \in Sources /\ fetched.etag = 0 /\ AtHandInv
  BY <1>1 DEF TypeOK, Steps, Src, StateInv, AtHandInv, Applying
<1>3. CalDAV(Src) => CurrentState(Src).etag = 0
  BY DEF CalDAV, CurrentState
<1>4. CASE AttemptFails
  <2>1. pc \in {"fetch", "list", "get"}
    BY <1>4, <1>1 DEF FetchPublicICS, Discover, ListCollection, ListingRefused, GetResource,
                      SkipMalformed, EncodeMerged, FetchFails, ReadState, AttemptFails, ConnError,
                      NextConnection
  <2> QED BY <1>1, <1>4, <2>1, AttemptStateInv
<1>5. CASE FetchPublicICS
  <2>1. /\ pc' = "save" /\ merged' = Now(Src) /\ fetched' = CurrentState(Src)
        /\ UNCHANGED <<di, connErr>>
    BY <1>5 DEF FetchPublicICS, statusVars
  <2>2. /\ CurrentState(Src).etag \in {0, Rev(Src)} /\ Rev(Src) \in 1..Rev(Src)
        /\ Src' = Src /\ Rev(Src)' = Rev(Src)
    BY <1>1, <1>2, <2>1, SourceAnswers DEF CurrentState, Src, Rev
  <2>3. AtHandInv'
    BY <1>1, <2>1, <2>2 DEF AtHandInv, Applying, Now
  <2> QED BY <1>1, <2>1, <2>3, OutsideState DEF Applying
<1>6. CASE ~AttemptFails /\ ~FetchPublicICS
  <2>1. UNCHANGED <<di, connErr>> /\ pc' \in {"list", "get", "state", "save"} /\ CalDAV(Src)
    BY <1>2, <1>6 DEF Discover, ListCollection, ListingRefused, GetResource, SkipMalformed,
                      EncodeMerged, FetchFails, ReadState, statusVars, AtHandInv
  <2>2. fetched'.etag = 0
    <3>1. fetched' \in {fetched, NoState, CurrentState(Src),
                        [NoState EXCEPT !.token = CurrentState(Src).token]}
      BY <1>6 DEF Discover, ListCollection, ListingRefused, GetResource, SkipMalformed,
                  EncodeMerged, FetchFails, ReadState, fetchVars
    <3>2. [NoState EXCEPT !.token = CurrentState(Src).token].etag = 0
      BY DEF NoState
    <3> QED BY <1>2, <1>3, <2>1, <3>1, <3>2 DEF NoState
  <2>3. CalDAV(Src)'
    BY <1>1, <2>1 DEF CalDAV, Src
  <2>4. AtHandInv'
    BY <2>1, <2>2, <2>3 DEF AtHandInv, Applying
  <2> QED BY <1>1, <2>1, <2>4, OutsideState DEF Applying
<1> QED BY <1>4, <1>5, <1>6

(* The state is stored together with the data it belongs to.                  *)
LEMMA SaveStateInv ==
    ASSUME ErrorsAreKept, OwnSources, TypeOK, StateInv, SaveState
    PROVE  StateInv'
<1>1. /\ pc = "save" /\ pc' = "apply" /\ SetSourceState(Src, fetched)
      /\ UNCHANGED <<source, mapping, srcOf, connErr, di, merged>>
  BY DEF SaveState, Fault, ErrorsAreKept, statusVars, fetchVars
<1>2. di \in Dests /\ Src \in Sources /\ Src' = Src
  BY <1>1 DEF TypeOK, Steps, Src
<1>3. saved'[Src] = fetched /\ \A s \in Sources \ {Src} : saved'[s] = saved[s]
  BY <1>1, <1>2 DEF SetSourceState, TypeOK, StoreTypeOK
<1>4. fetched.etag \in 0..Rev(Src) /\ (fetched.etag # 0 => merged = source[Src][fetched.etag])
  BY <1>1, <1>2, SourceAnswers DEF StateInv, AtHandInv
<1>5. \A s \in Sources : saved'[s].etag \in 0..Rev(s)'
  BY <1>1, <1>3, <1>4 DEF StateInv, Rev
<1>6. AtHandInv'
  BY <1>1, <1>2, <1>3, <1>4 DEF AtHandInv, Applying
<1>7. ASSUME NEW d \in Dests, d # di PROVE connErr'[d] \/ Applied(d)'
  <2>1. srcOf[d] \in Sources \ {Src}
    BY <1>2, <1>7 DEF OwnSources, StateInv, Src, TypeOK
  <2> QED BY <1>1, <1>3, <1>7, <2>1, SameApplied DEF StateInv
<1> QED BY <1>1, <1>5, <1>6, <1>7 DEF StateInv, Applying

(* The loops of syncDestination up to the recording of a row.                 *)
LEMMA LoopStateInv ==
    ASSUME TypeOK, ApplyInv, StateInv,
           BeginDestination \/ SkipUnchanged \/ PutEvent \/ DeleteEvent
    PROVE  StateInv'
<1>1. /\ pc \in Applying /\ pc' \in Applying \ {"apply"}
      /\ UNCHANGED <<source, storeVars, srcOf, connErr, di, merged>>
  BY DEF BeginDestination, SkipUnchanged, PutEvent, DeleteEvent, Applying, statusVars, fetchVars
<1>2. Src' = Src /\ Events' = Events /\ Existing' = Existing
  BY <1>1, SameEvents, SameExisting DEF Src, storeVars
<1>3. ASSUME NEW k \in Keys
      PROVE  k \in todo' \cup gone' \cup inflight' \/ Existing[k] = Events[k]
  <2>1. CASE BeginDestination
    BY <2>1 DEF BeginDestination
  <2>2. CASE ~BeginDestination
    <3>1. pc # "apply"
      BY <2>2 DEF SkipUnchanged, PutEvent, DeleteEvent
    <3>2. k \in todo \cup gone \cup inflight \/ Existing[k] = Events[k]
      BY <1>1, <3>1 DEF StateInv, AtHandInv
    <3>3. k \in inflight => FALSE
      BY <2>2 DEF ApplyInv, SkipUnchanged, PutEvent, DeleteEvent
    <3> QED BY <2>2, <3>2, <3>3 DEF SkipUnchanged, PutEvent, DeleteEvent, Changed
  <2> QED BY <2>1, <2>2
<1>4. AtHandInv'
  BY <1>1, <1>2, <1>3 DEF StateInv, AtHandInv, Applying, storeVars
<1> QED BY <1>1, <1>4, OutsideState

(* A recorded row is that of its event.                                       *)
LEMMA RecordStateInv ==
    ASSUME TypeOK, ApplyInv, GoneInv, StateInv, RecordPut \/ RecordDelete
    PROVE  StateInv'
<1>1. /\ pc \in Applying \ {"apply"} /\ pc' = "events"
      /\ UNCHANGED <<source, saved, srcOf, connErr, di, merged, todo, gone>>
  BY DEF RecordPut, RecordDelete, Applying, statusVars, fetchVars
<1>2. Src' = Src /\ Events' = Events /\ di \in Dests
  BY <1>1, SameEvents DEF Src, TypeOK, Applying, Steps
<1>3. PICK j, hash, flag :
        /\ j \in inflight
        /\ SetMapping(di, j, hash, flag)
        /\ \/ flag = FALSE /\ hash = Events[j] /\ Events[j] # NoEvent
           \/ flag = TRUE /\ Events[j] = NoEvent
  BY DEF RecordPut, RecordDelete, ApplyInv, GoneInv
<1>4. j \in Keys /\ inflight = {j}
  BY <1>3 DEF TypeOK, ApplyInv
<1>5. Existing'[j] = Events[j]
  <2>1. mapping'[di][j] = [hash |-> hash, deleted |-> flag]
    BY <1>2, <1>3, <1>4 DEF SetMapping, TypeOK, StoreTypeOK
  <2>2. Existing'[j] = IF j[1] = Src /\ ~mapping'[di][j].deleted
                       THEN mapping'[di][j].hash ELSE NoEvent
    BY <1>1, <1>2, <1>4 DEF Existing, ListMappings
  <2> QED BY <1>3, <1>4, <2>1, <2>2, OwnKeys
<1>6. \A d \in Dests, k \in Keys : d # di \/ k # j => mapping'[d][k] = mapping[d][k]
  BY <1>2, <1>3, <1>4 DEF SetMapping, TypeOK, StoreTypeOK
<1>7. ASSUME NEW k \in Keys
      PROVE  k \in todo' \cup gone' \cup inflight' \/ Existing'[k] = Events'[k]
  <2>1. CASE k = j
    BY <1>2, <1>5, <2>1
  <2>2. CASE k # j
    <3>1. Existing'[k] = Existing[k]
      BY <1>1, <1>2, <1>6, <2>2 DEF Existing, ListMappings
    <3>2. k \in todo \cup gone \/ Existing[k] = Events[k]
      BY <1>1, <1>4, <2>2 DEF StateInv, AtHandInv
    <3> QED BY <1>1, <1>2, <3>1, <3>2
  <2> QED BY <2>1, <2>2
<1>8. AtHandInv'
  BY <1>1, <1>2, <1>7 DEF StateInv, AtHandInv, Applying
<1>9. ASSUME NEW d \in Dests, d # di PROVE connErr'[d] \/ Applied(d)'
  <2>1. ListMappings(d, srcOf[d])' = ListMappings(d, srcOf[d])
    BY <1>1, <1>6, <1>9 DEF ListMappings
  <2> QED BY <1>1, <1>9, <2>1 DEF StateInv, Applied, Publish
<1>10. \A s \in Sources : saved'[s].etag \in 0..Rev(s)'
  BY <1>1 DEF StateInv, Rev
<1> QED BY <1>1, <1>8, <1>9, <1>10 DEF StateInv, Applying

(* When nothing is left to visit, the rows are those of the stored state.     *)
LEMMA EndStateInv ==
    ASSUME TypeOK, ApplyInv, StateInv, EndDestination
    PROVE  StateInv'
<1>1. /\ pc = "events" /\ todo = {} /\ gone = {} /\ inflight = {}
      /\ connErr' = [connErr EXCEPT ![di] = FALSE] /\ NextConnection
      /\ UNCHANGED <<source, storeVars, srcOf>>
  BY DEF EndDestination, ApplyInv
<1>2. di \in Dests
  BY <1>1 DEF TypeOK, Steps
<1>3. \A k \in Keys : Existing[k] = Events[k]
  BY <1>1 DEF StateInv, AtHandInv, Applying
<1>4. Existing = Events
  BY <1>3 DEF Existing, Events, ListMappings, Publish
<1>5. Applied(di)
  <2>1. saved[Src].etag # 0 => merged = source[Src][saved[Src].etag]
    BY <1>1 DEF StateInv, AtHandInv, Applying
  <2>2. ListMappings(di, Src) = Publish(di, Src, merged)
    BY <1>4 DEF Existing, Events
  <2> QED BY <2>1, <2>2 DEF Applied, Src
<1>6. \A d \in Dests : connErr'[d] = connErr[d] \/ (d = di /\ Applied(d))
  BY <1>1, <1>2, <1>5 DEF TypeOK
<1> QED BY <1>1, <1>2, <1>5, <1>6, NextStateInv

(* An edit adds a revision; the stored ones remain.                           *)
LEMMA EditStateInv ==
    ASSUME TypeOK, StateInv, NEW s \in Sources, OwnerEdits(s)
    PROVE  StateInv'
<1>1. UNCHANGED <<storeVars, srcOf, connErr, pc, di, fetched, merged, applyVars>>
  BY DEF OwnerEdits, statusVars, fetchVars
<1>2. ASSUME NEW t \in Sources
      PROVE  /\ \A r \in 1..Rev(t) : source'[t][r] = source[t][r] /\ r \in 1..Rev(t)'
             /\ 0..Rev(t) \subseteq 0..Rev(t)'
  <2>1. Len(source[t]) \in Nat
    BY SourceAnswers DEF Rev
  <2> QED BY <2>1, EditAddsRevision DEF OwnerEdits, Rev
<1>3. \A t \in Sources : saved'[t].etag \in 0..Rev(t)'
  BY <1>1, <1>2 DEF StateInv, storeVars
<1>4. \A t \in Sources : saved[t].etag # 0 => saved[t].etag \in 1..Rev(t)
  BY SourceAnswers DEF StateInv
<1>5. Src' = Src /\ Events' = Events /\ Existing' = Existing /\ (CalDAV(Src) => CalDAV(Src)')
  BY <1>1, SameEvents, SameExisting DEF Src, storeVars, CalDAV
<1>6. pc \in Applying \cup {"save"} => Src \in Sources
  BY DEF TypeOK, Steps, Src, Applying
<1>7. AtHandInv'
  BY <1>1, <1>2, <1>4, <1>5, <1>6 DEF StateInv, AtHandInv, applyVars, storeVars
<1>8. ASSUME NEW d \in Dests, Applied(d) PROVE Applied(d)'
  <2>1. srcOf[d] \in Sources
    BY DEF TypeOK
  <2>2. saved[srcOf[d]].etag # 0 =>
          source'[srcOf[d]][saved[srcOf[d]].etag] = source[srcOf[d]][saved[srcOf[d]].etag]
    BY <1>2, <1>4, <2>1
  <2> QED BY <1>1, <1>8, <2>2 DEF Applied, ListMappings, Publish, storeVars
<1> QED BY <1>1, <1>3, <1>7, <1>8 DEF StateInv

(* The invariant holds at first and every step keeps it.                      *)
LEMMA InitStateInv == Init => StateInv
<1> SUFFICES ASSUME Init PROVE StateInv
  OBVIOUS
<1>1. \A s \in Sources : saved[s].etag = 0
  BY DEF Init, StoreInit, NoState
<1>2. \A s \in Sources : Rev(s) \in Nat
  BY InitTypeOK, SourceAnswers
<1>3. AtHandInv
  BY DEF Init, AtHandInv, Applying, NoState
<1>4. \A d \in Dests : Applied(d)
  BY <1>1 DEF Applied, Init
<1> QED BY <1>1, <1>2, <1>3, <1>4 DEF StateInv, Init

LEMMA NextKeepsState ==
    ASSUME ErrorsAreKept, OwnSources
    PROVE  TypeOK /\ ApplyInv /\ GoneInv /\ StateInv /\ [Next]_vars => StateInv'
<1> SUFFICES ASSUME TypeOK, ApplyInv, GoneInv, StateInv, [Next]_vars PROVE StateInv'
  OBVIOUS
<1>0. AtHandInv
  BY DEF StateInv
<1>1. CASE StartSync \/ FinishSync
  <2>1. /\ UNCHANGED <<source, storeVars, srcOf, connErr, fetched>>
        /\ pc \in {"idle", "check"} /\ pc' \in {"idle", "check"}
    BY <1>1 DEF StartSync, FinishSync, fetchVars
  <2>2. AtHandInv'
    BY <1>0, <2>1 DEF AtHandInv, Applying
  <2> QED BY <2>1, <2>2, OutsideState DEF Applying
<1>2. CASE CheckSource \/ CheckMisled
  <2>1. PICK last, cur : Compare(last, cur)
    BY <1>2 DEF CheckSource, CheckMisled
  <2>2. pc = "check" /\ di \in Dests /\ UNCHANGED <<source, storeVars, srcOf, connErr>>
    BY <2>1 DEF Compare, statusVars
  <2>3. CASE HasChanged(last, cur)
    <3>1. pc' = "fetch" /\ UNCHANGED <<di, fetched>>
      BY <2>1, <2>3 DEF Compare
    <3>2. AtHandInv'
      BY <1>0, <2>2, <3>1 DEF AtHandInv, Applying
    <3> QED BY <2>2, <3>2, OutsideState DEF Applying
  <2>4. CASE ~HasChanged(last, cur)
    <3>1. NextConnection /\ pc \notin Applying
      BY <2>1, <2>2, <2>4 DEF Compare, Applying
    <3>2. \A d \in Dests : connErr'[d] = connErr[d]
      BY <2>2
    <3> QED BY <2>2, <3>1, <3>2, NextStateInv
  <2> QED BY <2>3, <2>4
<1>3. CASE CheckFails \/ FetchTimesOut \/ BeginFails \/ PutFails \/ RecordFails
  <2>1. di \in Dests
    BY <1>3 DEF CheckFails, FetchTimesOut, BeginFails, PutFails, RecordFails, TypeOK, Steps
  <2> QED BY <1>3, <2>1, ErrorStateInv
      DEF CheckFails, FetchTimesOut, BeginFails, PutFails, RecordFails
<1>4. CASE \/ FetchPublicICS \/ Discover \/ ListCollection \/ ListingRefused
           \/ GetResource \/ SkipMalformed \/ EncodeMerged \/ FetchFails \/ ReadState
  BY <1>4, FetchStateInv
<1>5. CASE SaveState
  BY <1>5, SaveStateInv
<1>6. CASE BeginDestination \/ SkipUnchanged \/ PutEvent \/ DeleteEvent
  BY <1>6, LoopStateInv
<1>7. CASE RecordPut \/ RecordDelete
  BY <1>7, RecordStateInv
<1>8. CASE EndDestination
  BY <1>8, EndStateInv
<1>9. ~SkipDeletion /\ ~Crash /\ ~\E d \in Dests, s \in Sources : ApplyConfig(d, s)
  BY DEF SkipDeletion, Crash, ApplyConfig, Fault, ErrorsAreKept
<1>10. ASSUME NEW s \in Sources, OwnerEdits(s) PROVE StateInv'
  BY <1>10, EditStateInv
<1>11. CASE UNCHANGED vars
  <2>1. UNCHANGED <<source, storeVars, srcOf, connErr, pc, di, fetched, merged, applyVars>>
    BY <1>11 DEF vars, statusVars, fetchVars
  <2>2. Src' = Src /\ Events' = Events /\ Existing' = Existing
    BY <2>1, SameEvents, SameExisting DEF Src, storeVars
  <2>3. AtHandInv'
    BY <1>0, <2>1, <2>2 DEF AtHandInv, CalDAV, Rev, applyVars, storeVars
  <2> QED BY <2>1, <2>3, OutsideState
<1> QED
  BY <1>1, <1>2, <1>3, <1>4, <1>5, <1>6, <1>7, <1>8, <1>9, <1>10, <1>11 DEF Next, Sync, Failure

(* Between two passes a destination whose connection shows no error holds     *)
(* what the source held at the stored ETag, however many passes, edits and    *)
(* failing requests there have been: a source that is skipped because its     *)
(* ETag is the stored one has been applied.                                   *)
THEOREM SkippedSourcesAreApplied ==
    ASSUME ErrorsAreKept, OwnSources
    PROVE  Spec => []StoredStateIsApplied
<1>1. StateInv => StoredStateIsApplied
  BY DEF StateInv, StoredStateIsApplied, Applied, Applying
<1> QED
  BY <1>1, InitStateInv, NextKeepsState, TypeCorrect, ApplyInvariant, GoneInvariant, PTL DEF Spec
=============================================================================
