---------------------------- MODULE SyncerProofs ----------------------------
(* Theorems about Syncer, for every set of sources, events and destinations,  *)
(* every kind of source, every kind and number of failures, any number of     *)
(* revisions and of attempts.                                                 *)
EXTENDS SyncerProperties, TLAPS

USE SourceAssumption, StoreAssumption, SyncerAssumption

-----------------------------------------------------------------------------
(* Type correctness                                                           *)

(* The empty state and the empty calendar are well typed.                     *)
LEMMA NoStateType == NoState \in State
BY DEF NoState, State

LEMMA EmptyCalendarType == EmptyCalendar \in Calendar
BY DEF EmptyCalendar, Calendar

(* What a source answers is well typed, and so is its current revision.       *)
LEMMA SourceAnswers ==
    ASSUME TypeOK, NEW s \in Sources
    PROVE  /\ Rev(s) \in 1..MaxRev
           /\ Rev(s) \in Nat
           /\ Now(s) \in Calendar
           /\ CurrentState(s) \in State
<1>1. source[s] \in Seq(Calendar) /\ Rev(s) \in 1..MaxRev
  BY DEF TypeOK
<1>2. Rev(s) \in Nat
  BY <1>1
<1>3. Now(s) \in Calendar
  BY <1>1 DEF Now, Rev
<1>4. CurrentState(s) \in State
  BY <1>2 DEF CurrentState, State
<1> QED BY <1>1, <1>2, <1>3, <1>4

(* The pipeline yields contents, or nothing.                                  *)
LEMMA PublishType ==
    ASSUME NEW d \in Dests, NEW s \in Sources, NEW cal \in Calendar
    PROVE  Publish(d, s, cal) \in [Keys -> Contents \cup {NoEvent}]
BY DEF Publish, Keys, Calendar

(* The first state of the process is well typed.                              *)
LEMMA InitTypeOK == Init => TypeOK
<1> SUFFICES ASSUME Init PROVE TypeOK
  OBVIOUS
<1>1. source \in [Sources -> Seq(Calendar)] /\ \A s \in Sources : Rev(s) \in 1..MaxRev
  <2>1. source \in [Sources -> {<<cal>> : cal \in Calendar}]
    BY DEF Init, SourceInit
  <2>2. ASSUME NEW s \in Sources
        PROVE  source[s] \in Seq(Calendar) /\ Len(source[s]) = 1
    <3>1. PICK cal \in Calendar : source[s] = <<cal>>
      BY <2>1
    <3> QED BY <3>1
  <2>3. 1 \in 1..MaxRev
    OBVIOUS
  <2> QED BY <2>1, <2>2, <2>3 DEF Rev
<1>2. StoreTypeOK
  BY DEF Init, StoreInit, StoreTypeOK, NoMapping, Row, NoState, State
<1>3. merged \in Calendar /\ fetched \in State
  BY NoStateType, EmptyCalendarType DEF Init
<1>4. /\ remote \in [Calendars -> [Keys -> Contents \cup {NoEvent}]]
      /\ srcOf \in [Dests -> Sources] /\ connErr \in [Dests -> BOOLEAN]
  BY DEF Init
<1>5. lastErr \in BOOLEAN /\ firstErr \in BOOLEAN /\ pc \in Steps
  BY DEF Init, Steps
<1>6. /\ di \in 1..(NDest + 1) /\ di \in Dests /\ token \in Nat
      /\ tries \in 1..MaxAttempts /\ asof \in 0..MaxRev /\ faults \in 0..MaxFaults
  BY DEF Init, Dests
<1>7. hrefs \subseteq Uids /\ todo \subseteq Keys /\ gone \subseteq Keys /\ inflight \subseteq Keys
  BY DEF Init
<1> QED BY <1>1, <1>2, <1>3, <1>4, <1>5, <1>6, <1>7 DEF TypeOK

-----------------------------------------------------------------------------
(* Type correctness is preserved.  The type invariant in four parts: what the *)
(* outside world and the store hold, the status, the pass, the failures.      *)

DataTypeOK ==
    /\ source \in [Sources -> Seq(Calendar)]
    /\ \A s \in Sources : Rev(s) \in 1..MaxRev
    /\ StoreTypeOK
    /\ remote \in [Calendars -> [Keys -> Contents \cup {NoEvent}]]
    /\ srcOf \in [Dests -> Sources]

StatusTypeOK ==
    /\ connErr \in [Dests -> BOOLEAN]
    /\ lastErr \in BOOLEAN /\ firstErr \in BOOLEAN

PassTypeOK ==
    /\ pc \in Steps
    /\ di \in 1..(NDest + 1)
    /\ pc \in Steps \ {"check"} => di \in Dests
    /\ token \in Nat
    /\ tries \in 1..MaxAttempts
    /\ hrefs \subseteq Uids
    /\ merged \in Calendar
    /\ fetched \in State
    /\ todo \subseteq Keys /\ gone \subseteq Keys /\ inflight \subseteq Keys
    /\ asof \in 0..MaxRev

FaultsTypeOK == faults \in 0..MaxFaults

(* The four parts make up the type invariant, before and after a step.        *)
LEMMA TypeParts ==
    /\ TypeOK <=> DataTypeOK /\ StatusTypeOK /\ PassTypeOK /\ FaultsTypeOK
    /\ TypeOK' <=> DataTypeOK' /\ StatusTypeOK' /\ PassTypeOK' /\ FaultsTypeOK'
BY DEF TypeOK, DataTypeOK, StatusTypeOK, PassTypeOK, FaultsTypeOK

(* Each part is kept by a step that leaves its variables alone.               *)
LEMMA SameData ==
    ASSUME DataTypeOK, UNCHANGED <<source, storeVars, remote, srcOf>>
    PROVE  DataTypeOK'
BY DEF DataTypeOK, StoreTypeOK, storeVars, Rev

LEMMA SameStatus == ASSUME StatusTypeOK, UNCHANGED statusVars PROVE StatusTypeOK'
BY DEF StatusTypeOK, statusVars

(* A failure stays within the bound on failures.                              *)
LEMMA FaultType == ASSUME FaultsTypeOK, NEW kind, Fault(kind) PROVE FaultsTypeOK'
BY DEF FaultsTypeOK, Fault

LEMMA TwoFaultsType ==
    ASSUME FaultsTypeOK, NEW kind, NEW other, TwoFaults(kind, other)
    PROVE  FaultsTypeOK'
BY SyncerAssumption DEF FaultsTypeOK, TwoFaults

LEMMA SameFaults == ASSUME FaultsTypeOK, UNCHANGED faults PROVE FaultsTypeOK'
BY DEF FaultsTypeOK

(* Going on to the next connection, with or without an error, keeps the type  *)
(* of the pass; so does a failed attempt of retry.Do.                         *)
LEMMA NextConnectionType ==
    ASSUME PassTypeOK, di \in Dests, NextConnection
    PROVE  PassTypeOK'
<1>1. merged' \in Calendar /\ fetched' \in State
  BY NoStateType, EmptyCalendarType DEF NextConnection, ResetFetch
<1>2. pc' = "check" /\ pc' \in Steps /\ di' \in 1..(NDest + 1)
  BY DEF NextConnection, Steps, Dests
<1> QED BY <1>1, <1>2 DEF PassTypeOK, NextConnection, ResetFetch, ResetApply

LEMMA ConnErrorType ==
    ASSUME StatusTypeOK, PassTypeOK, di \in Dests, NEW first \in BOOLEAN, ConnError(first)
    PROVE  StatusTypeOK' /\ PassTypeOK'
<1>1. PassTypeOK'
  BY NextConnectionType DEF ConnError
<1>2. connErr' \in [Dests -> BOOLEAN] /\ lastErr' \in BOOLEAN
  BY DEF StatusTypeOK, ConnError
<1>3. firstErr' \in BOOLEAN
  BY DEF StatusTypeOK, ConnError
<1> QED BY <1>1, <1>2, <1>3 DEF StatusTypeOK

LEMMA AttemptFailsType ==
    ASSUME StatusTypeOK, PassTypeOK, di \in Dests, AttemptFails
    PROVE  StatusTypeOK' /\ PassTypeOK'
<1>1. CASE tries < MaxAttempts
  <2>1. StatusTypeOK'
    BY <1>1, SameStatus DEF AttemptFails
  <2>2. tries' \in 1..MaxAttempts /\ pc' \in Steps
    BY <1>1 DEF AttemptFails, PassTypeOK, Steps
  <2>3. PassTypeOK'
    BY <1>1, <2>2, EmptyCalendarType DEF AttemptFails, PassTypeOK, applyVars
  <2> QED BY <2>1, <2>3
<1>2. CASE ~(tries < MaxAttempts)
  BY <1>2, ConnErrorType DEF AttemptFails
<1> QED BY <1>1, <1>2

(* Every step of the specification keeps the types.                           *)
LEMMA NextTypeOK == TypeOK /\ [Next]_vars => TypeOK'
<1> SUFFICES ASSUME TypeOK, [Next]_vars PROVE TypeOK'
  OBVIOUS
<1> USE TypeParts
<1>a. DataTypeOK /\ StatusTypeOK /\ PassTypeOK /\ FaultsTypeOK
  OBVIOUS
<1>b. di \in Dests => Src \in Sources
  BY DEF TypeOK, Src
<1>c. pc # "check" => di \in Dests
  BY DEF TypeOK
<1>1. CASE StartSync
  <2>1. PassTypeOK'
    BY <1>1, <1>a DEF StartSync, PassTypeOK, Steps, Dests, fetchVars, applyVars
  <2>2. StatusTypeOK'
    BY <1>1, <1>a DEF StartSync, StatusTypeOK
  <2> QED BY <1>1, <1>a, <2>1, <2>2, SameData, SameFaults DEF StartSync
<1>2. ASSUME NEW last, NEW cur \in State, Compare(last, cur)
      PROVE  DataTypeOK' /\ StatusTypeOK' /\ PassTypeOK'
  <2>1. DataTypeOK' /\ StatusTypeOK'
    BY <1>2, <1>a, SameData, SameStatus DEF Compare
  <2>2. CASE HasChanged(last, cur)
    <3>1. Rev(Src) \in 1..MaxRev
      BY <1>2, <1>b, SourceAnswers DEF Compare
    <3>2. cur.token \in Nat
      BY DEF State
    <3>3. pc' = "fetch" /\ token' = cur.token /\ asof' = Rev(Src) /\ di' = di /\ di \in Dests
          /\ UNCHANGED <<tries, hrefs, merged, fetched, todo, gone, inflight>>
      BY <1>2, <2>2 DEF Compare, applyVars
    <3>4. PassTypeOK'
      BY <3>1, <3>2, <3>3, <1>a DEF PassTypeOK, Steps
    <3> QED BY <2>1, <3>4
  <2>3. CASE ~HasChanged(last, cur)
    BY <1>2, <2>1, <2>3, <1>a, NextConnectionType DEF Compare
  <2> QED BY <2>2, <2>3
<1>3. CASE CheckSource
  <2>1. CurrentState(Src) \in State
    BY <1>3, <1>b, SourceAnswers DEF CheckSource, Compare
  <2> QED BY <1>3, <2>1, <1>2, <1>a, SameFaults DEF CheckSource
<1>4. CASE CheckMisled
  <2>1. CurrentState(Src) \in State /\ NoState \in State
    BY <1>4, <1>b, SourceAnswers, NoStateType DEF CheckMisled, Compare
  <2>2. CASE Compare(NoState, CurrentState(Src)) /\ Fault("store")
    BY <2>1, <2>2, <1>2, <1>a, FaultType
  <2>3. CASE Compare(saved[Src], NoState) /\ Fault("status")
    BY <2>1, <2>3, <1>2, <1>a, FaultType
  <2>4. CASE Compare(NoState, NoState) /\ TwoFaults("store", "status")
    BY <2>1, <2>4, <1>2, <1>a, TwoFaultsType
  <2> QED BY <1>4, <2>2, <2>3, <2>4 DEF CheckMisled
<1>5. CASE CheckFails
  BY <1>5, <1>a, ConnErrorType, SameData, FaultType DEF CheckFails
<1>6. CASE FetchPublicICS
  <2>1. Now(Src) \in Calendar /\ CurrentState(Src) \in State
    BY <1>6, <1>b, <1>c, SourceAnswers DEF FetchPublicICS
  <2>2. PassTypeOK'
    BY <1>6, <2>1, <1>a, <1>c DEF FetchPublicICS, PassTypeOK, Steps, applyVars
  <2> QED BY <1>6, <2>2, <1>a, SameData, SameStatus, SameFaults DEF FetchPublicICS
<1>7. CASE Discover
  <2>1. CurrentState(Src) \in State /\ ReportHrefs(Src, token) \subseteq Uids
        /\ Present(Now(Src)) \subseteq Uids
    BY <1>7, <1>b, <1>c, SourceAnswers DEF Discover, ReportHrefs, Present
  <2>2. fetched' \in State
    BY <1>7, <2>1, <1>a DEF Discover, PassTypeOK, NoState, State
  <2>3. hrefs' \subseteq Uids /\ pc' \in Steps
    BY <1>7, <2>1 DEF Discover, Steps
  <2>4. PassTypeOK'
    BY <1>7, <2>2, <2>3, <1>a, <1>c DEF Discover, PassTypeOK, applyVars
  <2> QED BY <1>7, <2>4, <1>a, SameData, SameStatus, SameFaults DEF Discover
<1>8. CASE ListCollection
  <2>1. PassTypeOK'
    BY <1>8, <1>a, <1>c DEF ListCollection, PassTypeOK, Steps, applyVars, Present
  <2> QED BY <1>8, <2>1, <1>a, SameData, SameStatus, SameFaults DEF ListCollection
<1>9. CASE GetResource
  <2>1. DataTypeOK' /\ FaultsTypeOK'
    BY <1>9, <1>a, SameData, SameFaults DEF GetResource
  <2>2. PICK u \in hrefs :
          IF Now(Src)[u] # NoEvent
            THEN /\ merged' = [merged EXCEPT ![u] = Now(Src)[u]]
                 /\ hrefs' = hrefs \ {u}
                 /\ UNCHANGED <<pc, di, token, tries, fetched, asof, applyVars, statusVars>>
            ELSE AttemptFails
    BY <1>9 DEF GetResource
  <2>3. CASE Now(Src)[u] # NoEvent
    <3>1. Now(Src)[u] \in Contents \cup {NoEvent}
      BY <1>9, <1>a, <1>b, <1>c, SourceAnswers DEF GetResource, PassTypeOK, Calendar
    <3>2. merged' \in Calendar
      BY <2>2, <2>3, <3>1, <1>a DEF PassTypeOK, Calendar
    <3>3. PassTypeOK' /\ StatusTypeOK'
      BY <2>2, <2>3, <3>2, <1>a, SameStatus DEF PassTypeOK, applyVars
    <3> QED BY <2>1, <3>3
  <2>4. CASE ~(Now(Src)[u] # NoEvent)
    <3>1. AttemptFails /\ di \in Dests
      BY <1>9, <2>2, <2>4, <1>c DEF GetResource
    <3> QED BY <2>1, <3>1, <1>a, AttemptFailsType
  <2> QED BY <2>3, <2>4
<1>10. CASE EncodeMerged
  <2>1. DataTypeOK' /\ FaultsTypeOK'
    BY <1>10, <1>a, SameData, SameFaults DEF EncodeMerged
  <2>2. CASE merged = EmptyCalendar
    <3>1. AttemptFails /\ di \in Dests
      BY <1>10, <2>2, <1>c DEF EncodeMerged
    <3> QED BY <2>1, <3>1, <1>a, AttemptFailsType
  <2>3. CASE merged # EmptyCalendar
    <3>1. StatusTypeOK'
      BY <1>10, <2>3, <1>a, SameStatus DEF EncodeMerged
    <3>2. PassTypeOK'
      BY <1>10, <2>3, <1>a, <1>c DEF EncodeMerged, PassTypeOK, Steps, fetchVars, applyVars
    <3> QED BY <2>1, <3>1, <3>2
  <2> QED BY <2>2, <2>3
<1>11. CASE FetchFails
  <2>1. AttemptFails /\ di \in Dests
    BY <1>11, <1>c DEF FetchFails
  <2> QED BY <1>11, <2>1, <1>a, AttemptFailsType, SameData, FaultType DEF FetchFails
<1>12. CASE ReadState
  <2>1. fetched' \in State
    BY <1>12, <1>a, <1>b, <1>c, SourceAnswers, NoStateType DEF ReadState, PassTypeOK
  <2>2. PassTypeOK'
    BY <1>12, <2>1, <1>a, <1>c DEF ReadState, PassTypeOK, Steps, applyVars
  <2>3. FaultsTypeOK'
    BY <1>12, <1>a, FaultType, SameFaults DEF ReadState
  <2> QED BY <1>12, <2>2, <2>3, <1>a, SameData, SameStatus DEF ReadState
<1>13. CASE SaveState
  <2>1. saved' \in [Sources -> State]
    BY <1>13, <1>a, <1>b, <1>c DEF SaveState, SetSourceState, PassTypeOK, DataTypeOK, StoreTypeOK
  <2>2. DataTypeOK'
    BY <1>13, <2>1, <1>a DEF SaveState, DataTypeOK, StoreTypeOK, Rev
  <2>3. PassTypeOK'
    BY <1>13, <1>a, <1>c DEF SaveState, PassTypeOK, Steps, fetchVars, applyVars
  <2>4. FaultsTypeOK'
    BY <1>13, <1>a, FaultType, SameFaults DEF SaveState
  <2> QED BY <1>13, <2>2, <2>3, <2>4, <1>a, SameStatus DEF SaveState
<1>14. CASE BeginDestination
  <2>1. PassTypeOK'
    BY <1>14, <1>a, <1>c DEF BeginDestination, PassTypeOK, Steps, fetchVars
  <2> QED BY <1>14, <2>1, <1>a, SameData, SameStatus, SameFaults DEF BeginDestination
<1>15. CASE BeginFails
  <2>1. StatusTypeOK' /\ PassTypeOK'
    BY <1>15, <1>a, <1>c, ConnErrorType DEF BeginFails
  <2>2. FaultsTypeOK'
    BY <1>15, <1>a, FaultType DEF BeginFails
  <2> QED BY <1>15, <2>1, <2>2, <1>a, SameData DEF BeginFails
<1>d. pc # "check" => Events \in [Keys -> Contents \cup {NoEvent}]
  BY <1>a, <1>b, <1>c, PublishType DEF Events, PassTypeOK
<1>e. ASSUME NEW k \in Keys, NEW c \in Contents \cup {NoEvent}, RemoteWrite(k, c), di \in Dests
      PROVE  remote' \in [Calendars -> [Keys -> Contents \cup {NoEvent}]]
  BY <1>e, <1>a DEF RemoteWrite, DataTypeOK
<1>16. CASE PutEvent
  <2>1. PICK k \in todo : RemoteWrite(k, Events[k]) /\ todo' = todo \ {k} /\ inflight' = {k}
    BY <1>16 DEF PutEvent, Changed
  <2>2. k \in Keys /\ Events[k] \in Contents \cup {NoEvent}
    BY <1>16, <1>a, <1>d DEF PutEvent, PassTypeOK
  <2>3. remote' \in [Calendars -> [Keys -> Contents \cup {NoEvent}]]
    BY <1>16, <2>1, <2>2, <1>c, <1>e DEF PutEvent
  <2>4. DataTypeOK'
    BY <1>16, <2>3, <1>a DEF PutEvent, DataTypeOK, StoreTypeOK, storeVars, Rev
  <2>5. PassTypeOK'
    BY <1>16, <2>1, <2>2, <1>a, <1>c DEF PutEvent, PassTypeOK, Steps, fetchVars
  <2> QED BY <1>16, <2>4, <2>5, <1>a, SameStatus, SameFaults DEF PutEvent
<1>17. CASE PutFails
  <2>1. StatusTypeOK' /\ PassTypeOK'
    BY <1>17, <1>a, <1>c, ConnErrorType DEF PutFails
  <2>2. FaultsTypeOK'
    BY <1>17, <1>a, FaultType DEF PutFails
  <2>3. \A k \in Changed : k \in Keys /\ Events[k] \in Contents \cup {NoEvent}
    BY <1>17, <1>a, <1>d DEF PutFails, PassTypeOK, Changed
  <2>4. UNCHANGED remote \/ \E k \in Changed : RemoteWrite(k, Events[k])
    BY <1>17 DEF PutFails
  <2>5. remote' \in [Calendars -> [Keys -> Contents \cup {NoEvent}]]
    BY <1>17, <2>3, <2>4, <1>a, <1>c, <1>e DEF PutFails, DataTypeOK
  <2>6. DataTypeOK'
    BY <1>17, <2>5, <1>a DEF PutFails, DataTypeOK, StoreTypeOK, storeVars, Rev
  <2> QED BY <2>1, <2>2, <2>6
<1>f. ASSUME NEW k \in Keys, NEW h \in Contents \cup {NoEvent}, NEW b \in BOOLEAN,
             SetMapping(di, k, h, b), di \in Dests,
             UNCHANGED <<source, saved, remote, srcOf>>
      PROVE  DataTypeOK'
  <2>1. [hash |-> h, deleted |-> b] \in Row
    BY DEF Row
  <2>2. mapping' \in [Dests -> [Keys -> Row]]
    BY <1>f, <2>1, <1>a DEF SetMapping, DataTypeOK, StoreTypeOK
  <2> QED BY <1>f, <2>2, <1>a DEF DataTypeOK, StoreTypeOK, Rev
<1>18. CASE RecordPut
  <2>1. PICK k \in inflight : SetMapping(di, k, Events[k], FALSE)
    BY <1>18 DEF RecordPut
  <2>2. k \in Keys /\ Events[k] \in Contents \cup {NoEvent}
    BY <1>18, <1>a, <1>d DEF RecordPut, PassTypeOK
  <2>3. DataTypeOK'
    BY <1>18, <2>1, <2>2, <1>c, <1>f DEF RecordPut
  <2>4. PassTypeOK'
    BY <1>18, <1>a, <1>c DEF RecordPut, PassTypeOK, Steps, fetchVars
  <2> QED BY <1>18, <2>3, <2>4, <1>a, SameStatus, SameFaults DEF RecordPut
<1>19. CASE RecordFails
  BY <1>19, <1>a, <1>c, ConnErrorType, SameData, FaultType DEF RecordFails
<1>20. CASE DeleteEvent
  <2>1. PICK k \in gone :
          /\ gone' = gone \ {k} /\ inflight' = {k}
          /\ \/ DeleteMode = "soft" /\ UNCHANGED <<remote, faults>>
             \/ DeleteMode = "hard" /\ RemoteWrite(k, NoEvent) /\ UNCHANGED faults
             \/ DeleteMode = "hard" /\ UNCHANGED remote /\ Fault("delete")
    BY <1>20 DEF DeleteEvent
  <2>2. k \in Keys
    BY <1>a DEF PassTypeOK
  <2>3. remote' \in [Calendars -> [Keys -> Contents \cup {NoEvent}]]
    BY <1>20, <2>1, <2>2, <1>a, <1>c, <1>e DEF DeleteEvent, DataTypeOK
  <2>4. DataTypeOK'
    BY <1>20, <2>3, <1>a DEF DeleteEvent, DataTypeOK, StoreTypeOK, storeVars, Rev
  <2>5. PassTypeOK'
    BY <1>20, <2>1, <2>2, <1>a, <1>c DEF DeleteEvent, PassTypeOK, Steps, fetchVars
  <2>6. FaultsTypeOK'
    BY <2>1, <1>a, FaultType, SameFaults
  <2> QED BY <1>20, <2>4, <2>5, <2>6, <1>a, SameStatus DEF DeleteEvent
<1>21. CASE SkipDeletion
  <2>1. PassTypeOK'
    BY <1>21, <1>a DEF SkipDeletion, PassTypeOK, fetchVars
  <2> QED BY <1>21, <2>1, <1>a, SameData, SameStatus, FaultType DEF SkipDeletion
<1>22. CASE RecordDelete
  <2>1. PICK k \in inflight : SetMapping(di, k, Existing[k], TRUE)
    BY <1>22 DEF RecordDelete
  <2>2. k \in Keys /\ Existing[k] \in Contents \cup {NoEvent}
    BY <1>22, <1>a, <1>c DEF RecordDelete, PassTypeOK, Existing, ListMappings, DataTypeOK,
                             StoreTypeOK, Row
  <2>3. DataTypeOK'
    BY <1>22, <2>1, <2>2, <1>c, <1>f DEF RecordDelete
  <2>4. PassTypeOK'
    BY <1>22, <1>a, <1>c DEF RecordDelete, PassTypeOK, Steps, fetchVars
  <2> QED BY <1>22, <2>3, <2>4, <1>a, SameStatus, SameFaults DEF RecordDelete
<1>23. CASE EndDestination
  <2>1. PassTypeOK'
    BY <1>23, <1>a, <1>c, NextConnectionType DEF EndDestination
  <2>2. StatusTypeOK'
    BY <1>23, <1>a DEF EndDestination, StatusTypeOK
  <2> QED BY <1>23, <2>1, <2>2, <1>a, SameData, SameFaults DEF EndDestination
<1>24. CASE FinishSync
  <2>1. PassTypeOK'
    BY <1>24, <1>a DEF FinishSync, PassTypeOK, Steps, Dests, fetchVars, applyVars
  <2>2. StatusTypeOK'
    BY <1>24, <1>a DEF FinishSync, StatusTypeOK
  <2> QED BY <1>24, <2>1, <2>2, <1>a, SameData, SameFaults DEF FinishSync
<1>g. ASSUME NewSyncer PROVE PassTypeOK' /\ StatusTypeOK'
  <2>1. merged' \in Calendar /\ fetched' \in State
    BY <1>g, NoStateType, EmptyCalendarType DEF NewSyncer, ResetFetch
  <2>2. PassTypeOK'
    BY <1>g, <2>1 DEF NewSyncer, ResetFetch, ResetApply, PassTypeOK, Steps, Dests
  <2>3. StatusTypeOK'
    BY <1>g DEF NewSyncer, StatusTypeOK
  <2> QED BY <2>2, <2>3
<1>25. CASE Crash
  BY <1>25, <1>a, <1>g, SameData, FaultType DEF Crash
<1>26. ASSUME NEW d \in Dests, NEW s \in Sources, ApplyConfig(d, s) PROVE TypeOK'
  <2>1. DataTypeOK'
    BY <1>26, <1>a DEF ApplyConfig, DataTypeOK, StoreTypeOK, storeVars, Rev
  <2> QED BY <1>26, <2>1, <1>a, <1>g, SameFaults DEF ApplyConfig
<1>27. ASSUME NEW s \in Sources, OwnerEdits(s) PROVE TypeOK'
  <2>1. PICK u \in Uids, c \in Contents \cup {NoEvent} :
          source' = [source EXCEPT ![s] = Append(@, [Now(s) EXCEPT ![u] = c])]
    BY <1>27 DEF OwnerEdits, EditSource
  <2>2. Now(s) \in Calendar /\ Rev(s) \in Nat /\ Rev(s) < MaxRev
    BY <1>27, SourceAnswers DEF OwnerEdits, EditSource
  <2>3. [Now(s) EXCEPT ![u] = c] \in Calendar
    BY <2>2 DEF Calendar
  <2>4. source[s] \in Seq(Calendar) /\ source \in [Sources -> Seq(Calendar)]
    BY <1>a DEF DataTypeOK
  <2>5. source'[s] \in Seq(Calendar) /\ Len(source'[s]) = Len(source[s]) + 1
    BY <2>1, <2>3, <2>4
  <2>6. source' \in [Sources -> Seq(Calendar)]
    BY <2>1, <2>4, <2>5
  <2>7. \A t \in Sources : Rev(t)' \in 1..MaxRev
    <3>1. ASSUME NEW t \in Sources, t # s PROVE source'[t] = source[t]
      BY <2>1, <2>4, <3>1
    <3>2. Rev(s)' \in 1..MaxRev
      BY <2>2, <2>5, <1>a DEF Rev, DataTypeOK
    <3> QED BY <3>1, <3>2, <1>a DEF Rev, DataTypeOK
  <2>8. DataTypeOK'
    BY <1>27, <2>6, <2>7, <1>a DEF OwnerEdits, DataTypeOK, StoreTypeOK, storeVars
  <2>9. PassTypeOK'
    BY <1>27, <1>a DEF OwnerEdits, PassTypeOK, fetchVars, applyVars
  <2> QED BY <1>27, <2>8, <2>9, <1>a, SameStatus, SameFaults DEF OwnerEdits
<1>28. CASE SkipUnchanged
  <2>1. PassTypeOK'
    BY <1>28, <1>a DEF SkipUnchanged, PassTypeOK, fetchVars
  <2> QED BY <1>28, <2>1, <1>a, SameData, SameStatus, SameFaults DEF SkipUnchanged
<1>29. CASE ListingRefused
  <2>1. fetched' \in State
    BY <1>29, <1>a, NoStateType DEF ListingRefused, PassTypeOK
  <2>2. PassTypeOK'
    BY <1>29, <2>1, <1>a, <1>c DEF ListingRefused, PassTypeOK, Steps, applyVars
  <2> QED BY <1>29, <2>2, <1>a, SameData, SameStatus, FaultType DEF ListingRefused
<1>30. CASE SkipMalformed
  <2>1. PassTypeOK'
    BY <1>30, <1>a DEF SkipMalformed, PassTypeOK, applyVars
  <2> QED BY <1>30, <2>1, <1>a, SameData, SameStatus, FaultType DEF SkipMalformed
<1>31. CASE FetchTimesOut
  BY <1>31, <1>a, <1>c, ConnErrorType, SameData, FaultType DEF FetchTimesOut
<1>32. CASE UNCHANGED vars
  <2>1. PassTypeOK'
    BY <1>32, <1>a DEF vars, PassTypeOK, fetchVars, applyVars
  <2> QED BY <1>32, <2>1, <1>a, SameData, SameStatus, SameFaults DEF vars
<1> QED
  BY <1>1, <1>3, <1>4, <1>5, <1>6, <1>7, <1>8, <1>9, <1>10, <1>11, <1>12, <1>13, <1>14,
     <1>15, <1>16, <1>17, <1>18, <1>19, <1>20, <1>21, <1>22, <1>23, <1>24, <1>25, <1>26,
     <1>27, <1>28, <1>29, <1>30, <1>31, <1>32
  DEF Next, Sync, Failure

(* The Go code has no way to leave its types; the model of a pass has: a      *)
(* retry counter that runs away, an index beyond the destinations, a source   *)
(* state that is no state.                                                    *)
THEOREM TypeCorrect == Spec => []TypeOK
<1>1. Init => TypeOK
  BY InitTypeOK
<1>2. TypeOK /\ [Next]_vars => TypeOK'
  BY NextTypeOK
<1> QED BY <1>1, <1>2, PTL DEF Spec

-----------------------------------------------------------------------------
(* What is under way in syncDestination.  While events are written and rows   *)
(* are marked, the keys at hand are those of the events fetched or of the     *)
(* active rows listed, and what is recorded is what has been written.         *)
ApplyInv ==
    /\ pc \notin {"events", "recordPut", "recordDelete"} =>
           todo = {} /\ gone = {} /\ inflight = {}
    /\ pc = "events" => inflight = {}
    /\ \A j, k \in inflight : j = k
    /\ \A k \in todo : Events[k] # NoEvent
    /\ \A k \in gone : Existing[k] # NoEvent
    /\ pc = "recordPut" =>
           \A k \in inflight : Events[k] # NoEvent /\ remote[CalendarOf[di]][k] = Events[k]
    /\ pc = "recordDelete" =>
           \A k \in inflight : Existing[k] # NoEvent /\ k \notin gone

(* Nothing is under way once the loops of syncDestination are left.           *)
LEMMA IdleApply == ASSUME ResetApply PROVE ApplyInv'
BY DEF ResetApply, ApplyInv

LEMMA IdleConnError == ASSUME NEW first, ConnError(first) PROVE ApplyInv'
BY IdleApply DEF ConnError, NextConnection

(* A step outside the two loops that leaves their state alone.                *)
LEMMA OutsideApply ==
    ASSUME ApplyInv, UNCHANGED applyVars, pc \notin {"events", "recordPut", "recordDelete"}
    PROVE  ApplyInv'
BY DEF ApplyInv, applyVars

(* The events and the listed rows depend on the connection at hand only.      *)
LEMMA SameEvents == ASSUME UNCHANGED <<di, srcOf, merged>> PROVE Events' = Events
BY DEF Events, Publish, Src

LEMMA SameExisting == ASSUME UNCHANGED <<di, srcOf, mapping>> PROVE Existing' = Existing
BY DEF Existing, ListMappings, Src

(* The rows change only when a row is recorded, the remote calendars only by  *)
(* a PUT or a DELETE.                                                         *)
LEMMA StoreSteps == [Next]_vars => mapping' = mapping \/ RecordPut \/ RecordDelete
BY DEF Next, Sync, Failure, vars, storeVars, StartSync, CheckSource, CheckMisled, Compare,
       CheckFails, FetchPublicICS, Discover, ListCollection, GetResource, EncodeMerged,
       FetchFails, ReadState, SaveState, BeginDestination, BeginFails, PutEvent, PutFails,
       RecordFails, DeleteEvent, SkipDeletion, EndDestination, FinishSync, Crash,
       ApplyConfig, OwnerEdits, SkipUnchanged, ListingRefused, SkipMalformed, FetchTimesOut

LEMMA RemoteSteps == [Next]_vars => remote' = remote \/ PutEvent \/ PutFails \/ DeleteEvent
BY DEF Next, Sync, Failure, vars, StartSync, CheckSource, CheckMisled, Compare,
       CheckFails, FetchPublicICS, Discover, ListCollection, GetResource, EncodeMerged,
       FetchFails, ReadState, SaveState, BeginDestination, BeginFails, RecordPut,
       RecordFails, RecordDelete, SkipDeletion, EndDestination, FinishSync, Crash,
       ApplyConfig, OwnerEdits, SkipUnchanged, ListingRefused, SkipMalformed, FetchTimesOut

(* The invariant holds at first and every step keeps it.                      *)
LEMMA InitApplyInv == Init => ApplyInv
BY DEF Init, ApplyInv

LEMMA NextApplyInv == TypeOK /\ ApplyInv /\ [Next]_vars => ApplyInv'
<1> SUFFICES ASSUME TypeOK, ApplyInv, [Next]_vars PROVE ApplyInv'
  OBVIOUS
<1>1. CASE StartSync
  BY <1>1, OutsideApply DEF StartSync
<1>2. ASSUME NEW last, NEW cur, Compare(last, cur) PROVE ApplyInv'
  BY <1>2, OutsideApply, IdleApply DEF Compare, NextConnection
<1>3. CASE CheckSource \/ CheckMisled
  BY <1>2, <1>3 DEF CheckSource, CheckMisled
<1>4. CASE CheckFails \/ FetchTimesOut \/ BeginFails \/ PutFails \/ RecordFails
  BY <1>4, IdleConnError DEF CheckFails, FetchTimesOut, BeginFails, PutFails, RecordFails
<1>5. CASE \/ FetchPublicICS \/ Discover \/ ListCollection \/ ListingRefused
          \/ SkipMalformed \/ ReadState \/ SaveState
  BY <1>5, OutsideApply
  DEF FetchPublicICS, Discover, ListCollection, ListingRefused, SkipMalformed, ReadState, SaveState
<1>6. ASSUME AttemptFails, pc \notin {"events", "recordPut", "recordDelete"} PROVE ApplyInv'
  BY <1>6, OutsideApply, IdleConnError DEF AttemptFails
<1>7. CASE GetResource
  BY <1>6, <1>7, OutsideApply DEF GetResource
<1>8. CASE EncodeMerged \/ FetchFails
  BY <1>6, <1>8, OutsideApply DEF EncodeMerged, FetchFails
<1>9. CASE BeginDestination
  <2>1. Events' = Events /\ Existing' = Existing
    BY <1>9, SameEvents, SameExisting DEF BeginDestination, fetchVars, storeVars
  <2>2. inflight' = {} /\ pc' = "events"
    BY <1>9 DEF BeginDestination, ApplyInv
  <2>3. /\ todo' = {k \in Keys : Events[k] # NoEvent}
        /\ gone' = {k \in Keys : Events[k] = NoEvent /\ Existing[k] # NoEvent}
    BY <1>9 DEF BeginDestination
  <2> QED BY <2>1, <2>2, <2>3 DEF ApplyInv
<1>10. CASE PutEvent
  <2>1. Events' = Events /\ Existing' = Existing
    BY <1>10, SameEvents, SameExisting DEF PutEvent, fetchVars, storeVars
  <2>2. PICK k \in todo : RemoteWrite(k, Events[k]) /\ todo' = todo \ {k} /\ inflight' = {k}
    BY <1>10 DEF PutEvent, Changed
  <2>3. pc' = "recordPut" /\ di' = di /\ gone' = gone /\ di \in Dests /\ k \in Keys
    BY <1>10 DEF PutEvent, TypeOK
  <2>4. remote'[CalendarOf[di]][k] = Events[k]
    BY <2>2, <2>3 DEF RemoteWrite, TypeOK
  <2> QED BY <2>1, <2>2, <2>3, <2>4 DEF ApplyInv
<1>11. CASE RecordPut
  <2>1. Events' = Events
    BY <1>11, SameEvents DEF RecordPut, fetchVars
  <2>2. PICK k \in inflight : SetMapping(di, k, Events[k], FALSE)
    BY <1>11 DEF RecordPut
  <2>3. Events[k] # NoEvent /\ k \in Keys /\ di \in Dests
    BY <1>11 DEF RecordPut, ApplyInv, TypeOK
  <2>4. ASSUME NEW j \in gone PROVE Existing'[j] # NoEvent
    <3>1. Existing[j] # NoEvent /\ j \in Keys
      BY DEF ApplyInv, TypeOK
    <3>2. CASE j = k
      BY <1>11, <2>2, <2>3, <3>1, <3>2
      DEF RecordPut, SetMapping, Existing, ListMappings, Src, TypeOK, StoreTypeOK
    <3>3. CASE j # k
      BY <1>11, <2>2, <2>3, <3>1, <3>3
      DEF RecordPut, SetMapping, Existing, ListMappings, Src, TypeOK, StoreTypeOK
    <3> QED BY <3>2, <3>3
  <2>5. pc' = "events" /\ inflight' = {} /\ todo' = todo /\ gone' = gone
    BY <1>11 DEF RecordPut
  <2> QED BY <2>1, <2>4, <2>5 DEF ApplyInv
<1>12. CASE DeleteEvent
  <2>1. Events' = Events /\ Existing' = Existing
    BY <1>12, SameEvents, SameExisting DEF DeleteEvent, fetchVars, storeVars
  <2>2. PICK k \in gone : gone' = gone \ {k} /\ inflight' = {k}
    BY <1>12 DEF DeleteEvent
  <2>3. pc' = "recordDelete" /\ todo' = todo
    BY <1>12 DEF DeleteEvent
  <2> QED BY <2>1, <2>2, <2>3 DEF ApplyInv
<1>13. CASE SkipDeletion
  <2>1. Events' = Events /\ Existing' = Existing
    BY <1>13, SameEvents, SameExisting DEF SkipDeletion, fetchVars, storeVars
  <2> QED BY <1>13, <2>1 DEF SkipDeletion, ApplyInv
<1>14. CASE RecordDelete
  <2>1. Events' = Events
    BY <1>14, SameEvents DEF RecordDelete, fetchVars
  <2>2. PICK k \in inflight : SetMapping(di, k, Existing[k], TRUE)
    BY <1>14 DEF RecordDelete
  <2>3. k \notin gone /\ k \in Keys /\ di \in Dests
    BY <1>14 DEF RecordDelete, ApplyInv, TypeOK
  <2>4. ASSUME NEW j \in gone PROVE Existing'[j] # NoEvent
    <3>1. Existing[j] # NoEvent /\ j \in Keys /\ j # k
      BY <2>3 DEF ApplyInv, TypeOK
    <3> QED BY <1>14, <2>2, <2>3, <3>1
        DEF RecordDelete, SetMapping, Existing, ListMappings, Src, TypeOK, StoreTypeOK
  <2>5. pc' = "events" /\ inflight' = {} /\ todo' = todo /\ gone' = gone
    BY <1>14 DEF RecordDelete
  <2> QED BY <2>1, <2>4, <2>5 DEF ApplyInv
<1>15. CASE EndDestination
  BY <1>15, IdleApply DEF EndDestination, NextConnection
<1>16. CASE FinishSync
  BY <1>16, OutsideApply DEF FinishSync
<1>17. CASE Crash \/ \E d \in Dests, s \in Sources : ApplyConfig(d, s)
  BY <1>17, IdleApply DEF Crash, ApplyConfig, NewSyncer
<1>18. CASE UNCHANGED vars \/ \E s \in Sources : OwnerEdits(s)
  <2>1. UNCHANGED <<storeVars, remote, srcOf, pc, di, fetchVars, applyVars>>
    BY <1>18 DEF vars, OwnerEdits
  <2>2. Events' = Events /\ Existing' = Existing
    BY <2>1, SameEvents, SameExisting DEF fetchVars, storeVars
  <2> QED BY <2>1, <2>2 DEF ApplyInv, applyVars
<1>19. CASE SkipUnchanged
  <2>1. Events' = Events /\ Existing' = Existing
    BY <1>19, SameEvents, SameExisting DEF SkipUnchanged, fetchVars, storeVars
  <2> QED BY <1>19, <2>1 DEF SkipUnchanged, ApplyInv
<1> QED
  BY <1>1, <1>3, <1>4, <1>5, <1>7, <1>8, <1>9, <1>10, <1>11, <1>12, <1>13, <1>14, <1>15,
     <1>16, <1>17, <1>18, <1>19
  DEF Next, Sync, Failure

(* Whatever syncDestination is about to write or to record is an event of the *)
(* source it is syncing, in every reachable state.                            *)
THEOREM ApplyInvariant == Spec => []ApplyInv
<1>1. TypeOK /\ ApplyInv /\ [Next]_vars => ApplyInv'
  BY NextApplyInv
<1> QED BY <1>1, InitApplyInv, TypeCorrect, PTL DEF Spec

-----------------------------------------------------------------------------
(* Soft mode never loses an event: every row of event_mapping, active or      *)
(* marked deleted, has its event in the destination, whatever fails and       *)
(* whenever the process dies.                                                 *)
THEOREM SoftModeKeepsEvents == Spec => []MappedEventsExist
<1>1. Init => MappedEventsExist
  BY DEF Init, StoreInit, MappedEventsExist
<1>2. TypeOK /\ ApplyInv /\ MappedEventsExist /\ [Next]_vars => MappedEventsExist'
  <2> SUFFICES ASSUME TypeOK, ApplyInv, MappedEventsExist, [Next]_vars, DeleteMode = "soft",
                      NEW d \in Dests, NEW k \in Keys, mapping'[d][k] # NoMapping
               PROVE  remote'[CalendarOf[d]][k] # NoEvent
    BY DEF MappedEventsExist
  <2> DEFINE c == CalendarOf[d]
  <2>1. c \in Calendars
    OBVIOUS
  <2>2. ASSUME remote[c][k] # NoEvent PROVE remote'[c][k] # NoEvent
    <3>1. CASE remote' = remote
      BY <2>2, <3>1
    <3>2. CASE DeleteEvent
      BY <2>2, <3>2 DEF DeleteEvent
    <3>3. ASSUME NEW j \in todo, RemoteWrite(j, Events[j]), di \in Dests
          PROVE  remote'[c][k] # NoEvent
      <4>1. Events[j] # NoEvent /\ j \in Keys
        BY DEF ApplyInv, TypeOK
      <4> QED BY <2>1, <2>2, <3>3, <4>1 DEF RemoteWrite, TypeOK
    <3>4. CASE PutEvent \/ PutFails
      <4>1. di \in Dests
        BY <3>4 DEF PutEvent, PutFails, TypeOK
      <4> QED BY <2>2, <3>3, <3>4, <4>1 DEF PutEvent, PutFails, Changed
    <3> QED BY <3>1, <3>2, <3>4, RemoteSteps
  <2>3. CASE mapping'[d][k] = mapping[d][k]
    BY <2>2, <2>3 DEF MappedEventsExist
  <2>4. CASE RecordPut /\ mapping'[d][k] # mapping[d][k]
    <3>1. PICK j \in inflight : SetMapping(di, j, Events[j], FALSE)
      BY <2>4 DEF RecordPut
    <3>2. j \in Keys /\ di \in Dests /\ remote[CalendarOf[di]][j] = Events[j] /\ Events[j] # NoEvent
      BY <2>4 DEF RecordPut, ApplyInv, TypeOK
    <3>3. d = di /\ k = j
      BY <2>4, <3>1, <3>2 DEF SetMapping, TypeOK, StoreTypeOK
    <3> QED BY <2>2, <3>2, <3>3
  <2>5. CASE RecordDelete /\ mapping'[d][k] # mapping[d][k]
    <3>1. PICK j \in inflight : SetMapping(di, j, Existing[j], TRUE)
      BY <2>5 DEF RecordDelete
    <3>2. j \in Keys /\ di \in Dests /\ Existing[j] # NoEvent
      BY <2>5 DEF RecordDelete, ApplyInv, TypeOK
    <3>3. d = di /\ k = j
      BY <2>5, <3>1, <3>2 DEF SetMapping, TypeOK, StoreTypeOK
    <3>4. mapping[d][k] # NoMapping
      BY <3>2, <3>3 DEF Existing, ListMappings, NoMapping
    <3> QED BY <2>2, <3>4 DEF MappedEventsExist
  <2> QED BY <2>3, <2>4, <2>5, StoreSteps
<1> QED BY <1>1, <1>2, TypeCorrect, ApplyInvariant, PTL DEF Spec

(* A key whose event is published, or listed, belongs to the source at hand.  *)
LEMMA OwnKeys ==
    ASSUME NEW k \in Keys
    PROVE  /\ Events[k] # NoEvent => k[1] = Src
           /\ Existing[k] # NoEvent => k[1] = Src
BY DEF Events, Publish, Existing, ListMappings

(* Neither the rows nor the remote events of another source are ever touched, *)
(* however many destinations share a calendar and however often destinations  *)
(* are moved from one source to another.                                      *)
THEOREM SourcesAreIsolated == Spec => OtherSourcesUntouched
<1> DEFINE Own == /\ \A d \in Dests, k \in Keys :
                       mapping'[d][k] # mapping[d][k] => k[1] = Src
                  /\ \A c \in Calendars, k \in Keys :
                       remote'[c][k] # remote[c][k] => c = CalendarOf[di] /\ k[1] = Src
<1>1. TypeOK /\ ApplyInv /\ [Next]_vars => Own
  <2> SUFFICES ASSUME TypeOK, ApplyInv, [Next]_vars PROVE Own
    OBVIOUS
  <2>1. ASSUME NEW d \in Dests, NEW k \in Keys, mapping'[d][k] # mapping[d][k]
        PROVE  k[1] = Src
    <3>1. PICK j \in inflight : \E h, b : SetMapping(di, j, h, b)
      BY <2>1, StoreSteps DEF RecordPut, RecordDelete
    <3>2. j \in Keys /\ di \in Dests
      BY <2>1, StoreSteps DEF TypeOK, RecordPut, RecordDelete
    <3>3. k = j
      BY <2>1, <3>1, <3>2 DEF SetMapping, TypeOK, StoreTypeOK
    <3>4. Events[j] # NoEvent \/ Existing[j] # NoEvent
      BY <2>1, StoreSteps DEF ApplyInv, RecordPut, RecordDelete
    <3> QED BY <3>2, <3>3, <3>4, OwnKeys
  <2>2. ASSUME NEW c \in Calendars, NEW k \in Keys, remote'[c][k] # remote[c][k]
        PROVE  c = CalendarOf[di] /\ k[1] = Src
    <3>1. di \in Dests
      BY <2>2, RemoteSteps DEF TypeOK, PutEvent, PutFails, DeleteEvent
    <3>2. PICK j \in todo \cup gone : \E content : RemoteWrite(j, content)
      BY <2>2, RemoteSteps DEF PutEvent, PutFails, DeleteEvent, Changed
    <3>3. j \in Keys
      BY DEF TypeOK
    <3>4. c = CalendarOf[di] /\ k = j
      BY <2>2, <3>1, <3>2, <3>3 DEF RemoteWrite, TypeOK
    <3>5. Events[j] # NoEvent \/ Existing[j] # NoEvent
      BY DEF ApplyInv
    <3> QED BY <3>3, <3>4, <3>5, OwnKeys
  <2> QED BY <2>1, <2>2
<1>2. TypeOK /\ ApplyInv /\ [Next]_vars => [Own]_vars
  BY <1>1
<1> QED BY <1>2, TypeCorrect, ApplyInvariant, PTL DEF Spec, OtherSourcesUntouched

-----------------------------------------------------------------------------
(* The failures that leave a remote write unrecorded, and destinations that   *)
(* do not share a calendar.                                                   *)
NoHalfWrites == FaultKinds \cap {"store", "lost_reply", "crash"} = {}
OwnCalendars == \A d, e \in Dests : CalendarOf[d] = CalendarOf[e] => d = e

(* Nothing is in flight when a step leaves the pass or the connection.        *)
LEMMA InFlightIsRecorded ==
    ASSUME NoHalfWrites, TypeOK, ApplyInv, [Next]_vars
    PROVE  \/ inflight = {}
           \/ inflight' = inflight /\ di' = di
           \/ RecordPut \/ RecordDelete
<1>1. ASSUME pc \in {"recordPut", "recordDelete"}, ~RecordPut, ~RecordDelete
      PROVE  inflight' = inflight /\ di' = di
  <2>1. ~Fault("store") /\ ~Fault("crash") /\ ~Fault("lost_reply")
    BY DEF Fault, NoHalfWrites
  <2>2. ~RecordFails /\ ~Crash
    BY <2>1 DEF RecordFails, Crash
  <2>3. UNCHANGED vars \/ \E s \in Sources : OwnerEdits(s)
    BY <1>1, <2>2
    DEF Next, Sync, Failure, StartSync, CheckSource, CheckMisled, Compare, CheckFails,
        FetchPublicICS, Discover, ListCollection, GetResource, EncodeMerged, FetchFails,
        ReadState, SaveState, BeginDestination, BeginFails, PutEvent, PutFails, DeleteEvent,
        SkipDeletion, SkipUnchanged, EndDestination, FinishSync, ApplyConfig,
        ListingRefused, SkipMalformed, FetchTimesOut
  <2> QED BY <2>3 DEF vars, applyVars, OwnerEdits
<1>2. pc \notin {"recordPut", "recordDelete"} => inflight = {}
  BY DEF ApplyInv
<1> QED BY <1>1, <1>2

(* The calendars of the destinations change only where a write is under way.  *)
LEMMA WritesAreInFlight ==
    ASSUME NoHalfWrites, OwnCalendars, TypeOK, [Next]_vars, NEW d \in Dests, NEW k \in Keys,
           ~InFlight(d, k)'
    PROVE  remote'[CalendarOf[d]][k] = remote[CalendarOf[d]][k]
<1>1. CASE PutEvent \/ DeleteEvent
  <2>1. PICK j \in todo \cup gone : \E content :
          (RemoteWrite(j, content) \/ remote' = remote) /\ inflight' = {j} /\ di' = di
    BY <1>1 DEF PutEvent, DeleteEvent, Changed
  <2>2. j \in Keys /\ di \in Dests
    BY <1>1 DEF TypeOK, PutEvent, DeleteEvent
  <2>3. ~(d = di /\ k = j)
    BY <2>1 DEF InFlight
  <2>4. CalendarOf[d] # CalendarOf[di] \/ k # j
    BY <2>2, <2>3 DEF OwnCalendars
  <2> QED BY <2>1, <2>2, <2>4 DEF RemoteWrite, TypeOK
<1>2. CASE PutFails
  BY <1>2 DEF PutFails, Fault, NoHalfWrites
<1> QED BY <1>1, <1>2, RemoteSteps

(* As long as every remote write gets recorded, the hash of an active row is  *)
(* the hash of the event in the destination, and so an event whose hash is    *)
(* unchanged needs no write.                                                  *)
THEOREM HashesAreTrue ==
    ASSUME NoHalfWrites, OwnCalendars
    PROVE  Spec => []HashMatchesDestination
<1>1. Init => HashMatchesDestination
  BY DEF Init, StoreInit, NoMapping, HashMatchesDestination, Active
<1>2. TypeOK /\ ApplyInv /\ HashMatchesDestination /\ [Next]_vars => HashMatchesDestination'
  <2> SUFFICES ASSUME TypeOK, ApplyInv, HashMatchesDestination, [Next]_vars,
                      NEW d \in Dests, NEW k \in Keys, Active(d, k)', ~InFlight(d, k)'
               PROVE  remote'[CalendarOf[d]][k] = mapping'[d][k].hash
    BY DEF HashMatchesDestination
  <2> DEFINE c == CalendarOf[d]
  <2>1. remote'[c][k] = remote[c][k]
    BY WritesAreInFlight
  <2>2. CASE RecordPut
    <3>1. PICK j \in inflight : SetMapping(di, j, Events[j], FALSE)
      BY <2>2 DEF RecordPut
    <3>2. j \in Keys /\ di \in Dests /\ remote[CalendarOf[di]][j] = Events[j]
      BY <2>2 DEF RecordPut, ApplyInv, TypeOK
    <3>3. CASE d = di /\ k = j
      BY <2>1, <3>1, <3>2, <3>3 DEF SetMapping, TypeOK, StoreTypeOK
    <3>4. CASE ~(d = di /\ k = j)
      <4>1. mapping'[d][k] = mapping[d][k]
        BY <3>1, <3>2, <3>4 DEF SetMapping, TypeOK, StoreTypeOK
      <4>2. ~InFlight(d, k)
        BY <3>1, <3>4 DEF InFlight, ApplyInv
      <4> QED BY <2>1, <4>1, <4>2 DEF HashMatchesDestination, Active
    <3> QED BY <3>3, <3>4
  <2>3. CASE RecordDelete
    <3>1. PICK j \in inflight : SetMapping(di, j, Existing[j], TRUE)
      BY <2>3 DEF RecordDelete
    <3>2. j \in Keys /\ di \in Dests
      BY <2>3 DEF RecordDelete, TypeOK
    <3>3. ~(d = di /\ k = j)
      BY <3>1, <3>2 DEF SetMapping, TypeOK, StoreTypeOK, Active
    <3>4. mapping'[d][k] = mapping[d][k]
      BY <3>1, <3>2, <3>3 DEF SetMapping, TypeOK, StoreTypeOK
    <3>5. ~InFlight(d, k)
      BY <3>1, <3>3 DEF InFlight, ApplyInv
    <3> QED BY <2>1, <3>4, <3>5 DEF HashMatchesDestination, Active
  <2>4. CASE ~RecordPut /\ ~RecordDelete
    <3>1. mapping' = mapping
      BY <2>4, StoreSteps
    <3>2. ~InFlight(d, k)
      BY <2>4, InFlightIsRecorded DEF InFlight
    <3> QED BY <2>1, <3>1, <3>2 DEF HashMatchesDestination, Active
  <2> QED BY <2>2, <2>3, <2>4
<1> QED BY <1>1, <1>2, TypeCorrect, ApplyInvariant, PTL DEF Spec
=============================================================================
