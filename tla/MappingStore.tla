---------------------------- MODULE MappingStore ----------------------------
(* internal/storage/sqlite.go: the two SQLite tables.  event_mapping has one  *)
(* row per (source_uid, dest_name); source_uid is the UID behind the prefix   *)
(* of its source, here the pair <<source, uid>>.  source_state has one row    *)
(* per source URL, shared by every destination that reads the source.         *)
EXTENDS SourceCalendar

CONSTANT NDest              \* number of configured destinations

ASSUME StoreAssumption == NDest \in Nat \ {0}

Dests == 1..NDest           \* in the order of the configuration

VARIABLES
    mapping,                \* event_mapping
    saved                   \* source_state

storeVars == <<mapping, saved>>

Keys == Sources \X Uids

(* dest_uid and dest_href are functions of the key (the UID, and the URL made *)
(* from it), and dest_etag is always "", so a row is its hash and its flag.   *)
(* A missing row reads as empty fields, which is how GetMapping returns it.   *)
Row == [hash : Contents \cup {NoEvent}, deleted : BOOLEAN]
NoMapping == [hash |-> NoEvent, deleted |-> FALSE]

StoreTypeOK ==
    /\ mapping \in [Dests -> [Keys -> Row]]
    /\ saved \in [Sources -> State]

StoreInit ==
    /\ mapping = [d \in Dests |-> [k \in Keys |-> NoMapping]]
    /\ saved = [s \in Sources |-> NoState]

(* A plausible slip in ListMappings: the LIKE clause dropped.                 *)
ListMappingsOfAnySource(d, s) ==
    [k \in Keys |-> IF mapping[d][k].deleted THEN NoEvent ELSE mapping[d][k].hash]

(* ListMappings: the hashes of the active rows of destination d whose         *)
(* source_uid carries the prefix of source s.                                 *)
ListMappings(d, s) ==
    [k \in Keys |-> IF k[1] = s /\ ~mapping[d][k].deleted
                    THEN mapping[d][k].hash ELSE NoEvent]

(* A plausible slip in SetMapping: the upsert forgets the deleted column, so  *)
(* an event that comes back keeps its old flag.                               *)
SetMappingKeepsFlag(d, k, hash, deleted) ==
    mapping' = [mapping EXCEPT ![d][k] =
                   [hash |-> hash, deleted |-> deleted \/ mapping[d][k].deleted]]

SetMapping(d, k, hash, deleted) ==
    mapping' = [mapping EXCEPT ![d][k] = [hash |-> hash, deleted |-> deleted]]

SetSourceState(s, state) == saved' = [saved EXCEPT ![s] = state]
=============================================================================
