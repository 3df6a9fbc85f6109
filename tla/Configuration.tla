--------------------------- MODULE Configuration ---------------------------
(* The life of the configuration: config.Load (file, environment, defaults,   *)
(* legacy format, validation), the updates of PUT /api/config, the file they  *)
(* leave behind, and the pipelines of the Syncer built from it.  Updates come *)
(* one after the other here; Supervisor has their interleavings.              *)
EXTENDS Integers, FiniteSets, Pipeline

CONSTANTS
    Strings,            \* what the values of a configuration are taken from
    Files,              \* what users write into config.yaml
    Environments,       \* SYNCCAL_CONFIG (or Omitted), and the other SYNCCAL_*
                        \* variables in the shape of a file
    SourceUpdates, DestinationUpdates, SyncUpdates,     \* sections of a PUT
    SourceNames, DestNames,     \* "source-1", ... and "dest-1", ...
    SourceTypes, DestinationTypes,      \* the types registered for either side
    RefusedUrls,        \* the URLs that do not parse, or not as http or https
    Omitted,            \* a section or a password that an update leaves out
    MaxEntries,         \* bound: length of a list, for the names by position
    MaxEdits            \* bound: updates and edits of the file by hand

VARIABLES
    env,        \* the environment of the process
    file,       \* config.yaml
    up,         \* "down", "up" or "failed" (log.Fatal in main)
    cfg,        \* the shared configuration
    pipelines,  \* Syncer.pipelines of the active Syncer
    answer,     \* status of the last PUT: 200, 400, 500, or 0
    origin,     \* who wrote the file: "user", "put", an update that was
                \* "refused" all the same, or a write that was "torn"
    edits       \* updates and edits so far

vars == <<env, file, origin, up, cfg, pipelines, answer, edits>>

(* A configuration; "" is an absent value.  Credentials are the password.     *)
Empty == [sources |-> <<>>, destinations |-> <<>>,
          sync |-> [interval |-> "", delete_mode |-> "", filter_private |-> ""]]
NoDestination == [name |-> "", type |-> "", url |-> "", password |-> "", source |-> "", transformers |-> <<>>]
NoSource == [name |-> "", type |-> "", url |-> "", password |-> "", transformers |-> <<>>,
             destination |-> NoDestination]

TransformerType == [type : Strings, prefix : Strings, categories : SUBSET Strings]
DestinationType == [name : Strings, type : Strings, url : Strings, password : Strings,
                    source : Strings, transformers : Seq(TransformerType)]
SourceType == [name : Strings, type : Strings, url : Strings, password : Strings,
               transformers : Seq(TransformerType), destination : DestinationType]
SyncType(S) == [interval : S, delete_mode : S, filter_private : S]

Lists(T) == {list \in Seq(T) : Len(list) <= MaxEntries}

ConfigType == [sources : Lists(SourceType), destinations : Lists(DestinationType),
               sync : SyncType(Strings)]

ASSUME ConfigurationAssumption ==
    /\ {"", "caldav", "soft"} \subseteq Strings
    /\ MaxEntries \in Nat /\ MaxEdits \in Nat
    /\ SourceNames \in [1..MaxEntries -> Strings] /\ DestNames \in [1..MaxEntries -> Strings]
    /\ Files \subseteq ConfigType
    /\ \A e \in Environments : e.config \in {Omitted} \cup ConfigType /\ e.tree \in ConfigType
    /\ SourceUpdates \subseteq {Omitted} \cup Lists(SourceType)
    /\ DestinationUpdates \subseteq {Omitted} \cup Lists(DestinationType)
    /\ SyncUpdates \subseteq SyncType({Omitted} \cup Strings)

LongerOf(s, t) == IF Len(s) < Len(t) THEN Len(t) ELSE Len(s)

-----------------------------------------------------------------------------
(* buildEnvTree: "_" separates the segments of a path, so a key that contains *)
(* it (delete_mode, filter_private) ends up where nothing reads it.           *)
BuildEnvTree(e) == [e EXCEPT !.sync.delete_mode = "", !.sync.filter_private = ""]

(* A plausible slip: what the file has is not overridden.                     *)
FillFields(dst, src, fields) ==
    [f \in DOMAIN dst |-> IF f \in fields /\ dst[f] = "" THEN src[f] ELSE dst[f]]

(* deepMerge of two maps of scalars, of two lists, and of two configurations. *)
MergeFields(dst, src, fields) ==
    [f \in DOMAIN dst |-> IF f \in fields /\ src[f] # "" THEN src[f] ELSE dst[f]]

Scalars == {"name", "type", "url", "password", "source"}

MergeEntry(dst, src) ==
    LET merged == MergeFields(dst, src, Scalars) IN
    IF "destination" \in DOMAIN dst
      THEN [merged EXCEPT !.destination = MergeFields(@, src.destination, Scalars)]
      ELSE merged

MergeLists(dst, src, none) ==
    [i \in 1..LongerOf(dst, src) |->
        MergeEntry(IF i <= Len(dst) THEN dst[i] ELSE none,
                   IF i <= Len(src) THEN src[i] ELSE none)]

DeepMerge(dst, src) ==
    [sources |-> MergeLists(dst.sources, src.sources, NoSource),
     destinations |-> MergeLists(dst.destinations, src.destinations, NoDestination),
     sync |-> MergeFields(dst.sync, src.sync, DOMAIN dst.sync)]

(* A plausible slip: every entry is named after its position.                 *)
DefaultRenames(x, names, i) ==
    [x EXCEPT !.name = IF x.url # "" THEN names[i] ELSE @,
              !.type = IF @ = "" THEN "caldav" ELSE @]

(* setDefaults: entries with a URL get a name, all entries a type.            *)
Default(x, names, i) ==
    [x EXCEPT !.name = IF @ = "" /\ x.url # "" THEN names[i] ELSE @,
              !.type = IF @ = "" THEN "caldav" ELSE @]

SetDefaults(c) ==
    [sources |-> [i \in 1..Len(c.sources) |-> Default(c.sources[i], SourceNames, i)],
     destinations |-> [i \in 1..Len(c.destinations) |-> Default(c.destinations[i], DestNames, i)],
     sync |-> [c.sync EXCEPT !.delete_mode = IF @ = "" THEN "soft" ELSE @]]

(* migrateLegacy: without any destination, those nested in the sources become *)
(* the destinations, each referring to its source; nested ones are cleared.   *)
Legacy(s) == s.destination.name # "" \/ s.destination.url # ""
LegacyAt(sources) == {i \in 1..Len(sources) : Legacy(sources[i])}

ClearNested(sources) == [i \in 1..Len(sources) |-> [sources[i] EXCEPT !.destination = NoDestination]]

(* A plausible slip: nested destinations are appended to the others.          *)
MigrateLegacyAlways(c) ==
    LET nested == SelectAt(c.sources, LegacyAt(c.sources)) IN
    [c EXCEPT !.sources = ClearNested(@),
              !.destinations = @ \o [i \in 1..Len(nested) |->
                  [nested[i].destination EXCEPT !.source = nested[i].name, !.type = "caldav"]]]

MigrateLegacy(c) ==
    IF c.destinations # <<>> THEN [c EXCEPT !.sources = ClearNested(@)]
    ELSE IF LegacyAt(c.sources) = {} THEN c
    ELSE LET named == [i \in 1..Len(c.sources) |->
                 [c.sources[i] EXCEPT !.name = IF @ = "" THEN SourceNames[i] ELSE @]]
             nested == SelectAt(named, LegacyAt(named))
         IN [c EXCEPT !.sources = ClearNested(named),
                      !.destinations = [i \in 1..Len(nested) |->
                          [nested[i].destination EXCEPT
                              !.source = nested[i].name,
                              !.type = IF @ = "" THEN "caldav" ELSE @]]]

(* Validate                                                                   *)
Names(list) == {list[i].name : i \in 1..Len(list)}

ValidEntry(x) ==
    /\ x.name # "" /\ x.url # "" /\ x.type # ""
    /\ \A k \in 1..Len(x.transformers) : x.transformers[k].type # ""

ValidList(list) ==
    /\ list # <<>>
    /\ Cardinality(Names(list)) = Len(list)
    /\ \A i \in 1..Len(list) : ValidEntry(list[i])

Valid(c) ==
    /\ ValidList(c.sources) /\ ValidList(c.destinations)
    /\ \A i \in 1..Len(c.destinations) :
           c.destinations[i].password # "" /\ c.destinations[i].source \in Names(c.sources)
    /\ c.sync.interval # "invalid"
    /\ c.sync.delete_mode \in {"", "soft", "hard"}

(* Load: SYNCCAL_CONFIG stands in for the file, the other variables override. *)
Base(f, e) == IF e.config = Omitted THEN f ELSE e.config
Merged(f, e) == DeepMerge(Base(f, e), BuildEnvTree(e.tree))
Load(f, e) == MigrateLegacy(SetDefaults(Merged(f, e)))

-----------------------------------------------------------------------------
(* newSyncer in main asks the registry for a connector per entry, whose       *)
(* factory is caldav.NewClient; Validate looks at neither type nor URL.       *)
Connects(list, types) ==
    \A i \in 1..Len(list) : list[i].type \in types /\ list[i].url \notin RefusedUrls

CanBuild(c) == Connects(c.sources, SourceTypes) /\ Connects(c.destinations, DestinationTypes)

NamesByPosition(list) == [i \in 1..Len(list) |-> list[i].name]
Position(names, name) == CHOOSE i \in DOMAIN names : names[i] = name

SourceOf(c, d) == c.sources[Position(NamesByPosition(c.sources), d.source)]

(* sync.New.  The prefix of a source is a hash of its URL; here it is the URL.*)
NewPipelines(c) ==
    [i \in 1..Len(c.destinations) |->
        LET d == c.destinations[i]
            s == SourceOf(c, d)
        IN NewPipeline(c.sync.filter_private = "true", s.url, s.transformers, d.transformers)]

(* What New leaves behind in the maps of options of its configuration.        *)
AfterNew(c) ==
    LET Used(s) == \E j \in 1..Len(c.destinations) : c.destinations[j].source = s.name
        NewSource(s) == IF Used(s) THEN [s EXCEPT !.transformers = InjectPrefix(@, s.url)] ELSE s
        NewDest(d) == [d EXCEPT !.transformers = InjectPrefix(@, SourceOf(c, d).url)]
    IN [c EXCEPT !.sources = [i \in 1..Len(@) |-> NewSource(@[i])],
                 !.destinations = [i \in 1..Len(@) |-> NewDest(@[i])]]

-----------------------------------------------------------------------------
(* mergeConfigUpdate: lists are replaced; what an entry leaves out is taken   *)
(* from the entry that had its position.                                      *)
MergeList(old, upd) ==
    [i \in 1..Len(upd) |->
        [upd[i] EXCEPT
            !.type = IF @ # "" THEN @
                     ELSE IF i <= Len(old) /\ old[i].type # "" THEN old[i].type ELSE "caldav",
            !.password = IF @ # "" THEN @ ELSE IF i <= Len(old) THEN old[i].password ELSE ""]]

MergeUpdate(c, upd) ==
    [sources |-> IF upd.sources = Omitted THEN c.sources ELSE MergeList(c.sources, upd.sources),
     destinations |-> IF upd.destinations = Omitted THEN c.destinations
                      ELSE MergeList(c.destinations, upd.destinations),
     sync |-> [f \in DOMAIN c.sync |-> IF upd.sync[f] = Omitted THEN c.sync[f] ELSE upd.sync[f]]]

Updates == [sources : SourceUpdates, destinations : DestinationUpdates, sync : SyncUpdates]

Init ==
    /\ env \in Environments /\ file \in Files /\ origin = "user"
    /\ up = "down" /\ cfg = Empty /\ pipelines = <<>>
    /\ answer = 0 /\ edits = 0

(* main: Load and newSyncer, each of which may end the process.               *)
Start ==
    /\ up = "down"
    /\ LET c == Load(file, env) IN
       IF Valid(c) /\ CanBuild(c)
         THEN up' = "up" /\ cfg' = AfterNew(c) /\ pipelines' = NewPipelines(c)
         ELSE up' = "failed" /\ UNCHANGED <<cfg, pipelines>>
    /\ UNCHANGED <<env, file, origin, answer, edits>>

(* The process ends, in an orderly way or not; the service manager starts it  *)
(* again.                                                                     *)
Down == up' = "down" /\ cfg' = Empty /\ pipelines' = <<>> /\ answer' = 0

Stop == up = "up" /\ Down /\ UNCHANGED <<env, file, origin, edits>>

(* A user writes the file while the process is not running.                   *)
EditFile ==
    /\ up # "up" /\ edits < MaxEdits /\ edits' = edits + 1
    /\ file' \in Files \ {file} /\ origin' = "user"
    /\ Down
    /\ UNCHANGED env

(* applyConfig merges the update into the shared configuration, in place.     *)
Put(upd) == up = "up" /\ edits < MaxEdits /\ edits' = edits + 1 /\ cfg' = MergeUpdate(cfg, upd)

PutInvalid(upd) ==
    /\ Put(upd) /\ ~Valid(cfg')
    /\ answer' = 400
    /\ UNCHANGED <<env, file, origin, up, pipelines>>

(* os.WriteFile truncates the file before it writes.                          *)
PutWriteFails(upd) ==
    /\ Put(upd) /\ Valid(cfg')
    /\ \/ UNCHANGED <<file, origin>>
       \/ file' = Empty /\ origin' = "torn"
    /\ answer' = 500
    /\ UNCHANGED <<env, up, pipelines>>

CrashInWrite ==
    /\ up = "up" /\ edits < MaxEdits /\ edits' = edits + 1
    /\ file' = Empty /\ origin' = "torn"
    /\ Down
    /\ UNCHANGED env

(* newSyncer refuses the update, which has been written by then.              *)
PutNotBuilt(upd) ==
    /\ Put(upd) /\ Valid(cfg') /\ ~CanBuild(cfg')
    /\ file' = cfg' /\ origin' = "refused"
    /\ answer' = 400
    /\ UNCHANGED <<env, up, pipelines>>

(* A plausible slip: the new Syncer is built but never given to the holder.   *)
PutAcceptedNotSet(upd) ==
    /\ Put(upd) /\ Valid(cfg') /\ CanBuild(cfg')
    /\ file' = cfg' /\ origin' = "put"
    /\ answer' = 200
    /\ UNCHANGED <<env, up, pipelines>>

(* The update is written, a new Syncer is built from it and becomes active.   *)
PutAccepted(upd) ==
    LET c == MergeUpdate(cfg, upd) IN
    /\ up = "up" /\ edits < MaxEdits /\ edits' = edits + 1
    /\ Valid(c) /\ CanBuild(c)
    /\ file' = c /\ origin' = "put"
    /\ cfg' = AfterNew(c) /\ pipelines' = NewPipelines(c)
    /\ answer' = 200
    /\ UNCHANGED <<env, up>>

Next ==
    \/ Start \/ Stop \/ EditFile \/ CrashInWrite
    \/ \E upd \in Updates :
           PutInvalid(upd) \/ PutWriteFails(upd) \/ PutNotBuilt(upd) \/ PutAccepted(upd)

Spec == Init /\ [][Next]_vars
=============================================================================
