------------------------ MODULE ConfigurationProofs ------------------------
(* Theorems about loading and updating the configuration.                     *)
EXTENDS ConfigurationProperties, PipelineProofs, FiniteSetTheorems

-----------------------------------------------------------------------------
(* The bounds are numbers.                                                    *)
LEMMA Bounds == MaxEntries \in Nat /\ MaxEdits \in Nat
BY ConfigurationAssumption

(* A function on the positions of a list is a list, and the other way round.  *)
LEMMA ListType ==
    ASSUME NEW T, NEW n \in 0..MaxEntries, NEW f \in [1..n -> T]
    PROVE  f \in Lists(T) /\ Len(f) = n /\ DOMAIN f = 1..n
BY Bounds DEF Lists

LEMMA ListIsFunction ==
    ASSUME NEW T, NEW list \in Lists(T)
    PROVE  /\ Len(list) \in 0..MaxEntries /\ list \in [1..Len(list) -> T]
           /\ \A i \in 1..Len(list) : list[i] \in T
BY Bounds DEF Lists

(* Merging, entry by entry and list by list, keeps the types.                 *)
LEMMA MergeDestination ==
    ASSUME NEW d \in DestinationType, NEW s \in DestinationType
    PROVE  /\ MergeFields(d, s, Scalars) \in DestinationType
           /\ MergeEntry(d, s) = MergeFields(d, s, Scalars)
           /\ MergeFields(d, s, Scalars).transformers = d.transformers
           /\ \A f \in Scalars : MergeFields(d, s, Scalars)[f] = IF s[f] # "" THEN s[f] ELSE d[f]
<1> DEFINE m == MergeFields(d, s, Scalars)
<1>1. DOMAIN d = {"name", "type", "url", "password", "source", "transformers"}
  BY DEF DestinationType
<1>2. m = [f \in DOMAIN d |-> IF f \in Scalars /\ s[f] # "" THEN s[f] ELSE d[f]]
  BY DEF MergeFields
<1>3. m = [name |-> m.name, type |-> m.type, url |-> m.url, password |-> m.password,
           source |-> m.source, transformers |-> m.transformers]
  BY <1>1, <1>2
<1>4. \A f \in Scalars : m[f] = IF s[f] # "" THEN s[f] ELSE d[f]
  BY <1>1, <1>2 DEF Scalars
<1>5. m.transformers = d.transformers
  BY <1>1, <1>2 DEF Scalars
<1>6. m \in DestinationType
  BY <1>3, <1>4, <1>5 DEF DestinationType, Scalars
<1>7. MergeEntry(d, s) = m
  BY <1>1 DEF MergeEntry
<1> QED
  BY <1>4, <1>5, <1>6, <1>7

LEMMA MergeSource ==
    ASSUME NEW d \in SourceType, NEW s \in SourceType
    PROVE  /\ MergeEntry(d, s) \in SourceType
           /\ MergeEntry(d, s).transformers = d.transformers
           /\ \A f \in {"name", "type", "url", "password"} :
                  MergeEntry(d, s)[f] = IF s[f] # "" THEN s[f] ELSE d[f]
<1> DEFINE m == MergeFields(d, s, Scalars)
<1>1. DOMAIN d = {"name", "type", "url", "password", "transformers", "destination"}
  BY DEF SourceType
<1>2. m = [f \in DOMAIN d |-> IF f \in Scalars /\ s[f] # "" THEN s[f] ELSE d[f]]
  BY DEF MergeFields
<1>3. m = [name |-> m.name, type |-> m.type, url |-> m.url, password |-> m.password,
           transformers |-> m.transformers, destination |-> m.destination]
  BY <1>1, <1>2
<1>4. \A f \in {"name", "type", "url", "password"} : m[f] = IF s[f] # "" THEN s[f] ELSE d[f]
  BY <1>1, <1>2 DEF Scalars
<1>5. m.transformers = d.transformers /\ m.destination = d.destination
  BY <1>1, <1>2 DEF Scalars
<1>6. m \in SourceType
  BY <1>3, <1>4, <1>5 DEF SourceType
<1>7. MergeEntry(d, s) = [m EXCEPT !.destination = MergeFields(d.destination, s.destination, Scalars)]
  BY <1>1, <1>5 DEF MergeEntry
<1>8. MergeFields(d.destination, s.destination, Scalars) \in DestinationType
  BY MergeDestination DEF SourceType
<1> QED
  BY <1>4, <1>5, <1>6, <1>7, <1>8 DEF SourceType

(* Absent entries are well typed.                                             *)
LEMMA NoEntryType == NoDestination \in DestinationType /\ NoSource \in SourceType
<1>1. <<>> \in Seq(TransformerType)
  OBVIOUS
<1>2. NoDestination \in DestinationType
  BY <1>1, ConfigurationAssumption DEF NoDestination, DestinationType
<1> QED
  BY <1>1, <1>2, ConfigurationAssumption DEF NoSource, SourceType

LEMMA LongerType ==
    ASSUME NEW T, NEW s \in Lists(T), NEW t \in Lists(T)
    PROVE  /\ LongerOf(s, t) \in 0..MaxEntries
           /\ Len(t) <= Len(s) => LongerOf(s, t) = Len(s)
BY ListIsFunction DEF LongerOf

LEMMA MergeSources ==
    ASSUME NEW s \in Lists(SourceType), NEW t \in Lists(SourceType)
    PROVE  /\ MergeLists(s, t, NoSource) \in Lists(SourceType)
           /\ Len(MergeLists(s, t, NoSource)) = LongerOf(s, t)
<1> DEFINE S(i) == IF i <= Len(s) THEN s[i] ELSE NoSource
           T(i) == IF i <= Len(t) THEN t[i] ELSE NoSource
           n == LongerOf(s, t)
<1>1. n \in 0..MaxEntries
  BY LongerType
<1>2. ASSUME NEW i \in 1..n PROVE MergeEntry(S(i), T(i)) \in SourceType
  <2>1. S(i) \in SourceType /\ T(i) \in SourceType
    BY ListIsFunction, NoEntryType, <1>1
  <2> QED
    BY <2>1, MergeSource, ZenonT(60)
<1>3. [i \in 1..n |-> MergeEntry(S(i), T(i))] \in [1..n -> SourceType]
  BY <1>2
<1>4. /\ [i \in 1..n |-> MergeEntry(S(i), T(i))] \in Lists(SourceType)
      /\ Len([i \in 1..n |-> MergeEntry(S(i), T(i))]) = n
  BY <1>1, <1>3, ListType
<1> QED
  BY <1>4 DEF MergeLists

LEMMA MergeDestinations ==
    ASSUME NEW s \in Lists(DestinationType), NEW t \in Lists(DestinationType)
    PROVE  /\ MergeLists(s, t, NoDestination) \in Lists(DestinationType)
           /\ Len(MergeLists(s, t, NoDestination)) = LongerOf(s, t)
<1> DEFINE S(i) == IF i <= Len(s) THEN s[i] ELSE NoDestination
           T(i) == IF i <= Len(t) THEN t[i] ELSE NoDestination
           n == LongerOf(s, t)
<1>1. n \in 0..MaxEntries
  BY LongerType
<1>2. ASSUME NEW i \in 1..n PROVE MergeEntry(S(i), T(i)) \in DestinationType
  <2>1. S(i) \in DestinationType /\ T(i) \in DestinationType
    BY ListIsFunction, NoEntryType, <1>1
  <2> QED
    BY <2>1, MergeDestination, ZenonT(60)
<1>3. [i \in 1..n |-> MergeEntry(S(i), T(i))] \in [1..n -> DestinationType]
  BY <1>2
<1>4. /\ [i \in 1..n |-> MergeEntry(S(i), T(i))] \in Lists(DestinationType)
      /\ Len([i \in 1..n |-> MergeEntry(S(i), T(i))]) = n
  BY <1>1, <1>3, ListType
<1> QED
  BY <1>4 DEF MergeLists

LEMMA MergeSync ==
    ASSUME NEW d \in SyncType(Strings), NEW s \in SyncType(Strings)
    PROVE  LET m == MergeFields(d, s, DOMAIN d) IN
           /\ m \in SyncType(Strings)
           /\ m.interval = IF s.interval # "" THEN s.interval ELSE d.interval
           /\ m.delete_mode = IF s.delete_mode # "" THEN s.delete_mode ELSE d.delete_mode
           /\ m.filter_private = IF s.filter_private # "" THEN s.filter_private ELSE d.filter_private
<1> DEFINE m == MergeFields(d, s, DOMAIN d)
<1>1. DOMAIN d = {"interval", "delete_mode", "filter_private"}
  BY DEF SyncType
<1>2. m = [f \in DOMAIN d |-> IF f \in DOMAIN d /\ s[f] # "" THEN s[f] ELSE d[f]]
  BY DEF MergeFields
<1>3. m = [interval |-> m.interval, delete_mode |-> m.delete_mode, filter_private |-> m.filter_private]
  BY <1>1, <1>2
<1>4. /\ m.interval = IF s.interval # "" THEN s.interval ELSE d.interval
      /\ m.delete_mode = IF s.delete_mode # "" THEN s.delete_mode ELSE d.delete_mode
      /\ m.filter_private = IF s.filter_private # "" THEN s.filter_private ELSE d.filter_private
  BY <1>1, <1>2
<1> QED
  BY <1>3, <1>4 DEF SyncType

LEMMA MergedType ==
    ASSUME NEW c \in ConfigType, NEW e \in Environments
    PROVE  Merged(c, e) \in ConfigType
<1> DEFINE b == Base(c, e)
           t == BuildEnvTree(e.tree)
<1>1. b \in ConfigType
  BY ConfigurationAssumption DEF Base
<1>2. t \in ConfigType
  BY ConfigurationAssumption DEF BuildEnvTree, ConfigType, SyncType
<1> HIDE DEF b, t
<1>3. /\ MergeLists(b.sources, t.sources, NoSource) \in Lists(SourceType)
      /\ MergeLists(b.destinations, t.destinations, NoDestination) \in Lists(DestinationType)
      /\ MergeFields(b.sync, t.sync, DOMAIN b.sync) \in SyncType(Strings)
  BY <1>1, <1>2, MergeSources, MergeDestinations, MergeSync DEF ConfigType
<1>4. DeepMerge(b, t) \in ConfigType
  BY <1>3 DEF DeepMerge, ConfigType
<1> QED
  BY <1>4 DEF Merged, b, t

(* Defaults keep the types.                                                   *)
LEMMA DefaultSource ==
    ASSUME NEW x \in SourceType, NEW i \in 1..MaxEntries
    PROVE  Default(x, SourceNames, i) \in SourceType
BY ConfigurationAssumption DEF Default, SourceType

LEMMA DefaultDestination ==
    ASSUME NEW x \in DestinationType, NEW i \in 1..MaxEntries
    PROVE  Default(x, DestNames, i) \in DestinationType
BY ConfigurationAssumption DEF Default, DestinationType

LEMMA SetDefaultsType ==
    ASSUME NEW c \in ConfigType
    PROVE  /\ SetDefaults(c) \in ConfigType
           /\ Len(SetDefaults(c).sources) = Len(c.sources)
           /\ Len(SetDefaults(c).destinations) = Len(c.destinations)
<1> DEFINE sources == [i \in 1..Len(c.sources) |-> Default(c.sources[i], SourceNames, i)]
           destinations == [i \in 1..Len(c.destinations) |-> Default(c.destinations[i], DestNames, i)]
           sync == [c.sync EXCEPT !.delete_mode = IF @ = "" THEN "soft" ELSE @]
<1>1. c.sources \in Lists(SourceType) /\ c.destinations \in Lists(DestinationType)
      /\ c.sync \in SyncType(Strings)
  BY DEF ConfigType
<1>2. Len(c.sources) \in 0..MaxEntries /\ Len(c.destinations) \in 0..MaxEntries
  BY <1>1, ListIsFunction
<1>3. sources \in [1..Len(c.sources) -> SourceType]
  BY <1>1, <1>2, ListIsFunction, DefaultSource, Bounds
<1>4. destinations \in [1..Len(c.destinations) -> DestinationType]
  BY <1>1, <1>2, ListIsFunction, DefaultDestination, Bounds
<1>5. sync \in SyncType(Strings)
  BY <1>1, ConfigurationAssumption DEF SyncType
<1> HIDE DEF sources, destinations, sync
<1>6. /\ sources \in Lists(SourceType) /\ Len(sources) = Len(c.sources)
      /\ destinations \in Lists(DestinationType) /\ Len(destinations) = Len(c.destinations)
  BY <1>2, <1>3, <1>4, ListType
<1>7. SetDefaults(c) = [sources |-> sources, destinations |-> destinations, sync |-> sync]
  BY DEF SetDefaults, sources, destinations, sync
<1> QED
  BY <1>5, <1>6, <1>7 DEF ConfigType

(* Clearing the nested destinations keeps the types.                          *)
LEMMA ClearNestedType ==
    ASSUME NEW s \in Lists(SourceType)
    PROVE  ClearNested(s) \in Lists(SourceType) /\ Len(ClearNested(s)) = Len(s)
<1>1. Len(s) \in 0..MaxEntries
  BY ListIsFunction
<1>2. ASSUME NEW i \in 1..Len(s) PROVE [s[i] EXCEPT !.destination = NoDestination] \in SourceType
  <2>1. s[i] \in SourceType
    BY ListIsFunction
  <2> QED
    BY <2>1, NoEntryType DEF SourceType
<1>3. ClearNested(s) \in [1..Len(s) -> SourceType]
  BY <1>2 DEF ClearNested
<1> QED
  BY <1>1, <1>3, ListType

(* The migration yields a configuration: it names the sources, and collects   *)
(* at most one destination from each.                                         *)
Named(sources) ==
    [i \in 1..Len(sources) |-> [sources[i] EXCEPT !.name = IF @ = "" THEN SourceNames[i] ELSE @]]

Unnested(s) ==
    [s.destination EXCEPT !.source = s.name, !.type = IF @ = "" THEN "caldav" ELSE @]

LEMMA NamedType ==
    ASSUME NEW s \in Lists(SourceType)
    PROVE  Named(s) \in Lists(SourceType) /\ Len(Named(s)) = Len(s)
<1>1. Len(s) \in 0..MaxEntries
  BY ListIsFunction
<1>2. ASSUME NEW i \in 1..Len(s)
      PROVE  [s[i] EXCEPT !.name = IF @ = "" THEN SourceNames[i] ELSE @] \in SourceType
  <2>1. s[i] \in SourceType
    BY ListIsFunction
  <2>2. i \in 1..MaxEntries
    BY <1>1, Bounds
  <2>3. SourceNames[i] \in Strings
    BY <2>2, ConfigurationAssumption
  <2> QED
    BY <2>1, <2>3 DEF SourceType
<1>3. Named(s) \in [1..Len(s) -> SourceType]
  BY <1>2 DEF Named
<1> QED
  BY <1>1, <1>3, ListType

LEMMA SelectedType ==
    ASSUME NEW s \in Lists(SourceType), NEW I
    PROVE  SelectAt(s, I) \in Lists(SourceType)
<1>1. Selects(SelectAt(s, I), s, Len(s), I, SourceType)
  BY SelectAtSelects DEF Lists
<1>2. SelectAt(s, I) \in Seq(SourceType) /\ Len(SelectAt(s, I)) <= Len(s)
  BY <1>1 DEF Selects
<1>3. Len(s) <= MaxEntries /\ Len(s) \in Nat /\ Len(SelectAt(s, I)) \in Nat
  BY <1>2, Bounds DEF Lists
<1> QED
  BY <1>2, <1>3, Bounds DEF Lists

LEMMA UnnestedType ==
    ASSUME NEW x \in SourceType
    PROVE  Unnested(x) \in DestinationType
BY ConfigurationAssumption DEF Unnested, SourceType, DestinationType

LEMMA MigratesTo ==
    ASSUME NEW c \in ConfigType, c.destinations = <<>>, LegacyAt(c.sources) # {}
    PROVE  LET named == Named(c.sources)
               nested == SelectAt(named, LegacyAt(named))
           IN MigrateLegacy(c) =
                  [c EXCEPT !.sources = ClearNested(named),
                            !.destinations = [i \in 1..Len(nested) |-> Unnested(nested[i])]]
BY DEF MigrateLegacy, Named, Unnested, ConfigType

LEMMA MigrateType ==
    ASSUME NEW c \in ConfigType
    PROVE  MigrateLegacy(c) \in ConfigType
<1> DEFINE named == Named(c.sources)
           nested == SelectAt(named, LegacyAt(named))
           destinations == [i \in 1..Len(nested) |-> Unnested(nested[i])]
<1>1. c.sources \in Lists(SourceType)
  BY DEF ConfigType
<1>2. CASE c.destinations # <<>>
  <2>1. MigrateLegacy(c) = [c EXCEPT !.sources = ClearNested(@)]
    BY <1>2 DEF MigrateLegacy
  <2> QED
    BY <2>1, ClearNestedType DEF ConfigType
<1>3. CASE c.destinations = <<>> /\ LegacyAt(c.sources) = {}
  BY <1>3 DEF MigrateLegacy
<1>4. CASE c.destinations = <<>> /\ LegacyAt(c.sources) # {}
  <2>1. MigrateLegacy(c) =
            [c EXCEPT !.sources = ClearNested(named), !.destinations = destinations]
    BY <1>4, MigratesTo
  <2>2. ClearNested(named) \in Lists(SourceType) /\ nested \in Lists(SourceType)
    BY <1>1, NamedType, SelectedType, ClearNestedType
  <2> HIDE DEF named, nested
  <2>3. Len(nested) \in 0..MaxEntries /\ \A i \in 1..Len(nested) : nested[i] \in SourceType
    BY <2>2, ListIsFunction
  <2>4. destinations \in [1..Len(nested) -> DestinationType]
    BY <2>3, UnnestedType
  <2> HIDE DEF destinations
  <2>5. destinations \in Lists(DestinationType)
    BY <2>3, <2>4, ListType
  <2> QED
    BY <2>1, <2>2, <2>5 DEF ConfigType
<1> QED
  BY <1>2, <1>3, <1>4

(* A list is empty just when its length is zero.                              *)
LEMMA NotEmpty ==
    ASSUME NEW T, NEW list \in Lists(T)
    PROVE  list # <<>> <=> Len(list) > 0
BY DEF Lists

(* What is loaded is a configuration.                                         *)
LEMMA LoadType ==
    ASSUME NEW f \in ConfigType, NEW e \in Environments
    PROVE  Load(f, e) \in ConfigType
BY MergedType, SetDefaultsType, MigrateType DEF Load

-----------------------------------------------------------------------------
(* An update keeps the types, entry by entry and list by list.                *)
LEMMA MergeListEntry ==
    ASSUME NEW T \in {SourceType, DestinationType}, NEW x \in T, NEW t \in Strings, NEW p \in Strings
    PROVE  [x EXCEPT !.type = t, !.password = p] \in T
<1>1. CASE T = SourceType
  <2>1. x \in SourceType
    BY <1>1
  <2>2. [x EXCEPT !.type = t, !.password = p] \in SourceType
    BY <2>1 DEF SourceType
  <2> QED
    BY <1>1, <2>2
<1>2. CASE T = DestinationType
  BY <1>2 DEF DestinationType
<1> QED
  BY <1>1, <1>2

LEMMA EntryStrings ==
    ASSUME NEW T \in {SourceType, DestinationType}, NEW x \in T
    PROVE  x.type \in Strings /\ x.password \in Strings
<1>1. CASE T = SourceType
  BY <1>1 DEF SourceType
<1>2. CASE T = DestinationType
  BY <1>2 DEF DestinationType
<1> QED
  BY <1>1, <1>2

LEMMA MergeListType ==
    ASSUME NEW T \in {SourceType, DestinationType}, NEW old \in Lists(T), NEW upd \in Lists(T)
    PROVE  MergeList(old, upd) \in Lists(T)
<1> DEFINE type(i) == IF upd[i].type # "" THEN upd[i].type
                      ELSE IF i <= Len(old) /\ old[i].type # "" THEN old[i].type ELSE "caldav"
           password(i) == IF upd[i].password # "" THEN upd[i].password
                          ELSE IF i <= Len(old) THEN old[i].password ELSE ""
           entry(i) == [upd[i] EXCEPT !.type = type(i), !.password = password(i)]
<1>1. Len(upd) \in 0..MaxEntries /\ Len(old) \in 0..MaxEntries
  BY ListIsFunction
<1>2. ASSUME NEW i \in 1..Len(upd) PROVE entry(i) \in T
  <2>1. upd[i] \in T /\ (i <= Len(old) => old[i] \in T)
    BY <1>1, ListIsFunction
  <2>2. type(i) \in Strings /\ password(i) \in Strings
    BY <2>1, EntryStrings, ConfigurationAssumption
  <2> HIDE DEF type, password
  <2> QED
    BY <2>1, <2>2, MergeListEntry
<1>3. \A i \in 1..Len(upd) :
          [upd[i] EXCEPT
            !.type = IF @ # "" THEN @
                     ELSE IF i <= Len(old) /\ old[i].type # "" THEN old[i].type ELSE "caldav",
            !.password = IF @ # "" THEN @ ELSE IF i <= Len(old) THEN old[i].password ELSE ""]
          = entry(i)
  <2> TAKE i \in 1..Len(upd)
  <2>1. CASE T = SourceType
    BY <2>1, <1>2, ListIsFunction DEF SourceType
  <2>2. CASE T = DestinationType
    BY <2>2, <1>2, ListIsFunction DEF DestinationType
  <2> QED
    BY <2>1, <2>2
<1> HIDE DEF entry
<1>4. MergeList(old, upd) = [i \in 1..Len(upd) |-> entry(i)]
  BY <1>3 DEF MergeList
<1>5. [i \in 1..Len(upd) |-> entry(i)] \in [1..Len(upd) -> T]
  BY <1>2
<1> QED
  BY <1>1, <1>4, <1>5, ListType

LEMMA MergeUpdateType ==
    ASSUME NEW c \in ConfigType, NEW upd \in Updates
    PROVE  MergeUpdate(c, upd) \in ConfigType
<1>1. /\ c.sources \in Lists(SourceType) /\ c.destinations \in Lists(DestinationType)
      /\ c.sync \in SyncType(Strings)
  BY DEF ConfigType
<1>2. /\ upd.sources \in {Omitted} \cup Lists(SourceType)
      /\ upd.destinations \in {Omitted} \cup Lists(DestinationType)
      /\ upd.sync \in SyncType({Omitted} \cup Strings)
  BY ConfigurationAssumption DEF Updates
<1> DEFINE sources == IF upd.sources = Omitted THEN c.sources ELSE MergeList(c.sources, upd.sources)
           destinations == IF upd.destinations = Omitted THEN c.destinations
                           ELSE MergeList(c.destinations, upd.destinations)
           sync == [f \in DOMAIN c.sync |-> IF upd.sync[f] = Omitted THEN c.sync[f] ELSE upd.sync[f]]
<1>3. sources \in Lists(SourceType) /\ destinations \in Lists(DestinationType)
  BY <1>1, <1>2, MergeListType
<1>4. sync \in SyncType(Strings)
  BY <1>1, <1>2 DEF SyncType
<1>5. MergeUpdate(c, upd) = [sources |-> sources, destinations |-> destinations, sync |-> sync]
  BY DEF MergeUpdate
<1> HIDE DEF sources, destinations, sync
<1> QED
  BY <1>3, <1>4, <1>5 DEF ConfigType

-----------------------------------------------------------------------------
(* Configuration d differs from c in nothing that validation looks at.        *)
SameKinds(t, u) == Len(u) = Len(t) /\ \A k \in 1..Len(t) : u[k].type = t[k].type

Alike(c, d) ==
    /\ Len(d.sources) = Len(c.sources) /\ Len(d.destinations) = Len(c.destinations)
    /\ \A i \in 1..Len(c.sources) :
           /\ d.sources[i].name = c.sources[i].name
           /\ d.sources[i].type = c.sources[i].type
           /\ d.sources[i].url = c.sources[i].url
           /\ SameKinds(c.sources[i].transformers, d.sources[i].transformers)
    /\ \A i \in 1..Len(c.destinations) :
           /\ d.destinations[i].name = c.destinations[i].name
           /\ d.destinations[i].type = c.destinations[i].type
           /\ d.destinations[i].url = c.destinations[i].url
           /\ d.destinations[i].source = c.destinations[i].source
           /\ c.destinations[i].password # "" => d.destinations[i].password # ""
           /\ SameKinds(c.destinations[i].transformers, d.destinations[i].transformers)
    /\ c.sync.interval # "invalid" => d.sync.interval # "invalid"
    /\ c.sync.delete_mode \in {"", "soft", "hard"} => d.sync.delete_mode \in {"", "soft", "hard"}

(* Configurations that are alike are valid together, can be built together    *)
(* and name their sources alike.                                              *)
LEMMA AlikeValid ==
    ASSUME NEW c \in ConfigType, NEW d \in ConfigType, Alike(c, d), Valid(c)
    PROVE  /\ Valid(d)
           /\ CanBuild(d) <=> CanBuild(c)
           /\ NamesByPosition(d.sources) = NamesByPosition(c.sources)
<1>1. Names(d.sources) = Names(c.sources) /\ Names(d.destinations) = Names(c.destinations)
  <2>1. /\ Len(d.sources) = Len(c.sources)
        /\ \A i \in 1..Len(c.sources) : d.sources[i].name = c.sources[i].name
    BY DEF Alike
  <2>2. /\ Len(d.destinations) = Len(c.destinations)
        /\ \A i \in 1..Len(c.destinations) : d.destinations[i].name = c.destinations[i].name
    BY DEF Alike
  <2>3. Names(d.sources) = Names(c.sources)
    BY <2>1 DEF Names
  <2>4. Names(d.destinations) = Names(c.destinations)
    BY <2>2 DEF Names
  <2> QED
    BY <2>3, <2>4
<1>2. /\ d.sources \in Lists(SourceType) /\ d.destinations \in Lists(DestinationType)
      /\ c.sources \in Lists(SourceType) /\ c.destinations \in Lists(DestinationType)
  BY DEF ConfigType
<1>3. d.sources # <<>> /\ d.destinations # <<>>
  BY <1>2, NotEmpty DEF Valid, ValidList, Alike
<1>4. ASSUME NEW i \in 1..Len(d.sources) PROVE ValidEntry(d.sources[i])
  <2> DEFINE x == c.sources[i]
             y == d.sources[i]
  <2>1. ValidEntry(x)
    BY DEF Valid, ValidList, Alike
  <2>2. /\ y.name = x.name /\ y.type = x.type /\ y.url = x.url
        /\ SameKinds(x.transformers, y.transformers)
    BY DEF Alike
  <2> HIDE DEF x, y
  <2>3. ValidEntry(y)
    BY <2>1, <2>2 DEF ValidEntry, SameKinds
  <2> QED
    BY <2>3 DEF y
<1>5. ASSUME NEW i \in 1..Len(d.destinations) PROVE ValidEntry(d.destinations[i])
  <2> DEFINE x == c.destinations[i]
             y == d.destinations[i]
  <2>1. ValidEntry(x)
    BY DEF Valid, ValidList, Alike
  <2>2. /\ y.name = x.name /\ y.type = x.type /\ y.url = x.url
        /\ SameKinds(x.transformers, y.transformers)
    BY DEF Alike
  <2> HIDE DEF x, y
  <2>3. ValidEntry(y)
    BY <2>1, <2>2 DEF ValidEntry, SameKinds
  <2> QED
    BY <2>3 DEF y
<1>6. ValidList(d.sources)
  BY <1>1, <1>3, <1>4 DEF Valid, ValidList, Alike
<1>7. ValidList(d.destinations)
  BY <1>1, <1>3, <1>5 DEF Valid, ValidList, Alike
<1>8. \A i \in 1..Len(d.destinations) :
          d.destinations[i].password # "" /\ d.destinations[i].source \in Names(d.sources)
  BY <1>1 DEF Valid, Alike
<1>9. Valid(d)
  BY <1>6, <1>7, <1>8 DEF Valid, Alike
<1>10. CanBuild(d) <=> CanBuild(c)
  <2>1. Connects(d.sources, SourceTypes) <=> Connects(c.sources, SourceTypes)
    BY DEF Connects, Alike
  <2>2. Connects(d.destinations, DestinationTypes) <=> Connects(c.destinations, DestinationTypes)
    BY DEF Connects, Alike
  <2> QED
    BY <2>1, <2>2 DEF CanBuild
<1>11. NamesByPosition(d.sources) = NamesByPosition(c.sources)
  BY DEF NamesByPosition, Alike
<1> QED
  BY <1>9, <1>10, <1>11

-----------------------------------------------------------------------------
(* New finds the source of each destination of a valid configuration.         *)
LEMMA SourceOfType ==
    ASSUME NEW c \in ConfigType, Valid(c), NEW i \in 1..Len(c.destinations)
    PROVE  SourceOf(c, c.destinations[i]) \in SourceType
<1> DEFINE names == NamesByPosition(c.sources)
           name == c.destinations[i].source
<1>1. name \in Names(c.sources)
  BY DEF Valid
<1>2. \E j \in DOMAIN names : names[j] = name
  BY <1>1 DEF Names, NamesByPosition
<1>3. DOMAIN names = 1..Len(c.sources)
  BY DEF NamesByPosition
<1> HIDE DEF names, name
<1>4. Position(names, name) \in 1..Len(c.sources)
  BY <1>2, <1>3 DEF Position
<1> QED
  BY <1>4, ListIsFunction DEF SourceOf, ConfigType, names, name

(* Writing prefixes into transformers keeps types and kinds.                  *)
LEMMA InjectType ==
    ASSUME NEW trs \in Seq(TransformerType), NEW p \in Strings
    PROVE  /\ InjectPrefix(trs, p) \in Seq(TransformerType)
           /\ SameKinds(trs, InjectPrefix(trs, p))
<1> DEFINE u == InjectPrefix(trs, p)
<1>1. ASSUME NEW k \in 1..Len(trs) PROVE u[k] \in TransformerType /\ u[k].type = trs[k].type
  <2>1. trs[k] \in TransformerType
    OBVIOUS
  <2> QED
    BY <2>1 DEF InjectPrefix, TransformerType
<1>2. u \in [1..Len(trs) -> TransformerType]
  BY <1>1 DEF InjectPrefix
<1> HIDE DEF u
<1>3. u \in Seq(TransformerType) /\ Len(u) = Len(trs)
  BY <1>2
<1> QED
  BY <1>1, <1>3 DEF SameKinds, u

(* A list of transformers is of the kinds of itself.                          *)
LEMMA SameKindsReflexive == \A trs : SameKinds(trs, trs)
BY DEF SameKinds

(* New changes nothing in a configuration but the options of transformers.    *)
LEMMA AfterNewKeeps ==
    ASSUME NEW c \in ConfigType, Valid(c)
    PROVE  /\ AfterNew(c) \in ConfigType
           /\ Alike(c, AfterNew(c))
           /\ AfterNew(c).sync = c.sync
           /\ \A i \in 1..Len(c.sources) : AfterNew(c).sources[i].password = c.sources[i].password
           /\ \A i \in 1..Len(c.destinations) :
                  AfterNew(c).destinations[i].password = c.destinations[i].password
<1> DEFINE Used(s) == \E j \in 1..Len(c.destinations) : c.destinations[j].source = s.name
           NewSource(s) == IF Used(s) THEN [s EXCEPT !.transformers = InjectPrefix(@, s.url)] ELSE s
           NewDest(d) == [d EXCEPT !.transformers = InjectPrefix(@, SourceOf(c, d).url)]
           sources == [i \in 1..Len(c.sources) |-> NewSource(c.sources[i])]
           destinations == [i \in 1..Len(c.destinations) |-> NewDest(c.destinations[i])]
<1>1. c.sources \in Lists(SourceType) /\ c.destinations \in Lists(DestinationType)
  BY DEF ConfigType
<1>2. Len(c.sources) \in 0..MaxEntries /\ Len(c.destinations) \in 0..MaxEntries
  BY <1>1, ListIsFunction
<1>3. ASSUME NEW i \in 1..Len(c.sources)
      PROVE  LET x == c.sources[i]
                 y == NewSource(c.sources[i])
             IN /\ y \in SourceType
                /\ y.name = x.name /\ y.type = x.type /\ y.url = x.url /\ y.password = x.password
                /\ SameKinds(x.transformers, y.transformers)
  <2> DEFINE x == c.sources[i]
  <2>1. x \in SourceType
    BY <1>1, ListIsFunction
  <2> HIDE DEF x
  <2>2. x.transformers \in Seq(TransformerType) /\ x.url \in Strings
    BY <2>1 DEF SourceType
  <2>3. LET t == InjectPrefix(x.transformers, x.url) IN
        t \in Seq(TransformerType) /\ SameKinds(x.transformers, t)
    BY <2>2, InjectType
  <2> QED
    BY <2>1, <2>3, SameKindsReflexive DEF SourceType, x
<1>4. ASSUME NEW i \in 1..Len(c.destinations)
      PROVE  LET x == c.destinations[i]
                 y == NewDest(c.destinations[i])
             IN /\ y \in DestinationType
                /\ y.name = x.name /\ y.type = x.type /\ y.url = x.url /\ y.source = x.source
                /\ y.password = x.password
                /\ SameKinds(x.transformers, y.transformers)
  <2> DEFINE x == c.destinations[i]
             url == SourceOf(c, x).url
  <2>1. x \in DestinationType
    BY <1>1, ListIsFunction
  <2>2. url \in Strings
    BY SourceOfType DEF SourceType
  <2> HIDE DEF url, x
  <2>3. x.transformers \in Seq(TransformerType)
    BY <2>1 DEF DestinationType
  <2>4. LET t == InjectPrefix(x.transformers, url) IN
        t \in Seq(TransformerType) /\ SameKinds(x.transformers, t)
    BY <2>2, <2>3, InjectType
  <2> QED
    BY <2>1, <2>4 DEF DestinationType, x, url
<1>5. AfterNew(c) = [c EXCEPT !.sources = sources, !.destinations = destinations]
  BY DEF AfterNew, ConfigType
<1>6. sources \in [1..Len(c.sources) -> SourceType]
  BY <1>3
<1>7. destinations \in [1..Len(c.destinations) -> DestinationType]
  BY <1>4
<1>8. /\ \A i \in 1..Len(c.sources) : sources[i] = NewSource(c.sources[i])
      /\ \A i \in 1..Len(c.destinations) : destinations[i] = NewDest(c.destinations[i])
  OBVIOUS
<1> HIDE DEF sources, destinations, NewSource, NewDest
<1>9. /\ sources \in Lists(SourceType) /\ Len(sources) = Len(c.sources)
      /\ destinations \in Lists(DestinationType) /\ Len(destinations) = Len(c.destinations)
  BY <1>2, <1>6, <1>7, ListType
<1>10. /\ AfterNew(c) \in ConfigType /\ AfterNew(c).sync = c.sync
       /\ AfterNew(c).sources = sources /\ AfterNew(c).destinations = destinations
  BY <1>5, <1>9 DEF ConfigType
<1>11. Alike(c, AfterNew(c))
  BY <1>3, <1>4, <1>8, <1>9, <1>10 DEF Alike
<1> QED
  BY <1>3, <1>4, <1>8, <1>10, <1>11

-----------------------------------------------------------------------------
(* Loading a valid file that the environment only completes changes nothing   *)
(* in it but the passwords and settings that the environment gives.           *)
Override(entries, i, old) ==
    IF i <= Len(entries) /\ entries[i].password # "" THEN entries[i].password ELSE old

(* An entry that the environment only completes keeps name, type, URL and     *)
(* transformers.                                                              *)
LEMMA MergedSource ==
    ASSUME NEW s \in Lists(SourceType), NEW t \in Lists(SourceType), OnlyPasswords(s, t),
           NEW i \in 1..Len(s)
    PROVE  LET m == MergeLists(s, t, NoSource)[i] IN
           /\ m \in SourceType
           /\ m.name = s[i].name /\ m.type = s[i].type /\ m.url = s[i].url
           /\ m.password = Override(t, i, s[i].password)
           /\ m.transformers = s[i].transformers
<1> DEFINE e == IF i <= Len(t) THEN t[i] ELSE NoSource
<1>1. LongerOf(s, t) = Len(s)
  BY LongerType DEF OnlyPasswords
<1>2. MergeLists(s, t, NoSource)[i] = MergeEntry(s[i], e)
  BY <1>1 DEF MergeLists
<1>3. s[i] \in SourceType /\ Len(t) \in Nat
  BY ListIsFunction
<1>4. e \in SourceType
  BY <1>3, ListIsFunction, NoEntryType
<1>5. e.name = "" /\ e.type = "" /\ e.url = ""
  <2>1. CASE i <= Len(t)
    <3>1. t[i] \in SourceType /\ i \in 1..Len(t)
      BY <1>3, <2>1, ListIsFunction
    <3>2. DOMAIN t[i] = {"name", "type", "url", "password", "transformers", "destination"}
      BY <3>1 DEF SourceType
    <3> QED
      BY <2>1, <3>1, <3>2 DEF OnlyPasswords, Scalars
  <2>2. CASE ~(i <= Len(t))
    BY <2>2 DEF NoSource
  <2> QED
    BY <2>1, <2>2
<1>6. (IF e.password # "" THEN e.password ELSE s[i].password) = Override(t, i, s[i].password)
  BY DEF Override, NoSource
<1> DEFINE x == s[i]
           m == MergeEntry(x, e)
<1> HIDE DEF e, x
<1>7. /\ m \in SourceType /\ m.transformers = x.transformers
      /\ \A f \in {"name", "type", "url", "password"} : m[f] = IF e[f] # "" THEN e[f] ELSE x[f]
  BY <1>3, <1>4, MergeSource DEF x
<1> HIDE DEF m
<1>8. m.name = x.name /\ m.type = x.type /\ m.url = x.url
  BY <1>5, <1>7
<1>9. m.password = IF e.password # "" THEN e.password ELSE x.password
  BY <1>7
<1> QED
  BY <1>2, <1>6, <1>7, <1>8, <1>9 DEF m, x

LEMMA MergedDestination ==
    ASSUME NEW s \in Lists(DestinationType), NEW t \in Lists(DestinationType), OnlyPasswords(s, t),
           NEW i \in 1..Len(s)
    PROVE  LET m == MergeLists(s, t, NoDestination)[i] IN
           /\ m \in DestinationType
           /\ m.name = s[i].name /\ m.type = s[i].type /\ m.url = s[i].url /\ m.source = s[i].source
           /\ m.password = Override(t, i, s[i].password)
           /\ m.transformers = s[i].transformers
<1> DEFINE e == IF i <= Len(t) THEN t[i] ELSE NoDestination
<1>1. LongerOf(s, t) = Len(s)
  BY LongerType DEF OnlyPasswords
<1>2. MergeLists(s, t, NoDestination)[i] = MergeEntry(s[i], e)
  BY <1>1 DEF MergeLists
<1>3. s[i] \in DestinationType /\ Len(t) \in Nat
  BY ListIsFunction
<1>4. e \in DestinationType
  BY <1>3, ListIsFunction, NoEntryType
<1>5. e.name = "" /\ e.type = "" /\ e.url = "" /\ e.source = ""
  <2>1. CASE i <= Len(t)
    <3>1. t[i] \in DestinationType /\ i \in 1..Len(t)
      BY <1>3, <2>1, ListIsFunction
    <3>2. DOMAIN t[i] = {"name", "type", "url", "password", "source", "transformers"}
      BY <3>1 DEF DestinationType
    <3> QED
      BY <2>1, <3>1, <3>2 DEF OnlyPasswords, Scalars
  <2>2. CASE ~(i <= Len(t))
    BY <2>2 DEF NoDestination
  <2> QED
    BY <2>1, <2>2
<1>6. (IF e.password # "" THEN e.password ELSE s[i].password) = Override(t, i, s[i].password)
  BY DEF Override, NoDestination
<1> DEFINE x == s[i]
           m == MergeEntry(x, e)
<1> HIDE DEF e, x
<1>7. /\ m \in DestinationType /\ m.transformers = x.transformers
      /\ \A f \in {"name", "type", "url", "password", "source"} : m[f] = IF e[f] # "" THEN e[f] ELSE x[f]
  <2>1. x \in DestinationType
    BY <1>3 DEF x
  <2>2. m = MergeFields(x, e, Scalars)
    BY <1>4, <2>1, MergeDestination
  <2>3. \A f \in Scalars : MergeFields(x, e, Scalars)[f] = IF e[f] # "" THEN e[f] ELSE x[f]
    BY <1>4, <2>1, MergeDestination
  <2>4. MergeFields(x, e, Scalars) \in DestinationType
        /\ MergeFields(x, e, Scalars).transformers = x.transformers
    BY <1>4, <2>1, MergeDestination
  <2> QED
    BY <2>2, <2>3, <2>4 DEF Scalars
<1> HIDE DEF m
<1>8. m.name = x.name /\ m.type = x.type /\ m.url = x.url /\ m.source = x.source
  BY <1>5, <1>7
<1>9. m.password = IF e.password # "" THEN e.password ELSE x.password
  BY <1>7
<1> QED
  BY <1>2, <1>6, <1>7, <1>8, <1>9 DEF m, x

(* A complete entry gets no defaults.                                         *)
LEMMA DefaultKeepsSource ==
    ASSUME NEW x \in SourceType, x.name # "", x.type # "", NEW names, NEW i
    PROVE  Default(x, names, i) = x
BY DEF Default, SourceType

LEMMA DefaultKeepsDestination ==
    ASSUME NEW x \in DestinationType, x.name # "", x.type # "", NEW names, NEW i
    PROVE  Default(x, names, i) = x
BY DEF Default, DestinationType

(* Loading what an update has written, in an environment that only completes  *)
(* it, keeps every entry but for passwords, and the settings but for those of *)
(* the environment.                                                           *)
LEMMA LoadKeeps ==
    ASSUME NEW c \in ConfigType, Valid(c), env \in Environments, EnvCompletes(c)
    PROVE  LET l == Load(c, env) IN
           /\ Len(l.sources) = Len(c.sources) /\ Len(l.destinations) = Len(c.destinations)
           /\ \A i \in 1..Len(c.sources) :
                  /\ l.sources[i].name = c.sources[i].name
                  /\ l.sources[i].type = c.sources[i].type
                  /\ l.sources[i].url = c.sources[i].url
                  /\ l.sources[i].password = Override(env.tree.sources, i, c.sources[i].password)
                  /\ l.sources[i].transformers = c.sources[i].transformers
           /\ \A i \in 1..Len(c.destinations) :
                  /\ l.destinations[i].name = c.destinations[i].name
                  /\ l.destinations[i].type = c.destinations[i].type
                  /\ l.destinations[i].url = c.destinations[i].url
                  /\ l.destinations[i].source = c.destinations[i].source
                  /\ l.destinations[i].password =
                         Override(env.tree.destinations, i, c.destinations[i].password)
                  /\ l.destinations[i].transformers = c.destinations[i].transformers
           /\ l.sync.filter_private = c.sync.filter_private
           /\ l.sync.interval = IF env.tree.sync.interval # "" THEN env.tree.sync.interval
                                ELSE c.sync.interval
           /\ l.sync.delete_mode = IF c.sync.delete_mode = "" THEN "soft" ELSE c.sync.delete_mode
<1> DEFINE t == BuildEnvTree(env.tree)
           m == Merged(c, env)
           d == SetDefaults(m)
           l == Load(c, env)
<1>1. env.tree \in ConfigType /\ env.config = Omitted
  BY ConfigurationAssumption DEF EnvCompletes
<1>2. /\ t \in ConfigType
      /\ t.sources = env.tree.sources /\ t.destinations = env.tree.destinations
      /\ t.sync.interval = env.tree.sync.interval
      /\ t.sync.delete_mode = "" /\ t.sync.filter_private = ""
  BY <1>1, ConfigurationAssumption DEF BuildEnvTree, ConfigType, SyncType
<1>3. /\ m.sources = MergeLists(c.sources, t.sources, NoSource)
      /\ m.destinations = MergeLists(c.destinations, t.destinations, NoDestination)
      /\ m.sync = MergeFields(c.sync, t.sync, DOMAIN c.sync)
  BY <1>1 DEF Merged, Base, DeepMerge
<1>4. OnlyPasswords(c.sources, t.sources) /\ OnlyPasswords(c.destinations, t.destinations)
  BY <1>2 DEF EnvCompletes
<1>5. m \in ConfigType
  BY MergedType
<1> HIDE DEF t, m
<1>6. Len(m.sources) = Len(c.sources) /\ Len(m.destinations) = Len(c.destinations)
  <2>1. /\ c.sources \in Lists(SourceType) /\ t.sources \in Lists(SourceType)
        /\ c.destinations \in Lists(DestinationType) /\ t.destinations \in Lists(DestinationType)
    BY <1>2 DEF ConfigType
  <2>2. Len(t.sources) <= Len(c.sources) /\ Len(t.destinations) <= Len(c.destinations)
    BY <1>4 DEF OnlyPasswords
  <2>3. LongerOf(c.sources, t.sources) = Len(c.sources)
    BY <2>1, <2>2, LongerType
  <2>4. LongerOf(c.destinations, t.destinations) = Len(c.destinations)
    BY <2>1, <2>2, LongerType
  <2>5. Len(m.sources) = Len(c.sources)
    BY <1>3, <2>1, <2>3, MergeSources
  <2>6. Len(m.destinations) = Len(c.destinations)
    BY <1>3, <2>1, <2>4, MergeDestinations
  <2> QED
    BY <2>5, <2>6
<1>7. ASSUME NEW i \in 1..Len(c.sources)
      PROVE  /\ d.sources[i] = m.sources[i]
             /\ m.sources[i] \in SourceType
             /\ m.sources[i].name = c.sources[i].name
             /\ m.sources[i].type = c.sources[i].type
             /\ m.sources[i].url = c.sources[i].url
             /\ m.sources[i].password = Override(t.sources, i, c.sources[i].password)
             /\ m.sources[i].transformers = c.sources[i].transformers
  <2>1. ValidEntry(c.sources[i])
    BY DEF Valid, ValidList
  <2>2. /\ m.sources[i] \in SourceType
        /\ m.sources[i].name = c.sources[i].name
        /\ m.sources[i].type = c.sources[i].type
        /\ m.sources[i].url = c.sources[i].url
        /\ m.sources[i].password = Override(t.sources, i, c.sources[i].password)
        /\ m.sources[i].transformers = c.sources[i].transformers
    <3>1. c.sources \in Lists(SourceType) /\ t.sources \in Lists(SourceType)
      BY <1>2 DEF ConfigType
    <3> QED
      BY <1>3, <1>4, <3>1, MergedSource
  <2>3. Default(m.sources[i], SourceNames, i) = m.sources[i]
    BY <2>1, <2>2, DefaultKeepsSource DEF ValidEntry
  <2> QED
    BY <1>6, <2>2, <2>3 DEF SetDefaults
<1>8. ASSUME NEW i \in 1..Len(c.destinations)
      PROVE  /\ d.destinations[i] = m.destinations[i]
             /\ m.destinations[i] \in DestinationType
             /\ m.destinations[i].name = c.destinations[i].name
             /\ m.destinations[i].type = c.destinations[i].type
             /\ m.destinations[i].url = c.destinations[i].url
             /\ m.destinations[i].source = c.destinations[i].source
             /\ m.destinations[i].password = Override(t.destinations, i, c.destinations[i].password)
             /\ m.destinations[i].transformers = c.destinations[i].transformers
  <2>1. ValidEntry(c.destinations[i])
    BY DEF Valid, ValidList
  <2>2. /\ m.destinations[i] \in DestinationType
        /\ m.destinations[i].name = c.destinations[i].name
        /\ m.destinations[i].type = c.destinations[i].type
        /\ m.destinations[i].url = c.destinations[i].url
        /\ m.destinations[i].source = c.destinations[i].source
        /\ m.destinations[i].password = Override(t.destinations, i, c.destinations[i].password)
        /\ m.destinations[i].transformers = c.destinations[i].transformers
    <3>1. c.destinations \in Lists(DestinationType) /\ t.destinations \in Lists(DestinationType)
      BY <1>2 DEF ConfigType
    <3> QED
      BY <1>3, <1>4, <3>1, MergedDestination
  <2>3. Default(m.destinations[i], DestNames, i) = m.destinations[i]
    BY <2>1, <2>2, DefaultKeepsDestination DEF ValidEntry
  <2> QED
    BY <1>6, <2>2, <2>3 DEF SetDefaults
<1>9. d \in ConfigType /\ Len(d.sources) = Len(c.sources) /\ Len(d.destinations) = Len(c.destinations)
  BY <1>5, <1>6, SetDefaultsType
<1>10. /\ d.sync.filter_private = m.sync.filter_private
       /\ d.sync.interval = m.sync.interval
       /\ d.sync.delete_mode = IF m.sync.delete_mode = "" THEN "soft" ELSE m.sync.delete_mode
  BY <1>5 DEF SetDefaults, ConfigType, SyncType
<1>11. /\ m.sync.filter_private = c.sync.filter_private
       /\ m.sync.delete_mode = c.sync.delete_mode
       /\ m.sync.interval = IF env.tree.sync.interval # "" THEN env.tree.sync.interval
                            ELSE c.sync.interval
  <2>1. c.sync \in SyncType(Strings) /\ t.sync \in SyncType(Strings)
    BY <1>2 DEF ConfigType
  <2>2. LET q == MergeFields(c.sync, t.sync, DOMAIN c.sync) IN
        /\ q.interval = IF t.sync.interval # "" THEN t.sync.interval ELSE c.sync.interval
        /\ q.delete_mode = IF t.sync.delete_mode # "" THEN t.sync.delete_mode ELSE c.sync.delete_mode
        /\ q.filter_private =
               IF t.sync.filter_private # "" THEN t.sync.filter_private ELSE c.sync.filter_private
    BY <2>1, MergeSync
  <2> QED
    BY <1>2, <1>3, <2>2
<1> HIDE DEF d
<1>12. d.destinations # <<>>
  BY <1>9, NotEmpty DEF Valid, ValidList, ConfigType
<1>13. l = [d EXCEPT !.sources = ClearNested(d.sources)]
  BY <1>9, <1>12 DEF Load, MigrateLegacy, ConfigType, d, m
<1>14. /\ l.sources = ClearNested(d.sources) /\ Len(l.sources) = Len(c.sources)
       /\ l.destinations = d.destinations /\ l.sync = d.sync
  BY <1>9, <1>13, ClearNestedType DEF ConfigType
<1>15. \A i \in 1..Len(c.sources) : l.sources[i] = [d.sources[i] EXCEPT !.destination = NoDestination]
  BY <1>9, <1>14 DEF ClearNested
<1>16. ASSUME NEW i \in 1..Len(c.sources)
       PROVE  /\ l.sources[i].name = m.sources[i].name
              /\ l.sources[i].type = m.sources[i].type
              /\ l.sources[i].url = m.sources[i].url
              /\ l.sources[i].password = m.sources[i].password
              /\ l.sources[i].transformers = m.sources[i].transformers
  <2>1. d.sources[i] = m.sources[i] /\ m.sources[i] \in SourceType
    BY <1>7
  <2>2. l.sources[i] = [m.sources[i] EXCEPT !.destination = NoDestination]
    BY <1>15, <2>1
  <2> QED
    BY <2>1, <2>2 DEF SourceType
<1> HIDE DEF l
<1>17. \A i \in 1..Len(c.sources) :
           /\ l.sources[i].name = c.sources[i].name
           /\ l.sources[i].type = c.sources[i].type
           /\ l.sources[i].url = c.sources[i].url
           /\ l.sources[i].password = Override(env.tree.sources, i, c.sources[i].password)
           /\ l.sources[i].transformers = c.sources[i].transformers
  <2>1. t.sources = env.tree.sources
    BY <1>2
  <2> QED
    BY <2>1, <1>7, <1>16
<1>18. \A i \in 1..Len(c.destinations) :
           /\ l.destinations[i].name = c.destinations[i].name
           /\ l.destinations[i].type = c.destinations[i].type
           /\ l.destinations[i].url = c.destinations[i].url
           /\ l.destinations[i].source = c.destinations[i].source
           /\ l.destinations[i].password =
                  Override(env.tree.destinations, i, c.destinations[i].password)
           /\ l.destinations[i].transformers = c.destinations[i].transformers
  <2>1. t.destinations = env.tree.destinations /\ l.destinations = d.destinations
    BY <1>2, <1>14
  <2>2. ASSUME NEW i \in 1..Len(c.destinations) PROVE l.destinations[i] = m.destinations[i]
    BY <2>1, <1>8
  <2> QED
    BY <2>1, <2>2, <1>8, ZenonT(60)
<1>19. /\ l.sync.filter_private = c.sync.filter_private
       /\ l.sync.interval = IF env.tree.sync.interval # "" THEN env.tree.sync.interval
                            ELSE c.sync.interval
       /\ l.sync.delete_mode = IF c.sync.delete_mode = "" THEN "soft" ELSE c.sync.delete_mode
  BY <1>10, <1>11, <1>14
<1> QED
  BY <1>9, <1>14, <1>17, <1>18, <1>19 DEF l

(* The source of a destination has the name it refers to.                     *)
LEMMA SourceOfName ==
    ASSUME NEW c \in ConfigType, Valid(c), NEW i \in 1..Len(c.destinations)
    PROVE  SourceOf(c, c.destinations[i]).name = c.destinations[i].source
<1> DEFINE names == NamesByPosition(c.sources)
           name == c.destinations[i].source
<1>1. \E j \in DOMAIN names : names[j] = name
  BY DEF Valid, Names, NamesByPosition
<1>2. \A j \in DOMAIN names : names[j] = c.sources[j].name
  BY DEF NamesByPosition
<1> HIDE DEF names, name
<1>3. Position(names, name) \in DOMAIN names /\ names[Position(names, name)] = name
  BY <1>1 DEF Position
<1> QED
  BY <1>2, <1>3 DEF SourceOf, names, name

(* The source of a destination is found in the same place.                    *)
LEMMA SourceOfAlike ==
    ASSUME NEW c \in ConfigType, NEW l \in ConfigType, Valid(c),
           NamesByPosition(l.sources) = NamesByPosition(c.sources),
           NEW i \in 1..Len(c.destinations), l.destinations[i].source = c.destinations[i].source
    PROVE  \E j \in 1..Len(c.sources) :
               /\ SourceOf(c, c.destinations[i]) = c.sources[j]
               /\ SourceOf(l, l.destinations[i]) = l.sources[j]
<1> DEFINE names == NamesByPosition(c.sources)
           name == c.destinations[i].source
<1>1. name \in Names(c.sources)
  BY DEF Valid
<1>2. \E j \in DOMAIN names : names[j] = name
  BY <1>1 DEF Names, NamesByPosition
<1>3. DOMAIN names = 1..Len(c.sources)
  BY DEF NamesByPosition
<1> HIDE DEF names, name
<1>4. Position(names, name) \in 1..Len(c.sources)
  BY <1>2, <1>3 DEF Position
<1> QED
  BY <1>4 DEF SourceOf, names, name

(* The pipelines built after loading are those built after the update.        *)
LEMMA LoadKeepsPipelines ==
    ASSUME NEW c \in ConfigType, Valid(c), env \in Environments, EnvCompletes(c)
    PROVE  /\ Load(c, env) \in ConfigType
           /\ Valid(Load(c, env))
           /\ CanBuild(Load(c, env)) <=> CanBuild(c)
           /\ NewPipelines(Load(c, env)) = NewPipelines(c)
<1> DEFINE l == Load(c, env)
<1>1. c.destinations # <<>>
  BY DEF Valid, ValidList
<1>2. l \in ConfigType
  BY LoadType
<1> HIDE DEF l
<1>3. /\ Len(l.sources) = Len(c.sources) /\ Len(l.destinations) = Len(c.destinations)
      /\ \A i \in 1..Len(c.sources) :
             /\ l.sources[i].name = c.sources[i].name
             /\ l.sources[i].type = c.sources[i].type
             /\ l.sources[i].url = c.sources[i].url
             /\ l.sources[i].transformers = c.sources[i].transformers
  BY LoadKeeps DEF l
<1>4. \A i \in 1..Len(c.destinations) :
          /\ l.destinations[i].name = c.destinations[i].name
          /\ l.destinations[i].type = c.destinations[i].type
          /\ l.destinations[i].url = c.destinations[i].url
          /\ l.destinations[i].source = c.destinations[i].source
          /\ c.destinations[i].password # "" => l.destinations[i].password # ""
          /\ l.destinations[i].transformers = c.destinations[i].transformers
  <2>1. \A i \in 1..Len(c.destinations) :
            /\ l.destinations[i].name = c.destinations[i].name
            /\ l.destinations[i].type = c.destinations[i].type
            /\ l.destinations[i].url = c.destinations[i].url
            /\ l.destinations[i].source = c.destinations[i].source
            /\ l.destinations[i].password =
                   Override(env.tree.destinations, i, c.destinations[i].password)
            /\ l.destinations[i].transformers = c.destinations[i].transformers
    BY LoadKeeps DEF l
  <2>2. \A i, old : old # "" => Override(env.tree.destinations, i, old) # ""
    BY DEF Override
  <2> QED
    BY <2>1, <2>2, ZenonT(60)
<1>5. /\ l.sync.filter_private = c.sync.filter_private
      /\ c.sync.interval # "invalid" => l.sync.interval # "invalid"
      /\ c.sync.delete_mode \in {"", "soft", "hard"} => l.sync.delete_mode \in {"", "soft", "hard"}
  BY LoadKeeps DEF l, EnvCompletes
<1>6. Alike(c, l)
  BY <1>3, <1>4, <1>5, SameKindsReflexive DEF Alike
<1>7. /\ Valid(l) /\ (CanBuild(l) <=> CanBuild(c))
      /\ NamesByPosition(l.sources) = NamesByPosition(c.sources)
  BY <1>2, <1>6, AlikeValid
<1>8. ASSUME NEW i \in 1..Len(c.destinations)
      PROVE  /\ SourceOf(l, l.destinations[i]).url = SourceOf(c, c.destinations[i]).url
             /\ SourceOf(l, l.destinations[i]).transformers = SourceOf(c, c.destinations[i]).transformers
  <2>1. PICK j \in 1..Len(c.sources) :
            /\ SourceOf(c, c.destinations[i]) = c.sources[j]
            /\ SourceOf(l, l.destinations[i]) = l.sources[j]
    BY <1>2, <1>4, <1>7, SourceOfAlike
  <2> QED
    BY <1>3, <2>1
<1>9. NewPipelines(l) = NewPipelines(c)
  BY <1>3, <1>4, <1>5, <1>8 DEF NewPipelines
<1> QED
  BY <1>2, <1>7, <1>9 DEF l

(* There is one pipeline for each destination.                                *)
LEMMA PipelinesLength ==
    ASSUME NEW c \in ConfigType
    PROVE  Len(NewPipelines(c)) = Len(c.destinations)
<1> DEFINE p == NewPipelines(c)
           n == Len(c.destinations)
           T == {p[i] : i \in 1..n}
<1>1. n \in 0..MaxEntries
  BY ListIsFunction DEF ConfigType
<1>2. p = [i \in 1..n |-> p[i]]
  BY DEF NewPipelines
<1> HIDE DEF p, n
<1>3. p \in [1..n -> T]
  BY <1>2
<1> QED
  BY <1>1, <1>3, ListType DEF p, n

-----------------------------------------------------------------------------
(* What pipelines are built from and tried with consists of these texts.      *)
Texts == Strings \cup OwnUids \cup Words

LEMMA TextTypes ==
    /\ Words \subseteq Texts /\ Strings \subseteq Texts
    /\ \A trs \in Seq(TransformerType) : trs \in Seq(Transformers(Texts))
    /\ \A e \in Events : e \in VEvents(Texts)
<1>1. Words \subseteq Texts /\ Strings \subseteq Texts /\ Strings \cup OwnUids \subseteq Texts
  BY DEF Texts
<1>2. TransformerType \subseteq Transformers(Texts)
  BY <1>1 DEF TransformerType, Transformers
<1>3. \A trs \in Seq(TransformerType) : trs \in Seq(Transformers(Texts))
  BY <1>2
<1>4. ASSUME NEW e \in EventType PROVE e \in VEvents(Texts)
  <2>1. e.uid \in Seq(Texts) /\ e.summary \in Seq(Texts)
    BY <1>1 DEF EventType
  <2> QED
    BY <1>1, <2>1 DEF EventType, VEvents
<1>5. \A e \in Events : e \in VEvents(Texts)
  BY <1>4, EventsAssumption
<1> QED
  BY <1>1, <1>3, <1>5

(* The pipeline of a destination of a valid configuration, from its parts.    *)
LEMMA PipelineOf ==
    ASSUME NEW c \in ConfigType, Valid(c), NEW i \in 1..Len(c.destinations)
    PROVE  LET d == c.destinations[i]
               s == SourceOf(c, d)
               filterPrivate == c.sync.filter_private = "true"
           IN /\ s.url \in Strings /\ filterPrivate \in BOOLEAN
              /\ s.transformers \in Seq(Transformers(Texts))
              /\ d.transformers \in Seq(Transformers(Texts))
              /\ NewPipelines(c)[i] = NewPipeline(filterPrivate, s.url, s.transformers, d.transformers)
<1> DEFINE d == c.destinations[i]
           s == SourceOf(c, d)
<1>1. d \in DestinationType /\ s \in SourceType
  BY SourceOfType, ListIsFunction DEF ConfigType
<1>2. NewPipelines(c)[i] =
          NewPipeline(c.sync.filter_private = "true", s.url, s.transformers, d.transformers)
  BY DEF NewPipelines
<1> HIDE DEF d, s
<1>3. /\ s.url \in Strings /\ s.transformers \in Seq(TransformerType)
      /\ d.transformers \in Seq(TransformerType)
  BY <1>1 DEF SourceType, DestinationType
<1>4. s.transformers \in Seq(Transformers(Texts)) /\ d.transformers \in Seq(Transformers(Texts))
  BY <1>3, TextTypes
<1>5. (c.sync.filter_private = "true") \in BOOLEAN
  OBVIOUS
<1> QED
  BY <1>2, <1>3, <1>4, <1>5 DEF d, s

(* New, run again on the configuration it leaves behind, builds the same.     *)
LEMMA NewPipelinesTwice ==
    ASSUME NEW c \in ConfigType, Valid(c)
    PROVE  NewPipelines(AfterNew(c)) = NewPipelines(c)
<1> DEFINE a == AfterNew(c)
           n == Len(c.destinations)
           Used(s) == \E j \in 1..n : c.destinations[j].source = s.name
<1>1. a \in ConfigType /\ Alike(c, a) /\ a.sync = c.sync
  BY AfterNewKeeps
<1>2. Valid(a) /\ NamesByPosition(a.sources) = NamesByPosition(c.sources)
  BY <1>1, AlikeValid
<1>3. /\ \A j \in 1..Len(c.sources) : Used(c.sources[j]) =>
             a.sources[j] = [c.sources[j] EXCEPT !.transformers = InjectPrefix(@, c.sources[j].url)]
      /\ \A i \in 1..n : a.destinations[i] =
             [c.destinations[i] EXCEPT
                 !.transformers = InjectPrefix(@, SourceOf(c, c.destinations[i]).url)]
  BY DEF AfterNew, ConfigType
<1> HIDE DEF a
<1>4. Len(a.destinations) = n
  BY <1>1 DEF Alike
<1>5. ASSUME NEW i \in 1..n PROVE NewPipelines(a)[i] = NewPipelines(c)[i]
  <2> DEFINE d == c.destinations[i]
             s == SourceOf(c, d)
             b == c.sync.filter_private = "true"
  <2>1. PICK j \in 1..Len(c.sources) :
            s = c.sources[j] /\ SourceOf(a, a.destinations[i]) = a.sources[j]
    BY <1>1, <1>2, SourceOfAlike DEF Alike
  <2>2. s.name = d.source
    <3>1. NamesByPosition(c.sources)[j] = c.sources[j].name
      BY DEF NamesByPosition
    <3> QED
      BY <2>1, SourceOfName
  <2>3. Used(c.sources[j])
    BY <2>1, <2>2
  <2>4. /\ a.sources[j] = [s EXCEPT !.transformers = InjectPrefix(@, s.url)]
        /\ a.destinations[i] = [d EXCEPT !.transformers = InjectPrefix(@, s.url)]
    BY <1>3, <2>1, <2>3
  <2>5. /\ s \in SourceType /\ d \in DestinationType
    BY SourceOfType, ListIsFunction DEF ConfigType
  <2> HIDE DEF s, d
  <2>6. /\ a.sources[j].url = s.url
        /\ a.sources[j].transformers = InjectPrefix(s.transformers, s.url)
        /\ a.destinations[i].transformers = InjectPrefix(d.transformers, s.url)
    BY <2>4, <2>5 DEF SourceType, DestinationType
  <2>7. /\ NewPipelines(a)[i] = NewPipeline(b, s.url, InjectPrefix(s.transformers, s.url),
                                           InjectPrefix(d.transformers, s.url))
    <3>1. NewPipelines(a)[i] =
              NewPipeline(a.sync.filter_private = "true", SourceOf(a, a.destinations[i]).url,
                          SourceOf(a, a.destinations[i]).transformers,
                          a.destinations[i].transformers)
      BY <1>4 DEF NewPipelines
    <3> QED
      BY <1>1, <2>1, <2>6, <3>1
  <2>8. /\ NewPipelines(c)[i] = NewPipeline(b, s.url, s.transformers, d.transformers)
        /\ s.url \in Texts /\ b \in BOOLEAN
        /\ s.transformers \in Seq(Transformers(Texts)) /\ d.transformers \in Seq(Transformers(Texts))
    BY PipelineOf, TextTypes DEF s, d
  <2> HIDE DEF b
  <2>9. NewPipeline(b, s.url, InjectPrefix(s.transformers, s.url), InjectPrefix(d.transformers, s.url))
            = NewPipeline(b, s.url, s.transformers, d.transformers)
    BY <2>8, NewPipelineTwice
  <2> QED
    BY <2>7, <2>8, <2>9
<1>6. \A x : NewPipelines(x) = [i \in 1..Len(x.destinations) |-> NewPipelines(x)[i]]
  BY DEF NewPipelines
<1>7. NewPipelines(a) = NewPipelines(c)
  BY <1>4, <1>5, <1>6
<1> QED
  BY <1>7 DEF a

-----------------------------------------------------------------------------
(* What is in the file, by the one who wrote it.                              *)
FileInv ==
    /\ origin = "user" => file \in Files
    /\ origin = "torn" => file = Empty
    /\ origin \in {"put", "refused"} => Valid(file)
    /\ origin = "put" => CanBuild(file)

(* A start fails only on what it has loaded.                                  *)
FailedInv == up = "failed" => ~(Valid(Load(file, env)) /\ CanBuild(Load(file, env)))

(* The pipelines of the active Syncer are those New would build again from    *)
(* the configuration in memory, with the prefixes it has written there.       *)
PipelinesInv == Effective => pipelines = NewPipelines(cfg)

ConfigurationInv == TypeOK /\ FileInv /\ FailedInv /\ PipelinesInv

(* The file that a torn write leaves is well typed.                           *)
LEMMA EmptyType == Empty \in ConfigType
<1>1. <<>> \in Seq(SourceType) /\ <<>> \in Seq(DestinationType) /\ Len(<<>>) = 0
  OBVIOUS
<1>2. <<>> \in Lists(SourceType) /\ <<>> \in Lists(DestinationType)
  BY <1>1, Bounds DEF Lists
<1> QED
  BY <1>2, ConfigurationAssumption DEF Empty, ConfigType, SyncType

(* A configuration that has been accepted: what New makes of it.              *)
LEMMA NewIsEffective ==
    ASSUME NEW c \in ConfigType, Valid(c), CanBuild(c)
    PROVE  /\ AfterNew(c) \in ConfigType
           /\ Valid(AfterNew(c)) /\ CanBuild(AfterNew(c))
           /\ NewPipelines(c) = NewPipelines(AfterNew(c))
           /\ Len(NewPipelines(c)) = Len(AfterNew(c).destinations)
<1>1. /\ AfterNew(c) \in ConfigType /\ Valid(AfterNew(c)) /\ CanBuild(AfterNew(c))
      /\ Len(NewPipelines(c)) = Len(AfterNew(c).destinations)
  BY AfterNewKeeps, AlikeValid, PipelinesLength, ZenonT(60) DEF Alike
<1> QED
  BY <1>1, NewPipelinesTwice

(* Every step keeps the invariant.                                            *)
LEMMA StepPreservesInv ==
    ASSUME ConfigurationInv, [Next]_vars
    PROVE  ConfigurationInv'
<1> USE DEF ConfigurationInv, TypeOK, FileInv, FailedInv, PipelinesInv, Effective
<1>1. CASE Start
  <2> DEFINE c == Load(file, env)
  <2>1. c \in ConfigType
    BY LoadType
  <2> HIDE DEF c
  <2>2. /\ UNCHANGED <<env, file, origin, answer, edits>>
        /\ IF Valid(c) /\ CanBuild(c)
             THEN up' = "up" /\ cfg' = AfterNew(c) /\ pipelines' = NewPipelines(c)
             ELSE up' = "failed" /\ UNCHANGED <<cfg, pipelines>>
    BY <1>1 DEF Start, c
  <2>3. CASE Valid(c) /\ CanBuild(c)
    BY <2>1, <2>2, <2>3, NewIsEffective
  <2>4. CASE ~(Valid(c) /\ CanBuild(c))
    BY <2>2, <2>4 DEF c
  <2> QED
    BY <2>3, <2>4
<1>2. CASE Stop
  BY <1>2, EmptyType DEF Stop, Down
<1>3. CASE EditFile
  <2>1. file' \in ConfigType
    BY <1>3, ConfigurationAssumption DEF EditFile
  <2> QED
    BY <1>3, <2>1, EmptyType, Bounds DEF EditFile, Down
<1>4. CASE CrashInWrite
  BY <1>4, EmptyType, Bounds DEF CrashInWrite, Down
<1>5. ASSUME NEW upd \in Updates, PutInvalid(upd) PROVE ConfigurationInv'
  BY <1>5, MergeUpdateType, Bounds DEF PutInvalid, Put
<1>6. ASSUME NEW upd \in Updates, PutWriteFails(upd) PROVE ConfigurationInv'
  BY <1>6, MergeUpdateType, EmptyType, Bounds DEF PutWriteFails, Put
<1>7. ASSUME NEW upd \in Updates, PutNotBuilt(upd) PROVE ConfigurationInv'
  BY <1>7, MergeUpdateType, Bounds DEF PutNotBuilt, Put
<1>8. ASSUME NEW upd \in Updates, PutAccepted(upd) PROVE ConfigurationInv'
  BY <1>8, MergeUpdateType, NewIsEffective, Bounds DEF PutAccepted
<1>9. CASE UNCHANGED vars
  BY <1>9 DEF vars
<1> QED
  BY <1>1, <1>2, <1>3, <1>4, <1>5, <1>6, <1>7, <1>8, <1>9 DEF Next

(* The invariant holds in every reachable state.                              *)
LEMMA InvHolds == Spec => []ConfigurationInv
<1>1. Init => ConfigurationInv
  <2> SUFFICES ASSUME Init PROVE ConfigurationInv
    OBVIOUS
  <2>1. file \in ConfigType
    BY ConfigurationAssumption DEF Init
  <2> QED
    BY <2>1, EmptyType, Bounds DEF Init, ConfigurationInv, TypeOK, FileInv, FailedInv, PipelinesInv,
       Effective
<1> QED
  BY <1>1, StepPreservesInv, PTL DEF Spec

(* The values of the variables; the active Syncer always has been built from  *)
(* a valid configuration, whatever refused updates have left in memory.       *)
THEOREM TypeCorrect == Spec => []TypeOK
BY InvHolds, PTL DEF ConfigurationInv

(* For every file, environment and sequence of updates, crashes and restarts: *)
(* what an update has written keeps the process from starting only when the   *)
(* write was cut short, or when newSyncer has refused an entry for its type   *)
(* or its URL after the update was written.                                   *)
THEOREM StartFailuresAreKnown == Spec => []StartFailures
<1>1. ConfigurationInv => StartFailures
  <2> SUFFICES ASSUME ConfigurationInv, up = "failed", origin # "user", EnvCompletes(file),
                      origin # "torn"
               PROVE  /\ origin = "refused"
                      /\ \/ NoConnector(file.sources, SourceTypes)
                         \/ NoConnector(file.destinations, DestinationTypes)
    BY DEF StartFailures
  <2>1. Valid(file) /\ file \in ConfigType /\ env \in Environments
        /\ origin \in {"put", "refused"}
    BY DEF ConfigurationInv, TypeOK, FileInv
  <2>2. Valid(Load(file, env)) /\ (CanBuild(Load(file, env)) <=> CanBuild(file))
    BY <2>1, LoadKeepsPipelines
  <2>3. origin = "refused" /\ ~CanBuild(file)
    BY <2>1, <2>2 DEF ConfigurationInv, FileInv, FailedInv
  <2> QED
    BY <2>3 DEF CanBuild, Connects, NoConnector
<1> QED
  BY <1>1, InvHolds, PTL

(* Entries are the same when their fields are.                                *)
LEMMA SameEntriesByField ==
    ASSUME NEW new, NEW old, NEW entries, Len(new) = Len(old),
           \A i \in 1..Len(old) :
               /\ new[i].name = old[i].name /\ new[i].type = old[i].type /\ new[i].url = old[i].url
               /\ new[i].password = Override(entries, i, old[i].password)
    PROVE  SameEntries(new, old, entries)
<1>1. \A i \in 1..Len(new) : \A f \in {"name", "type", "url"} : new[i][f] = old[i][f]
  OBVIOUS
<1> QED
  BY <1>1 DEF SameEntries, Override

(* For every accepted update and every environment that only completes it:    *)
(* the process restarts with the same connections, pipelines and settings.    *)
THEOREM UpdatesSurviveRestarts == Spec => AcceptedUpdatesSurvive
<1> DEFINE Survives ==
        up = "down" /\ up' # "down" /\ origin = "put" /\ EnvCompletes(file) =>
           /\ up' = "up"
           /\ pipelines' = NewPipelines(file)
           /\ SameEntries(cfg'.sources, file.sources, env.tree.sources)
           /\ SameEntries(cfg'.destinations, file.destinations, env.tree.destinations)
           /\ cfg'.sync.delete_mode = "hard" <=> file.sync.delete_mode = "hard"
           /\ cfg'.sync.interval = IF env.tree.sync.interval # "" THEN env.tree.sync.interval
                                   ELSE file.sync.interval
<1>1. ConfigurationInv /\ [Next]_vars => Survives
  <2> SUFFICES ASSUME ConfigurationInv, [Next]_vars,
                      up = "down", up' # "down", origin = "put", EnvCompletes(file)
               PROVE  /\ up' = "up"
                      /\ pipelines' = NewPipelines(file)
                      /\ SameEntries(cfg'.sources, file.sources, env.tree.sources)
                      /\ SameEntries(cfg'.destinations, file.destinations, env.tree.destinations)
                      /\ cfg'.sync.delete_mode = "hard" <=> file.sync.delete_mode = "hard"
                      /\ cfg'.sync.interval = IF env.tree.sync.interval # "" THEN env.tree.sync.interval
                                              ELSE file.sync.interval
    OBVIOUS
  <2> DEFINE l == Load(file, env)
             a == AfterNew(l)
  <2>1. Start
    BY DEF Next, vars, Stop, EditFile, CrashInWrite, Put, PutInvalid, PutWriteFails, PutNotBuilt,
           PutAccepted, Down
  <2>2. Valid(file) /\ CanBuild(file) /\ file \in ConfigType /\ env \in Environments
    BY DEF ConfigurationInv, TypeOK, FileInv
  <2>3. /\ l \in ConfigType /\ Valid(l) /\ CanBuild(l)
        /\ NewPipelines(l) = NewPipelines(file)
    BY <2>2, LoadKeepsPipelines
  <2>4. up' = "up" /\ cfg' = a /\ pipelines' = NewPipelines(l)
    BY <2>1, <2>3 DEF Start
  <2>5. /\ Len(l.sources) = Len(file.sources) /\ Len(l.destinations) = Len(file.destinations)
        /\ \A i \in 1..Len(file.sources) :
               /\ l.sources[i].name = file.sources[i].name
               /\ l.sources[i].type = file.sources[i].type
               /\ l.sources[i].url = file.sources[i].url
               /\ l.sources[i].password = Override(env.tree.sources, i, file.sources[i].password)
        /\ \A i \in 1..Len(file.destinations) :
               /\ l.destinations[i].name = file.destinations[i].name
               /\ l.destinations[i].type = file.destinations[i].type
               /\ l.destinations[i].url = file.destinations[i].url
               /\ l.destinations[i].password =
                      Override(env.tree.destinations, i, file.destinations[i].password)
        /\ l.sync.interval = IF env.tree.sync.interval # "" THEN env.tree.sync.interval
                             ELSE file.sync.interval
        /\ l.sync.delete_mode = IF file.sync.delete_mode = "" THEN "soft" ELSE file.sync.delete_mode
    BY <2>2, LoadKeeps
  <2> HIDE DEF l
  <2>6. /\ Alike(l, a) /\ a.sync = l.sync
        /\ \A i \in 1..Len(l.sources) : a.sources[i].password = l.sources[i].password
        /\ \A i \in 1..Len(l.destinations) : a.destinations[i].password = l.destinations[i].password
    BY <2>3, AfterNewKeeps
  <2> HIDE DEF a
  <2>7. SameEntries(a.sources, file.sources, env.tree.sources)
    <3>1. \A i \in 1..Len(file.sources) :
              /\ a.sources[i].name = file.sources[i].name
              /\ a.sources[i].type = file.sources[i].type
              /\ a.sources[i].url = file.sources[i].url
              /\ a.sources[i].password = Override(env.tree.sources, i, file.sources[i].password)
      BY <2>5, <2>6, ZenonT(60) DEF Alike
    <3>2. Len(a.sources) = Len(file.sources)
      BY <2>5, <2>6 DEF Alike
    <3> QED
      BY <3>1, <3>2, SameEntriesByField
  <2>8. SameEntries(a.destinations, file.destinations, env.tree.destinations)
    <3>1. \A i \in 1..Len(file.destinations) :
              /\ a.destinations[i].name = file.destinations[i].name
              /\ a.destinations[i].type = file.destinations[i].type
              /\ a.destinations[i].url = file.destinations[i].url
              /\ a.destinations[i].password = Override(env.tree.destinations, i, file.destinations[i].password)
      BY <2>5, <2>6, ZenonT(60) DEF Alike
    <3>2. Len(a.destinations) = Len(file.destinations)
      BY <2>5, <2>6 DEF Alike
    <3> QED
      BY <3>1, <3>2, SameEntriesByField
  <2> QED
    BY <2>3, <2>4, <2>5, <2>6, <2>7, <2>8
<1>2. Survives => [Survives]_vars
  OBVIOUS
<1> QED
  BY <1>1, InvHolds, PTL DEF Spec, AcceptedUpdatesSurvive
-----------------------------------------------------------------------------
(* The connections of a configuration: of its references, and of its nested   *)
(* destinations.                                                              *)
Connection(s, d) == <<s.url, d.url, d.password>>

LEMMA DeclaredReferences ==
    ASSUME NEW c, c.destinations # <<>>, NEW x
    PROVE  x \in Declared(c) <=>
               \E i \in 1..Len(c.sources), j \in 1..Len(c.destinations) :
                   /\ NameOf(c, i) = c.destinations[j].source
                   /\ x = Connection(c.sources[i], c.destinations[j])
<1> DEFINE Refers(p) == NameOf(c, p[1]) = c.destinations[p[2]].source
           C(p) == <<c.sources[p[1]].url, c.destinations[p[2]].url, c.destinations[p[2]].password>>
           P == (1..Len(c.sources)) \X (1..Len(c.destinations))
<1>1. Declared(c) = {C(p) : p \in {q \in P : Refers(q)}}
  BY DEF Declared
<1>2. ASSUME x \in Declared(c)
      PROVE  \E i \in 1..Len(c.sources), j \in 1..Len(c.destinations) :
                 Refers(<<i, j>>) /\ x = C(<<i, j>>)
  <2>1. PICK p \in P : Refers(p) /\ x = C(p)
    BY <1>1, <1>2
  <2>2. p = <<p[1], p[2]>> /\ p[1] \in 1..Len(c.sources) /\ p[2] \in 1..Len(c.destinations)
    BY <2>1
  <2> QED
    BY <2>1, <2>2
<1>3. ASSUME NEW i \in 1..Len(c.sources), NEW j \in 1..Len(c.destinations),
             Refers(<<i, j>>), x = C(<<i, j>>)
      PROVE  x \in Declared(c)
  <2>1. <<i, j>> \in P
    OBVIOUS
  <2> HIDE DEF Refers, C, P
  <2> QED
    BY <1>1, <1>3, <2>1
<1>4. \A i \in 1..Len(c.sources), j \in 1..Len(c.destinations) :
          /\ Refers(<<i, j>>) <=> NameOf(c, i) = c.destinations[j].source
          /\ C(<<i, j>>) = Connection(c.sources[i], c.destinations[j])
  BY DEF Connection
<1> HIDE DEF Refers, C, P
<1> QED
  BY <1>2, <1>3, <1>4

LEMMA DeclaredNested ==
    ASSUME NEW c, c.destinations = <<>>, NEW x
    PROVE  x \in Declared(c) <=>
               \E i \in LegacyAt(c.sources) :
                   x = Connection(c.sources[i], c.sources[i].destination)
BY DEF Declared, Connection, LegacyAt

(* Two ways to declare the same references.                                   *)
LEMMA SameReferences ==
    ASSUME NEW c, NEW d, c.destinations # <<>>, d.destinations # <<>>,
           Len(d.sources) = Len(c.sources), Len(d.destinations) = Len(c.destinations),
           \A i \in 1..Len(c.sources) :
               NameOf(d, i) = NameOf(c, i) /\ d.sources[i].url = c.sources[i].url,
           \A j \in 1..Len(c.destinations) :
               /\ d.destinations[j].source = c.destinations[j].source
               /\ d.destinations[j].url = c.destinations[j].url
               /\ d.destinations[j].password = c.destinations[j].password
    PROVE  Declared(d) = Declared(c)
<1>1. \A i \in 1..Len(c.sources), j \in 1..Len(c.destinations) :
          Connection(d.sources[i], d.destinations[j]) = Connection(c.sources[i], c.destinations[j])
  BY DEF Connection
<1>2. ASSUME NEW x, x \in Declared(d) PROVE x \in Declared(c)
  <2>1. PICK i \in 1..Len(d.sources), j \in 1..Len(d.destinations) :
            /\ NameOf(d, i) = d.destinations[j].source
            /\ x = Connection(d.sources[i], d.destinations[j])
    BY <1>2, DeclaredReferences
  <2>2. /\ NameOf(c, i) = c.destinations[j].source
        /\ x = Connection(c.sources[i], c.destinations[j])
    BY <1>1, <2>1
  <2> QED
    BY <2>2, DeclaredReferences
<1>3. ASSUME NEW x, x \in Declared(c) PROVE x \in Declared(d)
  <2>1. PICK i \in 1..Len(c.sources), j \in 1..Len(c.destinations) :
            /\ NameOf(c, i) = c.destinations[j].source
            /\ x = Connection(c.sources[i], c.destinations[j])
    BY <1>3, DeclaredReferences
  <2>2. /\ NameOf(d, i) = d.destinations[j].source
        /\ x = Connection(d.sources[i], d.destinations[j])
    BY <1>1, <2>1
  <2> QED
    BY <2>2, DeclaredReferences
<1> QED
  BY <1>2, <1>3 DEF Declared

(* In a valid list no two entries have the same name.                         *)
LEMMA DistinctNames ==
    ASSUME NEW list, Len(list) \in Nat, ValidList(list),
           NEW i \in 1..Len(list), NEW j \in 1..Len(list), list[i].name = list[j].name
    PROVE  i = j
<1> DEFINE n == Len(list)
           f == [k \in 1..n |-> list[k].name]
<1>1. IsFiniteSet(1..n) /\ Cardinality(1..n) = n
  <2> HIDE DEF n
  <2>1. n \in Int /\ 1 \in Int /\ n >= 1
    BY DEF n
  <2>2. Cardinality(1..n) = IF 1 > n THEN 0 ELSE n - 1 + 1
    BY <2>1, FS_Interval
  <2>3. IsFiniteSet(1..n)
    BY <2>1, FS_Interval
  <2> QED
    BY <2>1, <2>2, <2>3
<1>2. f \in Surjection(1..n, Names(list))
  BY DEF Surjection, Names
<1>3. Cardinality(Names(list)) = n
  BY DEF ValidList
<1> HIDE DEF f, n
<1>4. f \in Injection(1..n, Names(list))
  BY <1>1, <1>2, <1>3, FS_SurjSameCardinalityImpliesInj
<1>5. \A a, b \in 1..n : f[a] = f[b] => a = b
  BY <1>4 DEF Injection, IsInjective
<1> QED
  BY <1>5 DEF f, n

-----------------------------------------------------------------------------
(* What is loaded, entry by entry: the sources keep their URLs, and those     *)
(* that have one get the name by which they are referred to.                  *)
LEMMA DefaultFields ==
    ASSUME NEW m \in ConfigType
    PROVE  LET d == SetDefaults(m) IN
           /\ d \in ConfigType
           /\ Len(d.sources) = Len(m.sources) /\ Len(d.destinations) = Len(m.destinations)
           /\ \A i \in 1..Len(m.sources) :
                  /\ d.sources[i].url = m.sources[i].url
                  /\ d.sources[i].destination = m.sources[i].destination
                  /\ m.sources[i].url # "" => d.sources[i].name = NameOf(m, i)
           /\ \A j \in 1..Len(m.destinations) :
                  /\ d.destinations[j].source = m.destinations[j].source
                  /\ d.destinations[j].url = m.destinations[j].url
                  /\ d.destinations[j].password = m.destinations[j].password
<1> DEFINE d == SetDefaults(m)
<1>1. /\ d \in ConfigType
      /\ Len(d.sources) = Len(m.sources) /\ Len(d.destinations) = Len(m.destinations)
  BY SetDefaultsType
<1>2. /\ \A i \in 1..Len(m.sources) : m.sources[i] \in SourceType
      /\ \A j \in 1..Len(m.destinations) : m.destinations[j] \in DestinationType
  BY ListIsFunction DEF ConfigType
<1>3. /\ \A i \in 1..Len(m.sources) : d.sources[i] = Default(m.sources[i], SourceNames, i)
      /\ \A j \in 1..Len(m.destinations) :
             d.destinations[j] = Default(m.destinations[j], DestNames, j)
  BY DEF SetDefaults
<1> HIDE DEF d
<1>4. ASSUME NEW i \in 1..Len(m.sources)
      PROVE  /\ d.sources[i].url = m.sources[i].url
             /\ d.sources[i].destination = m.sources[i].destination
             /\ m.sources[i].url # "" => d.sources[i].name = NameOf(m, i)
  <2> DEFINE x == m.sources[i]
  <2>1. x \in SourceType /\ d.sources[i] = Default(x, SourceNames, i)
    BY <1>2, <1>3
  <2>2. NameOf(m, i) = IF x.name # "" THEN x.name ELSE SourceNames[i]
    BY DEF NameOf
  <2> HIDE DEF x
  <2>3. LET y == Default(x, SourceNames, i) IN
        /\ y.url = x.url /\ y.destination = x.destination
        /\ y.name = IF x.name = "" /\ x.url # "" THEN SourceNames[i] ELSE x.name
    BY <2>1 DEF Default, SourceType
  <2> QED
    BY <2>1, <2>2, <2>3 DEF x
<1>5. ASSUME NEW j \in 1..Len(m.destinations)
      PROVE  /\ d.destinations[j].source = m.destinations[j].source
             /\ d.destinations[j].url = m.destinations[j].url
             /\ d.destinations[j].password = m.destinations[j].password
  <2> DEFINE x == m.destinations[j]
  <2>1. x \in DestinationType /\ d.destinations[j] = Default(x, DestNames, j)
    BY <1>2, <1>3
  <2> HIDE DEF x
  <2>2. LET y == Default(x, DestNames, j) IN
        y.source = x.source /\ y.url = x.url /\ y.password = x.password
    BY <2>1 DEF Default, DestinationType
  <2> QED
    BY <2>1, <2>2 DEF x
<1> QED
  BY <1>1, <1>4, <1>5 DEF d

(* Clearing the nested destinations keeps names and URLs.                     *)
LEMMA ClearedFields ==
    ASSUME NEW s \in Lists(SourceType), NEW i \in 1..Len(s)
    PROVE  ClearNested(s)[i].name = s[i].name /\ ClearNested(s)[i].url = s[i].url
<1>1. s[i] \in SourceType
  BY ListIsFunction
<1>2. ClearNested(s)[i] = [s[i] EXCEPT !.destination = NoDestination]
  BY DEF ClearNested
<1> QED
  BY <1>1, <1>2 DEF SourceType

(* Naming keeps URLs and nested destinations.                                 *)
LEMMA NamedFields ==
    ASSUME NEW s \in Lists(SourceType), NEW i \in 1..Len(s)
    PROVE  /\ Named(s)[i] \in SourceType
           /\ Named(s)[i].url = s[i].url
           /\ Named(s)[i].destination = s[i].destination
<1>1. s[i] \in SourceType
  BY ListIsFunction
<1>2. Named(s)[i] = [s[i] EXCEPT !.name = IF @ = "" THEN SourceNames[i] ELSE @]
  BY DEF Named
<1>3. Named(s)[i] \in SourceType
  BY NamedType, ListIsFunction
<1>4. /\ [s[i] EXCEPT !.name = IF @ = "" THEN SourceNames[i] ELSE @].url = s[i].url
      /\ [s[i] EXCEPT !.name = IF @ = "" THEN SourceNames[i] ELSE @].destination = s[i].destination
  BY <1>1 DEF SourceType
<1> QED
  BY <1>2, <1>3, <1>4

(* A nested destination that has become one refers to its source.             *)
LEMMA UnnestedFields ==
    ASSUME NEW x \in SourceType
    PROVE  /\ Unnested(x).source = x.name
           /\ Unnested(x).url = x.destination.url
           /\ Unnested(x).password = x.destination.password
BY DEF Unnested, SourceType, DestinationType

(* A configuration with destinations keeps its references.                    *)
LEMMA ReferencesAreKept ==
    ASSUME NEW m \in ConfigType, m.destinations # <<>>, Valid(MigrateLegacy(SetDefaults(m)))
    PROVE  Declared(MigrateLegacy(SetDefaults(m))) = Declared(m)
<1> DEFINE d == SetDefaults(m)
           l == MigrateLegacy(d)
<1>0. Valid(l)
  OBVIOUS
<1>1. /\ d \in ConfigType
      /\ Len(d.sources) = Len(m.sources) /\ Len(d.destinations) = Len(m.destinations)
      /\ \A i \in 1..Len(m.sources) :
             /\ d.sources[i].url = m.sources[i].url
             /\ m.sources[i].url # "" => d.sources[i].name = NameOf(m, i)
      /\ \A j \in 1..Len(m.destinations) :
             /\ d.destinations[j].source = m.destinations[j].source
             /\ d.destinations[j].url = m.destinations[j].url
             /\ d.destinations[j].password = m.destinations[j].password
  BY DefaultFields
<1> HIDE DEF d
<1>2. d.destinations # <<>> /\ d.sources \in Lists(SourceType)
  BY <1>1, NotEmpty DEF ConfigType
<1>3. l = [d EXCEPT !.sources = ClearNested(@)]
  BY <1>2 DEF MigrateLegacy
<1>4. l.sources = ClearNested(d.sources) /\ l.destinations = d.destinations
  BY <1>1, <1>3 DEF ConfigType
<1>5. Len(l.sources) = Len(d.sources)
  BY <1>2, <1>4, ClearNestedType
<1> HIDE DEF l
<1>6. ASSUME NEW i \in 1..Len(m.sources)
      PROVE  NameOf(l, i) = NameOf(m, i) /\ l.sources[i].url = m.sources[i].url
  <2>1. l.sources[i].name = d.sources[i].name /\ l.sources[i].url = d.sources[i].url
    <3>1. i \in 1..Len(d.sources)
      BY <1>1
    <3> QED
      BY <1>2, <1>4, <3>1, ClearedFields
  <2>2. l.sources[i].url # "" /\ l.sources[i].name # ""
    <3>1. i \in 1..Len(l.sources)
      BY <1>1, <1>5
    <3> QED
      BY <1>0, <3>1, Zenon DEF Valid, ValidList, ValidEntry
  <2>3. NameOf(l, i) = l.sources[i].name
    BY <2>2 DEF NameOf
  <2> QED
    BY <1>1, <2>1, <2>2, <2>3
<1>7. l.destinations # <<>> /\ Len(l.sources) = Len(m.sources)
      /\ Len(l.destinations) = Len(m.destinations)
  BY <1>1, <1>2, <1>4, <1>5
<1>8. \A j \in 1..Len(m.destinations) :
          /\ l.destinations[j].source = m.destinations[j].source
          /\ l.destinations[j].url = m.destinations[j].url
          /\ l.destinations[j].password = m.destinations[j].password
  BY <1>1, <1>4
<1>9. Declared(l) = Declared(m)
  BY <1>6, <1>7, <1>8, SameReferences
<1> QED
  BY <1>9 DEF l, d

(* A configuration in the legacy format keeps the destinations nested in its  *)
(* sources: as the names of the sources are distinct, each finds its own.     *)
LEMMA NestedAreKept ==
    ASSUME NEW m \in ConfigType, m.destinations = <<>>, Valid(MigrateLegacy(SetDefaults(m)))
    PROVE  Declared(MigrateLegacy(SetDefaults(m))) = Declared(m)
<1> DEFINE d == SetDefaults(m)
           l == MigrateLegacy(d)
           named == Named(d.sources)
           I == LegacyAt(named)
           nested == SelectAt(named, I)
<1>1. /\ d \in ConfigType
      /\ Len(d.sources) = Len(m.sources) /\ Len(d.destinations) = Len(m.destinations)
      /\ \A i \in 1..Len(m.sources) :
             /\ d.sources[i].url = m.sources[i].url
             /\ d.sources[i].destination = m.sources[i].destination
  BY DefaultFields
<1> HIDE DEF d
<1>2. d.destinations = <<>> /\ d.sources \in Lists(SourceType)
  BY <1>1, NotEmpty DEF ConfigType
<1>3. LegacyAt(d.sources) # {}
  <2> SUFFICES ASSUME LegacyAt(d.sources) = {} PROVE FALSE
    OBVIOUS
  <2>1. l = d
    BY <1>2 DEF MigrateLegacy
  <2> QED
    BY <1>2, <2>1 DEF Valid, ValidList, d
<1>4. l = [d EXCEPT !.sources = ClearNested(named),
                    !.destinations = [k \in 1..Len(nested) |-> Unnested(nested[k])]]
  BY <1>1, <1>2, <1>3, MigratesTo
<1>5. /\ l.sources = ClearNested(named)
      /\ l.destinations = [k \in 1..Len(nested) |-> Unnested(nested[k])]
  BY <1>1, <1>4 DEF ConfigType
<1>6. named \in Lists(SourceType) /\ Len(named) = Len(m.sources)
  BY <1>1, <1>2, NamedType
<1>7. \A i \in 1..Len(m.sources) :
          /\ named[i] \in SourceType
          /\ named[i].url = m.sources[i].url /\ named[i].destination = m.sources[i].destination
  <2> TAKE i \in 1..Len(m.sources)
  <2>1. named[i] \in SourceType /\ named[i].url = d.sources[i].url
        /\ named[i].destination = d.sources[i].destination
    BY <1>1, <1>2, NamedFields
  <2> QED
    BY <1>1, <2>1
<1>8. Valid(l)
  BY DEF d
<1> HIDE DEF l, named
<1>9. I = LegacyAt(m.sources)
  BY <1>6, <1>7 DEF LegacyAt, Legacy
<1>10. Selects(nested, named, Len(named), I, SourceType)
  BY <1>6, SelectAtSelects DEF Lists
<1> HIDE DEF nested, I
<1>11. Len(nested) \in Nat /\ Len(l.destinations) = Len(nested) /\ l.destinations # <<>>
  <2>1. nested \in Seq(SourceType)
    BY <1>10 DEF Selects
  <2>2. Len(nested) \in Nat
    BY <2>1
  <2>3. DOMAIN l.destinations = 1..Len(nested)
    BY <1>5
  <2>4. nested \in Lists(SourceType)
    BY <1>6, SelectedType DEF nested
  <2>5. Len(nested) \in 0..MaxEntries
    BY <2>4, ListIsFunction
  <2>6. \A k \in 1..Len(nested) : nested[k] \in SourceType
    BY <2>4, ListIsFunction
  <2>7. l.destinations \in [1..Len(nested) -> DestinationType]
    BY <1>5, <2>6, UnnestedType
  <2>8. Len(l.destinations) = Len(nested)
    BY <2>5, <2>7, ListType
  <2> QED
    BY <1>8, <2>2, <2>8 DEF Valid, ValidList
<1>12. Len(l.sources) = Len(m.sources) /\ Len(l.sources) \in Nat
  BY <1>5, <1>6, ClearNestedType, ListIsFunction
<1>13. ASSUME NEW i \in 1..Len(m.sources)
       PROVE  /\ NameOf(l, i) = named[i].name
              /\ l.sources[i].name = named[i].name
              /\ l.sources[i].url = m.sources[i].url
  <2>1. l.sources[i].name = named[i].name /\ l.sources[i].url = named[i].url
    BY <1>5, <1>6, ClearedFields
  <2>2. l.sources[i].name # ""
    BY <1>8, <1>12 DEF Valid, ValidList, ValidEntry
  <2> QED
    BY <1>7, <2>1, <2>2 DEF NameOf
<1>14. ASSUME NEW k \in 1..Len(nested), NEW i \in I, nested[k] = named[i]
       PROVE  /\ l.destinations[k].source = named[i].name
              /\ \A s : s.url = m.sources[i].url =>
                     Connection(s, l.destinations[k]) =
                         Connection(m.sources[i], m.sources[i].destination)
  <2>1. i \in 1..Len(m.sources)
    BY <1>9 DEF LegacyAt
  <2>2. l.destinations[k] = Unnested(named[i])
    BY <1>5, <1>14
  <2>3. /\ l.destinations[k].source = named[i].name
        /\ l.destinations[k].url = m.sources[i].destination.url
        /\ l.destinations[k].password = m.sources[i].destination.password
    BY <1>7, <2>1, <2>2, UnnestedFields
  <2> QED
    BY <2>3 DEF Connection
<1>15. ASSUME NEW x, x \in Declared(l) PROVE x \in Declared(m)
  <2>1. PICK i \in 1..Len(l.sources), k \in 1..Len(nested) :
            /\ NameOf(l, i) = l.destinations[k].source
            /\ x = Connection(l.sources[i], l.destinations[k])
    BY <1>11, <1>15, DeclaredReferences
  <2>2. PICK j \in 1..Len(named) : j \in I /\ nested[k] = named[j]
    BY <1>10 DEF Selects
  <2>3. l.sources[i].name = l.sources[j].name
    BY <1>6, <1>12, <1>13, <1>14, <2>1, <2>2
  <2>4. i = j
    BY <1>6, <1>8, <1>12, <2>3, DistinctNames DEF Valid
  <2>5. x = Connection(m.sources[j], m.sources[j].destination)
    BY <1>12, <1>13, <1>14, <2>1, <2>2, <2>4
  <2> QED
    BY <1>9, <2>2, <2>5, DeclaredNested
<1>16. ASSUME NEW x, x \in Declared(m) PROVE x \in Declared(l)
  <2>1. PICK i \in I : x = Connection(m.sources[i], m.sources[i].destination)
    BY <1>9, <1>16, DeclaredNested
  <2>2. i \in 1..Len(m.sources)
    BY <1>9 DEF LegacyAt
  <2>3. PICK k \in 1..Len(nested) : nested[k] = named[i]
    BY <1>6, <1>10, <2>2 DEF Selects
  <2>4. NameOf(l, i) = l.destinations[k].source /\ x = Connection(l.sources[i], l.destinations[k])
    BY <1>13, <1>14, <2>1, <2>2, <2>3
  <2> QED
    BY <1>11, <1>12, <2>2, <2>4, DeclaredReferences
<1>17. Declared(l) = Declared(m)
  BY <1>15, <1>16 DEF Declared
<1> QED
  BY <1>17 DEF l, d

(* New keeps the connections of the configuration it is given.                *)
LEMMA NewKeepsConnections ==
    ASSUME NEW c \in ConfigType, Valid(c)
    PROVE  Declared(AfterNew(c)) = Declared(c)
<1> DEFINE a == AfterNew(c)
<1>1. /\ a \in ConfigType /\ Alike(c, a)
      /\ \A j \in 1..Len(c.destinations) : a.destinations[j].password = c.destinations[j].password
  BY AfterNewKeeps
<1> HIDE DEF a
<1>2. Valid(a)
  BY <1>1, AlikeValid
<1>3. a.destinations # <<>> /\ c.destinations # <<>>
  BY <1>2 DEF Valid, ValidList
<1>4. \A i \in 1..Len(c.sources) :
          NameOf(a, i) = NameOf(c, i) /\ a.sources[i].url = c.sources[i].url
  BY <1>1 DEF Alike, NameOf
<1>5. \A j \in 1..Len(c.destinations) :
          a.destinations[j].source = c.destinations[j].source
          /\ a.destinations[j].url = c.destinations[j].url
  BY <1>1 DEF Alike
<1>6. Len(a.sources) = Len(c.sources) /\ Len(a.destinations) = Len(c.destinations)
  BY <1>1 DEF Alike
<1>7. Declared(a) = Declared(c)
  BY <1>1, <1>3, <1>4, <1>5, <1>6, SameReferences
<1> QED
  BY <1>7 DEF a

(* For every file and environment: a start that succeeds keeps the            *)
(* connections that they declare, in either format.                           *)
THEOREM StartKeepsConnections == Spec => ConnectionsAreKept
<1>1. ASSUME ConfigurationInv, [Next]_vars, up = "down", up' = "up"
      PROVE  Declared(cfg') = Declared(Merged(file, env))
  <2> DEFINE m == Merged(file, env)
             l == Load(file, env)
  <2>1. Start
    BY <1>1 DEF Next, vars, Stop, EditFile, CrashInWrite, Put, PutInvalid, PutWriteFails, PutNotBuilt,
           PutAccepted, Down
  <2>2. file \in ConfigType /\ env \in Environments
    BY <1>1 DEF ConfigurationInv, TypeOK
  <2>3. m \in ConfigType /\ l \in ConfigType /\ l = MigrateLegacy(SetDefaults(m))
    BY <2>2, MergedType, LoadType DEF Load
  <2>4. Valid(l) /\ cfg' = AfterNew(l)
    BY <1>1, <2>1 DEF Start
  <2> HIDE DEF m, l
  <2>5. Declared(l) = Declared(m)
    BY <2>3, <2>4, ReferencesAreKept, NestedAreKept
  <2> QED
    BY <2>3, <2>4, <2>5, NewKeepsConnections DEF m
<1>2. ConfigurationInv /\ [Next]_vars =>
          [up = "down" /\ up' = "up" => Declared(cfg') = Declared(Merged(file, env))]_vars
  BY <1>1
<1> QED
  BY <1>2, InvHolds, PTL DEF Spec, ConnectionsAreKept
-----------------------------------------------------------------------------
(* In every state with an active Syncer, its pipelines are those of the       *)
(* configuration in memory, which is valid.                                   *)
LEMMA EffectivePipelines ==
    ASSUME ConfigurationInv, Effective, NEW i \in 1..Len(pipelines)
    PROVE  /\ cfg \in ConfigType /\ Valid(cfg) /\ i \in 1..Len(cfg.destinations)
           /\ pipelines[i] = NewPipelines(cfg)[i]
BY DEF ConfigurationInv, TypeOK, PipelinesInv

LEMMA EffectivePipeline ==
    ASSUME ConfigurationInv, Effective, NEW i \in 1..Len(pipelines)
    PROVE  LET p == pipelines[i]
               u == SourceOf(cfg, cfg.destinations[i]).url
           IN /\ p \in Seq(RegisteredOnes(Texts))
              /\ u \in Strings
              /\ PrefixFirst(p, u)
              /\ WantsPrivacy(i) => HasPrivacy(p)
<1> DEFINE d == cfg.destinations[i]
           s == SourceOf(cfg, d)
           b == cfg.sync.filter_private = "true"
           all == s.transformers \o d.transformers
           flipped == d.transformers \o s.transformers
<1>1. /\ s.url \in Strings /\ s.url \in Texts /\ b \in BOOLEAN
      /\ s.transformers \in Seq(Transformers(Texts)) /\ d.transformers \in Seq(Transformers(Texts))
      /\ pipelines[i] = NewPipeline(b, s.url, s.transformers, d.transformers)
  BY EffectivePipelines, PipelineOf, TextTypes
<1>2. WantsPrivacy(i) => b \/ HasPrivacy(flipped)
  BY DEF WantsPrivacy, ForPrivacy, HasPrivacy
<1> HIDE DEF d, s, b
<1>3. HasPrivacy(flipped) => HasPrivacy(all)
  BY <1>1, EitherOrder
<1>4. WantsPrivacy(i) => b \/ HasPrivacy(all)
  BY <1>2, <1>3
<1> DEFINE p == NewPipeline(b, s.url, s.transformers, d.transformers)
<1>5. /\ p \in Seq(RegisteredOnes(Texts))
      /\ PrefixFirst(p, s.url)
      /\ b \/ HasPrivacy(all) => HasPrivacy(p)
  BY <1>1, TextTypes, NewPipelineShape
<1>6. pipelines[i] = p
  BY <1>1
<1> HIDE DEF p
<1> QED
  BY <1>1, <1>4, <1>5, <1>6 DEF d, s

(* For every configuration that users can reach by files, updates and         *)
(* restarts: whoever wants privacy gets it, wherever the transformer stands.  *)
THEOREM PrivateEventsStayPrivate == Spec => []PrivacyHolds
<1>1. ConfigurationInv => PrivacyHolds
  <2> SUFFICES ASSUME ConfigurationInv, Effective,
                      NEW i \in 1..Len(pipelines), NEW e \in Events,
                      WantsPrivacy(i), Private(e), Apply(pipelines[i], e).kept
               PROVE  LET f == Apply(pipelines[i], e).event IN ~f.details /\ Last(f.summary) = "Busy"
    BY DEF PrivacyHolds
  <2> DEFINE p == pipelines[i]
  <2>1. /\ p \in Seq(RegisteredOnes(Texts))
        /\ HasPrivacy(p)
    BY EffectivePipeline
  <2>2. "Busy" \in Texts /\ e \in VEvents(Texts)
    BY TextTypes DEF Words
  <2> HIDE DEF p
  <2>3. Masked(Apply(p, e).event)
    BY <2>1, <2>2, ApplyMasks DEF p
  <2> QED
    BY <2>3 DEF Masked, p
<1> QED
  BY <1>1, InvHolds, PTL

(* The list of a finite set has its members.                                  *)
LEMMA SetToSeqMembers ==
    ASSUME NEW S, IsFiniteSet(S), NEW k \in 1..Len(SetToSeq(S))
    PROVE  SetToSeq(S)[k] \in S
<1> DEFINE n == Cardinality(S)
<1>1. n \in Nat /\ Bijection(1..n, S) # {}
  BY FS_CardinalityType DEF ExistsBijection
<1> HIDE DEF n
<1>2. \E f \in [1..n -> S] : IsInjective(f)
  BY <1>1 DEF Bijection, Injection
<1>3. SetToSeq(S) = CHOOSE f \in [1..n -> S] : IsInjective(f)
  BY DEF SetToSeq, n
<1>4. SetToSeq(S) \in [1..n -> S]
  BY <1>2, <1>3
<1>5. Len(SetToSeq(S)) = n
  BY <1>1, <1>4
<1> QED
  BY <1>4, <1>5

(* A published UID is that of an event that has passed the pipeline.          *)
LEMMA PublishedUids ==
    ASSUME NEW i, NEW uid \in Published(i)
    PROVE  \E e \in Events : LET r == Apply(pipelines[i], e) IN
               r.kept /\ r.event.uid = uid /\ uid # <<>>
<1> DEFINE cal == SetToSeq(Events)
           out == [k \in 1..Len(cal) |-> Apply(pipelines[i], cal[k])]
           Kept(k) == out[k].kept /\ out[k].event.uid # <<>>
           positions == {k \in 1..Len(cal) : Kept(k)}
<1>1. Published(i) = {out[k].event.uid : k \in positions}
  BY DEF Published, ParseEvents
<1>2. PICK k \in positions : uid = out[k].event.uid
  BY <1>1
<1>3. k \in 1..Len(cal) /\ out[k].kept /\ uid # <<>>
  BY <1>2
<1>4. cal[k] \in Events
  BY <1>3, EventsAssumption, SetToSeqMembers
<1>5. out[k] = Apply(pipelines[i], cal[k])
  BY <1>3
<1> QED
  BY <1>2, <1>3, <1>4, <1>5

(* For every such configuration: events of different sources never share a    *)
(* UID, whatever prefixes users give them.                                    *)
THEOREM SourcesDoNotShareUids == Spec => []UidsKeepApart
<1> DEFINE Url(i) == SourceOf(cfg, cfg.destinations[i]).url
<1>1. ASSUME ConfigurationInv, Effective, NEW i \in 1..Len(pipelines), NEW uid \in Published(i)
      PROVE  uid[Len(uid) - 1] = Url(i)
  <2> DEFINE p == pipelines[i]
  <2>1. PICK e \in Events : Apply(p, e).kept /\ Apply(p, e).event.uid = uid /\ uid # <<>>
    BY PublishedUids
  <2>2. /\ p \in Seq(RegisteredOnes(Texts)) /\ Url(i) \in Strings
        /\ PrefixFirst(p, Url(i))
    BY <1>1, EffectivePipeline
  <2>3. "Busy" \in Texts /\ e \in VEvents(Texts)
    BY TextTypes DEF Words
  <2> DEFINE u == Url(i)
  <2> HIDE DEF p, u, Url
  <2>4. e.uid = <<>> \/ \E own \in Texts : own # u /\ e.uid = <<own>>
    BY <2>2, EventsAssumption DEF Texts, u
  <2>5. PrefixedBy(Apply(p, e).event.uid, u)
    BY <2>1, <2>2, <2>3, <2>4, ApplyPrefixes DEF u
  <2> QED
    BY <2>1, <2>5 DEF PrefixedBy, u
<1>2. ConfigurationInv => UidsKeepApart
  <2> SUFFICES ASSUME ConfigurationInv, Effective,
                      NEW i \in 1..Len(pipelines), NEW j \in 1..Len(pipelines), Url(i) # Url(j),
                      NEW uid, uid \in Published(i), uid \in Published(j)
               PROVE  FALSE
    BY DEF UidsKeepApart
  <2>1. uid[Len(uid) - 1] = Url(i)
    BY <1>1
  <2>2. uid[Len(uid) - 1] = Url(j)
    BY <1>1
  <2> QED
    BY <2>1, <2>2
<1> QED
  BY <1>2, InvHolds, PTL
=============================================================================
