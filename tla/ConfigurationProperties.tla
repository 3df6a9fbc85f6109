---------------------- MODULE ConfigurationProperties ----------------------
(* What loading and updating the configuration owe to its user.               *)
EXTENDS Configuration

CONSTANTS
    Events,         \* the VEVENTs the pipelines are tried with
    OwnUids         \* what the UIDs of the events of a source consist of

(* Events are tried as a source has them: their UIDs have no prefixes yet.    *)
EventType == [uid : Seq(Strings \cup OwnUids), class : Strings, summary : Seq(Strings),
              details : BOOLEAN, categories : SUBSET Strings]

ASSUME EventsAssumption ==
    /\ IsFiniteSet(Events) /\ Events \subseteq EventType
    /\ OwnUids \cap Strings = {}
    /\ \A e \in Events : e.uid = <<>> \/ \E own \in OwnUids : e.uid = <<own>>

(* The active Syncer was built from the configuration in memory.              *)
Effective == up = "up" /\ answer \in {0, 200}

TypeOK ==
    /\ env \in Environments /\ file \in ConfigType /\ cfg \in ConfigType
    /\ up \in {"down", "up", "failed"} /\ origin \in {"user", "put", "refused", "torn"}
    /\ answer \in {0, 200, 400, 500} /\ edits \in 0..MaxEdits
    /\ Effective => Valid(cfg) /\ CanBuild(cfg) /\ Len(pipelines) = Len(cfg.destinations)

-----------------------------------------------------------------------------
(* The environment only completes a file: it overrides passwords of entries   *)
(* the file has, and settings of sync.                                        *)
OnlyPasswords(list, entries) ==
    /\ Len(entries) <= Len(list)
    /\ \A i \in 1..Len(entries) :
           \A f \in Scalars \cap DOMAIN entries[i] : f # "password" => entries[i][f] = ""

EnvCompletes(f) ==
    /\ env.config = Omitted
    /\ OnlyPasswords(f.sources, env.tree.sources)
    /\ OnlyPasswords(f.destinations, env.tree.destinations)
    /\ \A i \in 1..Len(env.tree.sources) : env.tree.sources[i].destination = NoDestination
    /\ env.tree.sync.interval # "invalid"

(* After an update was answered with 200, a restart comes up again, with the  *)
(* same connections and pipelines and with the same settings but for those of *)
(* the environment: nothing that Load does to a file (names, types, defaults, *)
(* migration) changes what applyConfig has accepted and written.              *)
SameEntries(new, old, overrides) ==
    /\ Len(new) = Len(old)
    /\ \A i \in 1..Len(new) :
           /\ \A f \in {"name", "type", "url"} : new[i][f] = old[i][f]
           /\ new[i].password = IF i <= Len(overrides) /\ overrides[i].password # ""
                                  THEN overrides[i].password ELSE old[i].password

AcceptedUpdatesSurvive ==
    [][up = "down" /\ up' # "down" /\ origin = "put" /\ EnvCompletes(file) =>
           /\ up' = "up"
           /\ pipelines' = NewPipelines(file)
           /\ SameEntries(cfg'.sources, file.sources, env.tree.sources)
           /\ SameEntries(cfg'.destinations, file.destinations, env.tree.destinations)
           /\ cfg'.sync.delete_mode = "hard" <=> file.sync.delete_mode = "hard"
           /\ cfg'.sync.interval = IF env.tree.sync.interval # "" THEN env.tree.sync.interval
                                   ELSE file.sync.interval]_vars

(* Nothing that an update has left in the file keeps the process from         *)
(* starting, but for two causes: a write cut short, and an entry whose type   *)
(* has no connector on its side or whose URL caldav.NewClient refuses, in an  *)
(* update that was answered 400 after it had been written.  What memory has   *)
(* kept of refused and unsaved updates does no harm to the next one.          *)
NoConnector(list, types) ==
    \E i \in 1..Len(list) : list[i].type \notin types \/ list[i].url \in RefusedUrls

StartFailures ==
    up = "failed" /\ origin # "user" /\ EnvCompletes(file) =>
        \/ origin = "torn"
        \/ /\ origin = "refused"
           /\ \/ NoConnector(file.sources, SourceTypes)
              \/ NoConnector(file.destinations, DestinationTypes)

(* Starting keeps the connections that the file, completed by the             *)
(* environment, declares: the references by name, also to sources that have   *)
(* no name of their own, or else the destinations nested in the sources.      *)
NameOf(c, i) == IF c.sources[i].name # "" THEN c.sources[i].name ELSE SourceNames[i]

Declared(c) ==
    IF c.destinations # <<>>
      THEN {<<c.sources[p[1]].url, c.destinations[p[2]].url, c.destinations[p[2]].password>> :
                p \in {q \in (1..Len(c.sources)) \X (1..Len(c.destinations)) :
                            NameOf(c, q[1]) = c.destinations[q[2]].source}}
      ELSE {<<c.sources[i].url, c.sources[i].destination.url, c.sources[i].destination.password>> :
                i \in {j \in 1..Len(c.sources) : Legacy(c.sources[j])}}

ConnectionsAreKept ==
    [][up = "down" /\ up' = "up" => Declared(cfg') = Declared(Merged(file, env))]_vars

-----------------------------------------------------------------------------
(* With filter_private, or a transformer for private events on either side, a *)
(* private event is dropped or loses its details and its summary, whatever    *)
(* the other transformers and their order.                                    *)
WantsPrivacy(i) ==
    \/ cfg.sync.filter_private = "true"
    \/ LET d == cfg.destinations[i]
           all == d.transformers \o SourceOf(cfg, d).transformers
       IN \E k \in 1..Len(all) : all[k].type \in {"filter-private", "mask-private"}

PrivacyHolds ==
    Effective => \A i \in 1..Len(pipelines), e \in Events :
        WantsPrivacy(i) /\ Private(e) =>
            LET r == Apply(pipelines[i], e) IN
            r.kept => ~r.event.details /\ Last(r.event.summary) = "Busy"

(* Events of different sources never share a UID in a destination, not even   *)
(* when users give their sources the same prefix.                             *)
Published(i) == DOMAIN ParseEvents(SetToSeq(Events), pipelines[i])

UidsKeepApart ==
    Effective => \A i, j \in 1..Len(pipelines) :
        SourceOf(cfg, cfg.destinations[i]).url # SourceOf(cfg, cfg.destinations[j]).url
            => Published(i) \cap Published(j) = {}

=============================================================================
