# SyncCal in TLA+

A TLA+ model of SyncCal, the daemon that copies events from source calendars
(CalDAV or public `.ics`) to destination calendars (CalDAV) and remembers in SQLite
what it has copied. The modules follow the Go code under `src/`; `PROJECT.json` maps
every definition to the lines it stands for.

## 1. The system

| part | code | state | operations |
|---|---|---|---|
| sync engine | `internal/sync/syncer.go` | `running`, `connStats`, `lastError`; per pass: connection, fetched data, events still to visit | `Sync`, `syncDestination`, `recordConn*` |
| source reading | `internal/caldav/client.go` | none of its own; change tokens (CTag, sync-token, ETag) of the server | `HasChanged`, `FetchCalendar` (HEAD/GET, or PROPFIND, REPORT, one GET per resource, merge) |
| destination writing | `internal/caldav/client.go` | the remote calendar | `CreateEvent`, `UpdateEvent`, `DeleteEvent` |
| mapping store | `internal/storage/sqlite.go` | tables `event_mapping`, `source_state` | `GetMapping`, `SetMapping`, `ListMappings`, `Get/SetSourceState` |
| retry | `internal/retry/retry.go` | attempt counter, timer | `Do`, `DoWithRetryAfter` |
| scheduler and lock | `syncer.go`, `internal/web/server.go` | cron of each Syncer, its `running` flag | `StartScheduler`, `Stop`, `IsRunning`, `handleSync` |
| configuration update | `server.go`, `config_dto.go` | shared `*config.Config`, `config.yaml`, `SyncerHolder` | `applyConfig` |
| process | `cmd/synccal/main.go` | phase of `main` | start, initial pass, schedule, signals, shutdown |
| configuration loading | `internal/config` | `config.yaml`, environment | `Load`, environment merge, defaults, legacy migration, `Validate` |
| pipeline, plugins | `internal/plugin`, `syncer.go` | registry (fixed after `init`), pipeline of each destination | transformers, `Pipeline.Apply`, `New` |
| log store | `internal/web/logstore.go` | ring buffer | `Check`, `Write`, `Append`, `List` |
| metrics, read API, assets | `internal/web`, `internal/metrics` | counters | — |

**Interaction.** `main` builds a Syncer, starts the HTTP server, runs one pass and
starts cron. Cron and `POST /api/sync` start passes in goroutines of their own; the
`running` flag of a Syncer admits one at a time. `PUT /api/config` merges the update
into the configuration that everybody shares, writes `config.yaml`, builds a new
Syncer and swaps it into the holder. A pass walks over the destinations: it compares
the stored state of the source with the server's, fetches the source when they
differ, **stores the new state**, and then writes the differences to the destination,
recording each write in `event_mapping` after it has been made.

**What is hard.** Owners edit the sources between any two requests of a pass; every
request, SQLite statement or the process itself may fail between a remote write and
its record; the state of a source is shared by all its destinations and stored before
it is applied; replacing the Syncer races with passes, with other updates, with the
start of the process and with its shutdown. `PROJECT.json` lists these as `hazards`,
each at its line, with the properties aimed at it.

## 2. Modules

| module | models |
|---|---|
| `SourceCalendar` | the source servers as the client sees them: history of revisions, change tokens, `HasChanged`, what a REPORT lists |
| `MappingStore` (extends it) | the two tables and their statements |
| `Syncer` (extends it) | passes of `Sync` with everything they do, their failures, crashes, and updates that move a destination to another source |
| `Mirror` (extends `SourceCalendar`) | abstract: a destination is served one connection at a time, which brings it events as its source has had them since the connection began, and nothing else changes it |
| `SyncerProperties`, `MCSyncer` | its properties, among them that it implements `Mirror`; the instances for TLC |
| `SyncerProofs`, `PassProofs` (extends it) | its theorems: about single steps (rows and remote events); about a whole pass (what it fetches, writes and leaves behind) |
| `Supervisor` | `main`, cron, `POST /api/sync`, `PUT /api/config`, holder and lock |
| `SupervisorProperties`, `MCSupervisor`, `SupervisorProofs` | the same for it |
| `Selection`, `SelectionProofs` | the loops that copy the entries of a list that pass a test; what such a selection contains, and induction on the naturals |
| `Pipeline` (extends it) | the transformers, the pipeline that `New` builds, what a calendar becomes on its way through it (pure operators) |
| `PipelineProofs` | lemmas about one walk through a pipeline and about the pipelines that `New` builds |
| `Configuration` (extends `Pipeline`) | `config.Load`, sequential updates with their failures, the file they leave, restarts, the pipelines of the Syncer |
| `ConfigurationProperties`, `MCConfiguration`, `ConfigurationProofs` | its properties, the instance for TLC, its theorems |
| `Retry` | one execution of `Do` or `DoWithRetryAfter`, and its properties |
| `MCRetry`, `RetryProofs` | the instance for TLC, its theorems |
| `BoundedLog` (extends `Selection`) | abstract: the log is the sequence of the most recent entries, and what a query shows of it |
| `LogStore` | the ring buffer, the goroutines that write to it, `List` |
| `LogStoreProperties`, `MCLogStore`, `LogStoreProofs` | the refinement mapping and the properties, the instance, the theorems |

The operators commented as *plausible slips* stand beside the definition they are a
wrong version of. No specification uses them; they show, one per property, that the
property would notice such a bug.

### Syncer and the code

`pc` is the place in the pass: `check` (loop head, `GetSourceState`, `HasChanged`),
`fetch`/`list`/`get`/`state` (`Fetch`: discovery, fallback listing, GETs, final
PROPFIND), `save` (`SetSourceState`), `apply` (parsing, `ListMappings`), `events` (the
two loops of `syncDestination`), `recordPut`/`recordDelete` (between the remote write
and `SetMapping`), `idle` (`running = false`). `di` is the index of the destination.
Each remote request and each SQLite statement that matters is one step, so edits of the
owners and crashes fall between any two of them; the loops visit keys in any order, as
Go's map iteration does.

Data are abstracted. An event is a UID and a content; equal contents have equal
hashes. A source's change token is the number of its current revision, 0 for the empty
token. The prefix of a UID is the source it is derived from (`sourcePrefix`), so a row
is keyed by `<<source, uid>>`. `dest_uid` and `dest_href` are functions of the key and
`dest_etag` is always stored empty, so a row is its hash and its deleted flag. The
pipeline of a destination is the set of contents it keeps (`Kept`).

Failures (`Faults`): a request to a source fails; a PROPFIND or REPORT is answered with
an error status, which the client does not look at; a request meets the timeout of the
HTTP client or of the pass, which is not retried; data that does not parse; an SQLite statement fails; a PUT or DELETE fails with or
without effect; the process dies and restarts. The error paths are those of the code:
some failures end the connection and set `firstErr`, some end it without `firstErr`,
some are only logged. The retries around a single atomic request (HEAD, PROPFIND, PUT,
DELETE) are collapsed into its final outcome; those around the fetch, which re-runs
many requests, are modelled (`tries`).

`Syncer` assumes one pass at a time. That is what `OnePassPerSyncer` of `Supervisor`
provides for one Syncer; run `overlapping_passes` shows when two Syncers break it for
the process.

### Supervisor and the code

Syncer 0 is the one `main` builds, Syncer *n* the one of the *n*-th update. `job` are
the goroutines that call `Sync`, `put` the handlers of `PUT /api/config`, with the local
variables `applyConfig` carries from step to step. A configuration is reduced to
whether it has a positive interval, how many sources and destinations it has, and
whether it is accepted, refused by `Validate`, refused by `newSyncer` (for a type or a
URL) or, in the file, cut short. There is one `cfg` variable because `newCfg := s.cfg` copies a pointer. Time is abstracted to
choices: the 30 s of the shutdown context may pass at any point after the
schedule has been stopped.

### Configuration, Pipeline and the code

`Supervisor` has the interleavings of updates and abstracts their contents;
`Configuration` has the contents and takes updates one after the other. The process
goes `down`, `up` and `failed` (the two `log.Fatal` of `main`); the file is what a user,
an accepted, a refused or an interrupted update has left in it (`origin`, a history
variable). A configuration is a record of two lists and the settings of `sync`, with
`""` for an absent key, and the tree built from the environment has the same shape:
`DeepMerge` merges maps by key and lists by position as `deepMerge` does on the YAML.
`CanBuild` is `newSyncer`: each entry needs a type that is registered for its side
(`ics` is one for sources only) and a URL that `NewClient` takes (`RefusedUrls` are the
others). The credentials of an entry are its password. The prefix of a source, a hash of its URL
in the code, is the URL itself, so the hash is taken to be injective. `New` writes the
prefix into the options of a `prefix-uid` transformer, which belong to the shared
configuration and are saved with the next update: `InjectPrefix` and `AfterNew`.

Three loops select entries from a list: the unknown transformers that `New` leaves out
(`Known`), the nested destinations that `migrateLegacy` moves (`LegacyAt`), and the levels a
log query asks for. All of them are `SelectAt`, a recursive function over the list; so is
the walk of an event through its pipeline (`Walked`).

An event is a record of what the transformers read and write. Its UID and its summary
are sequences of prefixes that end in the original text, so that two UIDs are equal in
the model when the strings are, except for prefixes chosen to collide textually. The
events that the properties are tried with (`Events`) are those of a source, whose UIDs have
no prefix yet: a UID consists of one value of `OwnUids`, which no prefix is among
(`EventsAssumption`).

### Retry and the code

`pc` is `loop` (head of the `for`), `calling` (`fn`), `waiting` (`select`) or
`returned`. The context ends at any moment; when it has ended and the timer has fired,
either branch of the `select` may be taken. `fn` honours its context, as every caller's
request does. The 30 s timeout of the HTTP client (`client.go:44`) counts as
`DeadlineExceeded` and is not retried, although the context is alive (`timeout`). Times are in units of a fifth of `BaseDelay`, which makes 20 % jitter of
it a whole number; `Exponential` is the delay of an attempt before cap and jitter.
`MaxAttempts` is positive, as in every use of `Config`; with 0 the
code returns `nil` without a call.

### LogStore and the code

`Check` is the moment zap stamps an entry; `Write` the moment the core has the lock of
the store; another goroutine may write in between. `Contents` reads the buffer from its
oldest slot to its newest; it is what the refinement substitutes for the abstract log.
`List` is the loop of the code, as a recursive function. Message and fields are left
out.

## 3. What the runs show

Passing runs:

| run | question | result |
|---|---|---|
| `etag_failures` | ETag source, filtering pipeline, two failures of source, data or PUT | without `last_error` the destination holds exactly what the stored state stands for (`StoredStateIsApplied`); every row written is justified by the source (`WritesAreJustified`); in the end the destination has what the source has or shows an error (`ConvergesUnlessFailed`) |
| `token_failures` | sync-token source, soft mode, two failures of any kind, crashes and lost answers included | a row always has its event in the destination (`MappedEventsExist`), even when a partial fetch makes the pass infer wrong deletions; a fetch is exact when nobody edits meanwhile (`QuietFetchIsExact`); a pass ends (`PassesEnd`) |
| `plain_hard` | hard mode, source without tokens, failing requests and PUTs | hashes are true (`HashMatchesDestination`), deletions reach the destination (`HardModePurges`), it converges (`Converges`) |
| `shared_calendar` | two destinations in one calendar, moved between a CalDAV and a public source; unreadable resources, failing DELETEs, crashes | only rows and events of the source at hand are touched (`OtherSourcesUntouched`) |
| `ctag_fetch` | many-request fetch of a CTag source, hard mode, filtering pipeline, against edits and a failure of any kind but unreadable data | the fetch is complete (`FetchIsFull`), rows are justified, and the passes implement the one-way mirror (`ImplementsMirror`): no failed, retried or interrupted pass gives a destination what its source has not had, or takes away what it has had, since the comparison; the pass ends |
| `supervisor_lifecycle` | start, passes, two updates accepted, refused or not saved, signals, panics, restarts | one pass per Syncer (`OnePassPerSyncer`); whenever the last update was accepted, file, memory and active Syncer agree (`ConfigIsConsistent`); a shutdown comes to its end (`ShutdownCompletes`) |
| `concurrent_requests` | two handlers, three updates, also during the start | the active Syncer has a schedule just when configured (`ActiveScheduleMatchesConfig`) |
| `config_cycle` | three files (new, legacy, mixed format), four environments, updates with mistakes, torn writes, edits by hand, restarts | an accepted update survives a restart (`AcceptedUpdatesSurvive`); what can keep the process from starting (`StartFailures`); loading loses no connection (`ConnectionsAreKept`); private events stay private (`PrivacyHolds`); UIDs of different sources differ (`UidsKeepApart`) |
| `retry` | `Do` and `DoWithRetryAfter` with the defaults' multiplier and jitter, context ending anywhere | at most one request after the end of the context (`OneLateCall`); the result is that of the last call (`ResultIsHonest`); the backoff is bounded (`BackoffIsBounded`) and grows (`BackoffGrows`); it returns (`Returns`) |
| `log_store` | two goroutines, three levels, a buffer of three that wraps | the ring buffer implements the bounded log (`ImplementsLog`); `List` is the query it promises (`ListIsQuery`); lines of one goroutine are in order (`WritersInOrder`) |

Runs that find a disagreement between the code and what a document or comment of the
repository says (quoted under `findings`):

| run | the code |
|---|---|
| `shared_source` | the second destination of a source is skipped: the first has stored the new state |
| `overlapping_passes` | a pass of the replaced Syncer overlaps with one of the new |

Further limits of the code, which the model has and which bound what the passing runs
can claim. Of the engine and the process:

- After a failed PUT the connection stays in error until the source changes again
  (`syncer.go:240`): the state has been stored, so that the next passes skip it.
  *Synchroniser maintenant* (`docs/RUNBOOK.md:35`) does not help.
- With a sync-token, an edit between `HasChanged` and the REPORT makes the fetch partial
  (`client.go:242`), although `Fetch` promises the full calendar (`interfaces.go:22`):
  the REPORT then lists what changed since the new token. `FetchIsFull` is therefore
  checked for CTag sources, and `QuietFetchIsExact` for sync-tokens.
- An edit between the GETs and the final PROPFIND (`client.go:291`) is in the stored
  state and not in the data; a CTag source therefore does not converge in general.
- A CalDAV source without events cannot be encoded (`client.go:349`): every pass fails
  and the last events are never marked deleted.
- A failed DELETE is forgotten (`syncer.go:358`), so `HardModePurges` needs DELETEs that
  succeed.
- A PUT whose answer is lost, or that a crash keeps from being recorded, leaves an old
  hash. If the source then returns to the old content, the event is taken for unchanged.
- An update during the initial pass leaves two schedules active (`main.go:154`), and so
  do two concurrent updates that replace the same Syncer. `ActiveScheduleMatchesConfig`
  says that the *active* Syncer is right nevertheless.
- Two concurrent updates may be written to `config.yaml` in the wrong order
  (`server.go:328`); an update refused with 400 stays in memory (`server.go:319`).
- A list shortened under a pass is an index out of range (`syncer.go:176`, `187`).
- A request that takes 30 s ends the fetch without a retry: the timeout of the HTTP
  client is taken for the end of the context (`retry.go:135`).
- A SIGTERM during the initial pass kills it (`main.go:159`).

Of the configuration:

- Types and passwords that an update leaves out come from the entry with the same
  position (`config_dto.go:200`). "Keep the current one" (`config_dto.go:64`) is true of
  lists that are not rearranged; otherwise a destination gets the password of another.
- An update that is refused, or that could not be saved, stays in memory and becomes part
  of the next one that is accepted.
- An update with an unknown plugin type, or with a URL that is not `http` or `https`
  (`client.go:30`), passes `Validate` and is answered with 400 after it has been written
  (`server.go:333`); the next start fails on it.
- `os.WriteFile` truncates before it writes (`config_dto.go:253`): a crash or a full disk
  leaves a file that is refused at the next start.
- A variable for a list entry that the file does not have (any more) makes an entry of
  its own, and the start fails; `SYNCCAL_CONFIG` hides the file, with all updates.
- Keys that contain `_` cannot be set by a variable: `SYNCCAL_SYNC_FILTER_PRIVATE` sets
  `sync.filter.private`, which nothing reads (`README.md:119-126` and
  `env_test.go:147` expect otherwise).
- A `prefix-uid` without prefix keeps the prefix of the URL it was first built with when
  its source is moved. Every event then carries both that prefix and its own; the store
  lists rows by the prefix of the source, which is no longer the first.
- With a `mask-private` on either side `filter_private` adds no filter (`syncer.go:107`):
  checking it, as `docs/RUNBOOK.md:46` advises, leaves the masked events where they are.
- Privacy is by the letters of `CLASS`, and a masked event keeps every property other
  than summary, description, location and attendees (organizer, comments).
- Of several VEVENTs with one UID the last one is published (`syncer.go:518`).

Of retry and log store:

- `Retry-After` is waited for without `MaxDelay`, and after the last attempt too, when
  nothing is tried any more. `DoWithRetryAfter` has no caller: the `Retry-After` that
  `README.md:51` announces is not respected by any request.
- `RetryableErrors` are the errors that are *not* tried again.
- The core of the log store writes whatever passes zap's check to the wrapped core
  itself, so `logging.level` has no effect on the output, and debug lines push older
  errors out of the buffer.

**Bounds.** `MaxRev` is 3 where the run is about a sequence of passes: an initial
calendar and two edits, so that an edit can fall before and after a comparison and an
event can go and come back. It is 2 where sources or failures multiply the states; one
edit still separates a stored from a current state. Two UIDs let one event be written
while another is not, and make a partial fetch possible; two contents let a hash change
and change back. `MaxAttempts` is 2 instead of 3: one retry and one last attempt. Two
failures let the second hit the recovery from the first; one suffices where the run is
about edits. Two destinations and two sources are enough for the ways they share a
calendar or a source. In `Supervisor`, two concurrent handlers with three updates allow
each to overtake the other and a third Syncer to follow; two goroutines besides `main`
allow an old and a new Syncer to run at once. The lists of `supervisor_lifecycle` have
two shapes (one source and two destinations, two sources and one destination), so that
an update may shorten either under a pass. `SYMMETRY` is used for the handlers in one
safety-only run, where they are interchangeable model values.

`log_store` has five entries for three slots: the position wraps around and the oldest
entry is overwritten twice. `retry` has the multiplier and the jitter of the defaults, a
`MaxDelay` of three `BaseDelay`s, so that the third delay meets the cap, and eight
attempts, so that jitter left on top of the cap would exceed what `BackoffIsBounded`
allows. `config_cycle` has three updates, edits or crashes (`MaxEdits`): one that goes wrong, one
that repairs and one more, with any number of restarts; its lists have at most two entries
(`MaxEntries`), so that one can be matched by position and one be left over. Its files, environments and
updates were chosen to have each kind of entry (named or not, nested, repeated name,
unknown type, `ics` on either side, refused URL, missing password, transformers of each kind and of an unknown one) on
both sides of a merge.

The deadlock check is off in `supervisor_lifecycle` and `config_cycle` (a process that
has died with a `config.yaml` it refuses stays down), in `retry` (a function returns)
and in `log_store` (the bound on entries).

**Fairness.** `Syncer!FairSpec` has `WF_vars(Sync)`: cron (or the user) starts passes
again and again, and a pass goes on by itself. Nothing obliges owners to edit or
failures to happen; both are bounded, so they cease, which is the hypothesis under
which convergence is meant. `Supervisor!FairSpec` has weak fairness of `main`'s own
steps, of each pass and of each handler: goroutines are scheduled and passes are bounded
by their context's timeout. Requests, cron and signals are not obliged to come.
`Retry!FairSpec` has weak fairness of a step of the function: a request ends, by itself
or by the timeout of the transport, and a timer fires. Nothing obliges the context to
end.

## 4. What is proved

TLAPS checks these for every value of the constants, with no bound on sources, events,
revisions, failures, goroutines, requests, attempts or slots.

| theorem | statement | argument |
|---|---|---|
| `SyncerProofs!TypeCorrect` | `Spec => []TypeOK` | inductive; split in four parts (`TypeParts`) so that each action is argued on what it changes |
| `ApplyInvariant` | `Spec => []ApplyInv` | strengthening used below: outside the loops nothing is under way; what is left to visit is a fetched event, what is left to delete an active row, what is to be recorded has been written |
| `SoftModeKeepsEvents` | `Spec => []MappedEventsExist` | from `ApplyInv`: only `RecordPut` and `RecordDelete` change rows (`StoreSteps`); the first records what the remote holds, the second a row that existed |
| `SourcesAreIsolated` | `Spec => OtherSourcesUntouched` | `ApplyInv` and `OwnKeys`: a published or listed key has the prefix of the source at hand |
| `HashesAreTrue` | `Spec => []HashMatchesDestination`, assuming `NoHalfWrites` (no SQLite failure, lost answer or crash) and `OwnCalendars` (no calendar is shared) | every remote write is followed by its record; without either assumption it is false |
| `PassProofs!SkippedSourcesAreApplied` | `Spec => []StoredStateIsApplied`, assuming `ErrorsAreKept` (no SQLite failure, crash or change of configuration) and `OwnSources` (no source is shared) | `StateInv`: the data at hand are those of the ETag stored with them, and each row is that of the data or still to be visited; a destination that is not at hand has an error or the rows of its stored state |
| `PassesMirror` | `Spec => ImplementsMirror`, assuming `WellFormedData` and `NoSyncTokens` | the connection of the mirror is `di` and `asof`, from the comparison to the end of the connection (`ServedInv`); by `FetchInv` and `GoneInv`, what is written or deleted is what the source had (`PublishedWereHad`); a write whose answer is lost is the last of its connection (`StepMirrors`) |
| `FetchesAreFull` | `Spec => []FetchIsFull`, assuming `WellFormedData` and `NoSyncTokens` | `FetchInv`: of the events the source has had since the comparison, only those still to be read are missing in what is merged (`Complete`), or nothing is merged and the attempt is about to fail |
| `QuietFetchesAreExact` | `Spec => []QuietFetchIsExact`, assuming `WellFormedData` | `FetchInv`: the sync-token at hand is that of the comparison, so that without an edit the REPORT is empty and everything is listed |
| `WritesHaveReasons` | `Spec => WritesAreJustified`, assuming `WellFormedData` and `NoSyncTokens` | `FetchInv`: what is merged has been seen in the source during the pass, and what is missing has been absent; `GoneInv`: what is marked deleted was not fetched |
| `HardModeDeletes` | `Spec => []HardModePurges`, assuming `NoHalfWrites`, `OwnCalendars` and `DeletesSucceed` | `PurgeInv`: what is about to be marked deleted has been deleted; the calendars change only where a write is under way (`WritesAreInFlight`) |
| `ConfigurationProofs!UpdatesSurviveRestarts` | `Spec => AcceptedUpdatesSurvive` | `LoadKeeps`, `LoadKeepsPipelines`: in an environment that only completes the file, loading it changes nothing but passwords and settings, a complete entry gets no defaults, and so the same pipelines are built |
| `StartFailuresAreKnown` | `Spec => []StartFailures` | `ConfigurationInv`: the file of an accepted update is valid and can be built, and so is what it becomes by merge, defaults and validation (`AlikeValid`), so that only a torn file, or one refused by `newSyncer` for a type or a URL, is left |
| `StartKeepsConnections` | `Spec => ConnectionsAreKept` | the migration moves each nested destination and nothing else (`SelectAtSelects`); the names of a valid configuration are distinct, so that each of the new references leads back to its source |
| `PrivateEventsStayPrivate` | `Spec => []PrivacyHolds` | `PipelinesInv`: the pipelines of the active Syncer are those `New` builds from the configuration in memory, also after it has written prefixes into it; by induction on the walk, an event stays masked once it is, and cannot pass a transformer for private events unmasked (`ApplyMasks`) |
| `SourcesDoNotShareUids` | `Spec => []UidsKeepApart` | `PipelinesInv`; by induction on the walk, the prefix next to the own part of a UID is that of the first `prefix-uid`, which is the one of the source (`ApplyPrefixes`) |
| `LogStoreProofs!RingBufferRefinesLog` | `Spec => ImplementsLog` | `ContentsAfterAppend`: in the slots from the oldest on, overwriting slot `next` is appending, after dropping the head when the buffer is full; each step then is one of `BoundedLog` |
| `LinesInOrder` | `Spec => []WritersInOrder` | `LogInv`: a goroutine's stamped entry is later than all its entries in the buffer, and no time is beyond the clock |
| `ListAnswersQuery` | `Spec => []ListIsQuery` | the `List` walk after *n* slots has collected what the selection from the newest *n* entries has (`SelectAt`, `ContentsAfterAppend`), until the limit stops it |
| `RetryProofs!LateCallsAreBounded`, `ResultIsThatOfTheLastCall` | `Spec => []OneLateCall`, `Spec => []ResultIsHonest` | `RetryInv`: a call that starts late ends the loop, and at the head of the loop the last outcome is one that is tried again |
| `BackoffTimeIsBounded` | `Spec => []BackoffIsBounded` | `WaitInv`: the time waited is at most `MaxDelay` per attempt made, and the last attempt waits for no backoff |
| `BackoffDoesNotShrink` | `Spec => BackoffGrows`, assuming `JitterIsCovered` | `Floor`: the shortest delay of an attempt is at least the longest of the one before, and the backoff at hand is at most the floor of the attempt |
| `TypeCorrect` in `ConfigurationProofs`, `LogStoreProofs`, `RetryProofs` | `Spec => []TypeOK` | inductive; for the configuration with `ConfigurationInv`: that the active Syncer was built from a valid configuration depends on what is in file and memory |
| `SupervisorProofs!TypeCorrect` | `Spec => []TypeOK` | inductive |
| `PassesExcludeEachOther` | `Spec => []OnePassPerSyncer` | `LockInv`: the flag of a Syncer is set exactly while one goroutine is in its pass, in dead processes too |
| `ActiveScheduleIsRight` | `Spec => []ActiveScheduleMatchesConfig`, assuming `UpdatesAreAccepted` | `ScheduleInv`: Syncers under construction are distinct and unscheduled, and unless a replacement or the start is pending the schedule of the holder fits the configuration |
| `AcceptedUpdatesAreConsistent` | `Spec => []ConfigIsConsistent`, assuming `OneHandler` | `ConsistencyInv`: the handler under way builds the newest Syncer, which is not yet active, and carries the configuration on, from memory to the file and to the new Syncer |

The assumption `UpdatesAreAccepted` is needed: a refused update changes the shared
interval without a restart of the schedule. So are `OneHandler` (two updates may be
written in the wrong order), `NoSyncTokens` for full fetches and for the mirror, `OwnSources` (run
`shared_source`), `ErrorsAreKept` and `DeletesSucceed`: without them the property is false,
for the reasons given in section 3. `WellFormedData` says that no resource is unreadable:
one that is, is left out of the merge as if it had been removed.
`JitterIsCovered`, that the multiplier outweighs the jitter, is true of the defaults (2 and
20 %); with a multiplier of 1 the jitter may shorten a delay.

**Induction over data.** What a loop computes is proved by induction without the library's
induction theorems, whose parameter the provers cannot instantiate. The loops are recursive
functions (`Collected`, `Walked`, `Exponential`, the walk of `List`);
`NatSetInduction` derives induction on the naturals, stated with a set in place of a
predicate, from the theorem that every nonempty set of them has a minimal element;
`IterationExists` derives from it that a function defined by recursion on its argument
exists, so that its defining equation may be used (`CollectedDef`, `WalkedDef`,
`ExponentialDef`).

**Only model-checked:** liveness (`Converges`, `ConvergesUnlessFailed`, `PassesEnd`,
`ShutdownCompletes`, `Returns`), which is out of the prover's reach. Every invariant and
every action property of the passing runs is stated by a theorem.

## 5. What is not modelled

- The branch of `Sync` for a destination whose source is unknown: `Validate` refuses
  such a configuration at start and on update. It can be met only through an update
  that is refused after having been merged into the shared configuration.
- The collection's own href in a depth-1 PROPFIND: `mergeCalendar` does not skip it as
  `ListEvents` does; the model takes it that servers answer its GET with something that
  does not parse, which is skipped. One that answers it with an error makes the attempt
  fail (`client.go:377`), as a failing request to the source does in the model.
- The reads of the interval in `StartScheduler` are one read.
- Statistics other than the error flags, metrics, the read side of the API,
  authentication, upload of plugins, static assets: nothing of the core depends on them.
- URL and XML helpers, headers, hash function, iCalendar syntax: abstracted to what they
  yield. In `Syncer` the pipeline of a destination is the set of contents it keeps, and
  every UID has the derived prefix; `Pipeline` has what transformers really do. A
  `prefix-uid` with a prefix of its own would hide rows from `ListMappings`.
- The sections `database`, `web`, `metrics` and `logging` of the configuration, and
  transformers set by variables of the environment: nothing but their own component
  reads them.
- The registry as a data structure: it is filled by `init` functions and constant
  afterwards; its listing serves the web UI. `ListEvents` of the store and its pagination
  serve the web UI too.

## 6. Plan

Done: `SourceCalendar`, `MappingStore`, `Syncer`, `Mirror`, `Supervisor`, `Pipeline`,
`Configuration`, `Retry`, `BoundedLog` and `LogStore`, with properties, runs and a theorem
for each safety property that the runs check. Next, in this order:

1. Invariants of the engine that hold with sync-tokens as well: what a partial fetch may
   infer, and what it may not.
2. `ListEvents` of the store: the pages of the web UI against rows written meanwhile.
