----------------------------- MODULE Supervisor -----------------------------
(* cmd/synccal/main.go and internal/web/server.go around Syncer: the process  *)
(* from its start to its exit, the cron scheduler of each Syncer, POST        *)
(* /api/sync, and PUT /api/config, which replaces the Syncer of the holder.   *)
(* A pass is here only the lock it holds and the configuration it reads; its  *)
(* work is the subject of module Syncer.                                      *)
EXTENDS Naturals

CONSTANTS
    Requests,       \* PUT /api/config handlers that may be active at once
    Goroutines,     \* goroutines for scheduled and manual passes
    Main,           \* the main goroutine, which runs the initial pass
    MaxUpdates,     \* bound: PUT /api/config in the life of one process
    Lists,          \* how many sources and destinations there may be
    MaxDests,       \* bound: number of destinations
    Checks,         \* the verdicts that submitted configurations may meet
    WriteMayFail    \* whether config.yaml may be unwritable

ASSUME SupervisorAssumption ==
    /\ Main \notin Goroutines
    /\ MaxUpdates \in Nat
    /\ MaxDests \in Nat \ {0}
    /\ Checks \subseteq {"ok", "invalid", "no_plugin"} /\ "ok" \in Checks
    /\ WriteMayFail \in BOOLEAN

ASSUME ListsAssumption ==
    Lists # {} /\ Lists \subseteq [sources : Nat \ {0}, dests : 1..MaxDests]

(* Syncer 0 is built by main, Syncer n for the n-th update.                   *)
Syncers == 0..MaxUpdates

(* A configuration: whether sync.interval is positive, the lengths of its     *)
(* lists, and what becomes of them: accepted, refused by config.Validate,     *)
(* refused by newSyncer (a type or a URL that no plugin takes), or cut short  *)
(* in config.yaml.                                                            *)
Config == [interval : BOOLEAN, lists : Lists, check : {"ok", "invalid", "no_plugin", "torn"}]

SomeConfig == [interval |-> FALSE, lists |-> CHOOSE l \in Lists : TRUE, check |-> "ok"]
TornFile == [SomeConfig EXCEPT !.check = "torn"]

(* An update sets sync.interval or the two lists, and leaves the rest.        *)
Updates == [interval : BOOLEAN] \cup [lists : Lists, check : Checks]

(* A goroutine on its way to, or inside, Syncer.Sync.                         *)
Job == [at : {"free", "spawned", "ready", "pass"}, syncer : Syncers, di : 1..(MaxDests + 1)]
NoJob == [at |-> "free", syncer |-> 0, di |-> 1]

(* applyConfig: upd, data, newSyncer and old.                                 *)
Put == [at : {"free", "merge", "marshal", "write", "rebuild", "get", "stop", "set", "start"},
        upd : Updates, data : Config, new : Syncers, old : Syncers]
NoPut == [at |-> "free", upd |-> [interval |-> FALSE], data |-> SomeConfig, new |-> 0, old |-> 0]

VARIABLES
    main,       \* where main is; "killed", "panicked" and "exited" end it
    cfg,        \* the one config.Config that main, Server and every Syncer share
    file,       \* config.yaml
    holder,     \* SyncerHolder.s
    updates,    \* number of PUT /api/config so far
    conns,      \* how long Syncer.sources and .destinations are
    scheduler,  \* Syncer.scheduler: nil, started or stopped
    running,    \* Syncer.running
    job,        \* the goroutines that call Syncer.Sync
    put         \* the handlers of PUT /api/config

syncerVars == <<conns, scheduler, running>>
vars == <<main, cfg, file, holder, updates, syncerVars, job, put>>

Alive == main \notin {"killed", "panicked", "exited"}
(* http.Server takes requests from before the initial pass until Shutdown.    *)
Accepting == main \in {"boot", "initial", "serving", "stopping"}
Threads == Goroutines \cup {Main}

TypeOK ==
    /\ main \in {"boot", "initial", "serving", "stopping", "draining", "waiting",
                 "killed", "panicked", "exited"}
    /\ cfg \in Config /\ file \in Config
    /\ holder \in Syncers /\ updates \in 0..MaxUpdates
    /\ conns \in [Syncers -> Lists]
    /\ scheduler \in [Syncers -> {"none", "on", "stopped"}]
    /\ running \in [Syncers -> BOOLEAN]
    /\ job \in [Threads -> Job]
    /\ put \in [Requests -> Put]

(* The process as it starts from configuration c.                             *)
Fresh(c) ==
    [conns     |-> [y \in Syncers |-> c.lists],
     scheduler |-> [y \in Syncers |-> "none"],
     running   |-> [y \in Syncers |-> FALSE],
     job       |-> [g \in Threads |-> NoJob],
     put       |-> [r \in Requests |-> NoPut]]

Init ==
    /\ main = "boot" /\ holder = 0 /\ updates = 0
    /\ file \in {c \in Config : c.check = "ok"} /\ cfg = file
    /\ conns = Fresh(file).conns /\ scheduler = Fresh(file).scheduler
    /\ running = Fresh(file).running /\ job = Fresh(file).job /\ put = Fresh(file).put
-----------------------------------------------------------------------------
(* StartScheduler does nothing when a scheduler exists, even a stopped one.   *)
StartScheduler(y) ==
    scheduler' = IF scheduler[y] = "none" /\ cfg.interval
                 THEN [scheduler EXCEPT ![y] = "on"] ELSE scheduler

(* Stop: cron starts no more jobs; those already started go on.               *)
Stop(y) ==
    scheduler' = IF scheduler[y] = "on"
                 THEN [scheduler EXCEPT ![y] = "stopped"] ELSE scheduler
-----------------------------------------------------------------------------
(* Syncer.Sync                                                                *)

(* The schedule of Syncer y starts a job in a goroutine of its own.           *)
CronFires(g, y) ==
    /\ Alive /\ scheduler[y] = "on" /\ job[g].at = "free"
    /\ job' = [job EXCEPT ![g] = [at |-> "ready", syncer |-> y, di |-> 1]]
    /\ UNCHANGED <<main, cfg, file, holder, updates, syncerVars, put>>

(* handleSync answers 409 when the Syncer of the holder is running; otherwise *)
(* a goroutine will ask the holder again.                                     *)
HandleSync(g) ==
    /\ Accepting /\ ~running[holder] /\ job[g].at = "free"
    /\ job' = [job EXCEPT ![g].at = "spawned"]
    /\ UNCHANGED <<main, cfg, file, holder, updates, syncerVars, put>>

TakeSyncer(g) ==
    /\ Alive /\ job[g].at = "spawned"
    /\ job' = [job EXCEPT ![g] = [at |-> "ready", syncer |-> holder, di |-> 1]]
    /\ UNCHANGED <<main, cfg, file, holder, updates, syncerVars, put>>

(* A plausible slip: the running flag is set without being tested.            *)
EnterSyncUntested(g) ==
    LET y == job[g].syncer IN
    /\ Alive /\ job[g].at = "ready"
    /\ job' = [job EXCEPT ![g].at = "pass"] /\ running' = [running EXCEPT ![y] = TRUE]
    /\ UNCHANGED <<main, cfg, file, holder, updates, conns, scheduler, put>>

(* The running flag is tested and set under the mutex of the Syncer; a call   *)
(* that finds it set returns at once.                                         *)
EnterSync(g) ==
    LET y == job[g].syncer IN
    /\ Alive /\ job[g].at = "ready"
    /\ IF running[y]
         THEN job' = [job EXCEPT ![g] = NoJob] /\ UNCHANGED running
         ELSE /\ job' = [job EXCEPT ![g].at = "pass"]
              /\ running' = [running EXCEPT ![y] = TRUE]
    /\ UNCHANGED <<main, cfg, file, holder, updates, conns, scheduler, put>>

(* A plausible slip: the loop runs once too often.                            *)
SyncConnectionOnceMore(g) ==
    /\ Alive /\ job[g].at = "pass" /\ job[g].di <= conns[job[g].syncer].dests + 1
    /\ job' = [job EXCEPT ![g].di = @ + 1]
    /\ UNCHANGED <<main, cfg, file, holder, updates, syncerVars, put>>

(* One round of the loop over the destinations the Syncer was built with.  It *)
(* reads cfg.Destinations[di], and cfg.Sources at the index its source had    *)
(* when the Syncer was built, if it had one: either may be out of range of    *)
(* the list that an update has put there since, which is a panic.             *)
SyncConnection(g) ==
    LET built == conns[job[g].syncer] IN
    /\ Alive /\ job[g].at = "pass" /\ job[g].di <= built.dests
    /\ \/ job[g].di <= cfg.lists.dests /\ job' = [job EXCEPT ![g].di = @ + 1] /\ UNCHANGED main
       \/ job[g].di > cfg.lists.dests /\ main' = "panicked" /\ UNCHANGED job
       \/ built.sources > cfg.lists.sources /\ main' = "panicked" /\ UNCHANGED job
    /\ UNCHANGED <<cfg, file, holder, updates, syncerVars, put>>

LeaveSync(g) ==
    LET y == job[g].syncer IN
    /\ Alive /\ job[g].at = "pass" /\ job[g].di > conns[y].dests
    /\ job' = [job EXCEPT ![g] = NoJob] /\ running' = [running EXCEPT ![y] = FALSE]
    /\ UNCHANGED <<main, cfg, file, holder, updates, conns, scheduler, put>>
-----------------------------------------------------------------------------
(* PUT /api/config: applyConfig                                               *)

At(r, place) == Alive /\ put[r].at = place

(* A request that finds the Syncer of the holder running is answered 409.     *)
BeginPut(r, upd) ==
    /\ Accepting /\ put[r].at = "free" /\ updates < MaxUpdates
    /\ ~running[holder]
    /\ updates' = updates + 1
    /\ put' = [put EXCEPT ![r] = [at |-> "merge", upd |-> upd, data |-> NoPut.data,
                                  new |-> updates + 1, old |-> 0]]
    /\ UNCHANGED <<main, cfg, file, holder, syncerVars, job>>

(* mergeConfigUpdate: the sections that are present replace the old ones.     *)
MergeUpdate(c, upd) ==
    IF "interval" \in DOMAIN upd THEN [c EXCEPT !.interval = upd.interval]
    ELSE [c EXCEPT !.lists = upd.lists, !.check = upd.check]

Answered(r) == put' = [put EXCEPT ![r] = NoPut]

(* The shared configuration is changed in place, and then validated.          *)
MergePut(r) ==
    /\ At(r, "merge")
    /\ cfg' = MergeUpdate(cfg, put[r].upd)
    /\ IF cfg'.check = "invalid" THEN Answered(r)
       ELSE put' = [put EXCEPT ![r].at = "marshal", ![r].upd = NoPut.upd]
    /\ UNCHANGED <<main, file, holder, updates, syncerVars, job>>

MarshalPut(r) ==
    /\ At(r, "marshal")
    /\ put' = [put EXCEPT ![r].at = "write", ![r].data = cfg]
    /\ UNCHANGED <<main, cfg, file, holder, updates, syncerVars, job>>

(* A plausible slip: an update takes effect without being saved.              *)
WritePutOmitted(r) ==
    /\ At(r, "write")
    /\ put' = [put EXCEPT ![r].at = "rebuild", ![r].data = NoPut.data]
    /\ UNCHANGED <<main, cfg, file, holder, updates, syncerVars, job>>

(* os.WriteFile, which truncates the file before it writes: when it fails,    *)
(* the file is as it was or cut short.                                        *)
WritePut(r) ==
    /\ At(r, "write")
    /\ \/ /\ file' = put[r].data
          /\ put' = [put EXCEPT ![r].at = "rebuild", ![r].data = NoPut.data]
       \/ WriteMayFail /\ file' \in {file, TornFile} /\ Answered(r)
    /\ UNCHANGED <<main, cfg, holder, updates, syncerVars, job>>

(* newSyncer: an entry for which there is no connector is answered 400.       *)
RebuildPut(r) ==
    /\ At(r, "rebuild")
    /\ IF cfg.check = "no_plugin"
         THEN Answered(r) /\ UNCHANGED conns
         ELSE /\ put' = [put EXCEPT ![r].at = "get"]
              /\ conns' = [conns EXCEPT ![put[r].new] = cfg.lists]
    /\ UNCHANGED <<main, cfg, file, holder, updates, scheduler, running, job>>

GetOld(r) ==
    /\ At(r, "get")
    /\ put' = [put EXCEPT ![r].at = "stop", ![r].old = holder]
    /\ UNCHANGED <<main, cfg, file, holder, updates, syncerVars, job>>

StopOld(r) ==
    /\ At(r, "stop")
    /\ Stop(put[r].old)
    /\ put' = [put EXCEPT ![r].at = "set"]
    /\ UNCHANGED <<main, cfg, file, holder, updates, conns, running, job>>

SetHolder(r) ==
    /\ At(r, "set")
    /\ holder' = put[r].new
    /\ put' = [put EXCEPT ![r].at = "start"]
    /\ UNCHANGED <<main, cfg, file, updates, syncerVars, job>>

(* A plausible slip: the schedule of the replaced Syncer is started again.    *)
StartOld(r) ==
    /\ At(r, "start")
    /\ StartScheduler(put[r].old)
    /\ Answered(r)
    /\ UNCHANGED <<main, cfg, file, holder, updates, conns, running, job>>

StartNew(r) ==
    /\ At(r, "start")
    /\ StartScheduler(put[r].new)
    /\ Answered(r)
    /\ UNCHANGED <<main, cfg, file, holder, updates, conns, running, job>>
-----------------------------------------------------------------------------
(* main                                                                       *)

(* The HTTP server is listening; main calls Sync on the Syncer it has built.  *)
InitialSync ==
    /\ main = "boot"
    /\ main' = "initial"
    /\ job' = [job EXCEPT ![Main] = [at |-> "ready", syncer |-> 0, di |-> 1]]
    /\ UNCHANGED <<cfg, file, holder, updates, syncerVars, put>>

(* The initial pass is over; main starts the schedule of that same Syncer and *)
(* asks for the signals.                                                      *)
Serve ==
    /\ main = "initial" /\ job[Main].at = "free"
    /\ main' = "serving"
    /\ StartScheduler(0)
    /\ UNCHANGED <<cfg, file, holder, updates, conns, running, job, put>>

(* SIGTERM or SIGINT (or, once serving, an error of the HTTP server).  Before *)
(* signal.Notify the signal has its default effect: the process dies.         *)
Terminate ==
    /\ main \in {"boot", "initial", "serving"}
    /\ main' = IF main = "serving" THEN "stopping" ELSE "killed"
    /\ UNCHANGED <<cfg, file, holder, updates, syncerVars, job, put>>

StopSchedule ==
    /\ main = "stopping"
    /\ main' = "draining"
    /\ Stop(holder)
    /\ UNCHANGED <<cfg, file, holder, updates, conns, running, job, put>>

(* server.Shutdown returns when every handler has returned.                   *)
Shutdown ==
    /\ main = "draining" /\ \A r \in Requests : put[r].at = "free"
    /\ main' = "waiting"
    /\ UNCHANGED <<cfg, file, holder, updates, syncerVars, job, put>>

(* waitForSyncCompletion polls the Syncer of the holder.                      *)
SyncCompleted ==
    /\ main = "waiting" /\ ~running[holder]
    /\ main' = "exited"
    /\ UNCHANGED <<cfg, file, holder, updates, syncerVars, job, put>>

(* A plausible slip: the deadline bounds Shutdown but not the wait that       *)
(* follows it.                                                                *)
DeadlineOfShutdown ==
    /\ main = "draining"
    /\ main' = "waiting"
    /\ UNCHANGED <<cfg, file, holder, updates, syncerVars, job, put>>

(* The 30 seconds of shutdownCtx, which bound Shutdown and the wait together. *)
Deadline ==
    /\ main \in {"draining", "waiting"}
    /\ main' = "exited"
    /\ UNCHANGED <<cfg, file, holder, updates, syncerVars, job, put>>

(* The service manager starts the process again.  config.Load or newSyncer    *)
(* fails on a bad file, and the process does not come up.                     *)
Restart ==
    /\ ~Alive /\ file.check = "ok"
    /\ main' = "boot" /\ holder' = 0 /\ updates' = 0 /\ cfg' = file
    /\ conns' = Fresh(file).conns /\ scheduler' = Fresh(file).scheduler
    /\ running' = Fresh(file).running /\ job' = Fresh(file).job /\ put' = Fresh(file).put
    /\ UNCHANGED file
-----------------------------------------------------------------------------
Pass(g) == EnterSync(g) \/ SyncConnection(g) \/ LeaveSync(g)

ApplyConfig(r) ==
    \/ MergePut(r) \/ MarshalPut(r) \/ WritePut(r) \/ RebuildPut(r)
    \/ GetOld(r) \/ StopOld(r) \/ SetHolder(r) \/ StartNew(r)

Process == InitialSync \/ Serve \/ StopSchedule \/ Shutdown \/ SyncCompleted \/ Deadline

Next ==
    \/ Process \/ Terminate \/ Restart
    \/ \E g \in Threads : Pass(g)
    \/ \E g \in Goroutines : HandleSync(g) \/ TakeSyncer(g)
    \/ \E g \in Goroutines, y \in Syncers : CronFires(g, y)
    \/ \E r \in Requests, upd \in Updates : BeginPut(r, upd)
    \/ \E r \in Requests : ApplyConfig(r)

Spec == Init /\ [][Next]_vars

(* Goroutines are scheduled fairly and passes end (their context has a        *)
(* timeout).  Nothing obliges clients, cron or the signals.                   *)
FairSpec ==
    /\ Spec
    /\ WF_vars(Process)
    /\ \A g \in Threads : WF_vars(Pass(g))
    /\ \A r \in Requests : WF_vars(ApplyConfig(r))
=============================================================================
