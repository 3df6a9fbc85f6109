-------------------------- MODULE SupervisorProofs --------------------------
(* Theorems about Supervisor, for any number of concurrent requests,          *)
(* goroutines, updates and destinations.                                      *)
EXTENDS SupervisorProperties, TLAPS

USE SupervisorAssumption

-----------------------------------------------------------------------------
(* Type correctness                                                           *)

(* Merging an update into a configuration gives a configuration.              *)
LEMMA MergeType ==
    ASSUME NEW c \in Config, NEW upd \in Updates
    PROVE  MergeUpdate(c, upd) \in Config
<1>1. CASE upd \in [interval : BOOLEAN]
  BY <1>1 DEF MergeUpdate, Config
<1>2. CASE upd \in [lists : Lists, check : Checks]
  BY <1>2 DEF MergeUpdate, Config
<1> QED BY <1>1, <1>2 DEF Updates

(* Some configuration, and what a write that fails may leave of one.          *)
LEMMA SomeConfigType == SomeConfig \in Config /\ TornFile \in Config
BY ListsAssumption DEF SomeConfig, TornFile, Config

(* The values of an idle goroutine and of an idle handler are well typed.     *)
LEMMA IdleTypes == NoJob \in Job /\ NoPut \in Put
<1>1. 0 \in Syncers /\ 1 \in 1..(MaxDests + 1)
  BY DEF Syncers
<1>2. [interval |-> FALSE] \in Updates
  BY DEF Updates
<1>3. SomeConfig \in Config
  BY SomeConfigType
<1> QED BY <1>1, <1>2, <1>3 DEF NoJob, Job, NoPut, Put

LEMMA PutType ==
    ASSUME NEW upd \in Updates, NEW n \in Syncers
    PROVE  [at |-> "merge", upd |-> upd, data |-> NoPut.data, new |-> n, old |-> 0] \in Put
<1>1. 0 \in Syncers
  BY DEF Syncers
<1>2. NoPut.data \in Config
  BY SomeConfigType DEF NoPut
<1> QED BY <1>1, <1>2 DEF Put

(* The process is well typed when it starts.                                  *)
LEMMA FreshType ==
    ASSUME NEW c \in Config
    PROVE  /\ Fresh(c).conns \in [Syncers -> Lists]
           /\ Fresh(c).scheduler \in [Syncers -> {"none", "on", "stopped"}]
           /\ Fresh(c).running \in [Syncers -> BOOLEAN]
           /\ Fresh(c).job \in [Threads -> Job]
           /\ Fresh(c).put \in [Requests -> Put]
BY IdleTypes DEF Fresh, Config

(* Every step keeps the types.                                                *)
LEMMA NextTypeOK == TypeOK /\ [Next]_vars => TypeOK'
<1> SUFFICES ASSUME TypeOK, [Next]_vars PROVE TypeOK'
  OBVIOUS
<1> USE DEF TypeOK
<1>0. 0 \in Syncers /\ Main \in Threads /\ Goroutines \subseteq Threads
  BY DEF Syncers, Threads
<1>1. CASE InitialSync
  BY <1>0, <1>1 DEF InitialSync, syncerVars, Job
<1>2. CASE Serve
  BY <1>2 DEF Serve, StartScheduler
<1>3. CASE Terminate \/ Shutdown \/ SyncCompleted \/ Deadline
  BY <1>3 DEF Terminate, Shutdown, SyncCompleted, Deadline, syncerVars
<1>4. CASE StopSchedule
  BY <1>4 DEF StopSchedule, Stop
<1>5. CASE Restart
  BY <1>0, <1>5, FreshType DEF Restart
<1>6. ASSUME NEW g \in Threads, Pass(g) PROVE TypeOK'
  <2>1. job[g] \in Job
    OBVIOUS
  <2>2. CASE EnterSync(g)
    <3>1. [job[g] EXCEPT !.at = "pass"] \in Job
      BY <2>1 DEF Job
    <3>2. job' \in [Threads -> Job]
      BY <2>2, <3>1, IdleTypes DEF EnterSync
    <3>3. running' \in [Syncers -> BOOLEAN]
      BY <2>2 DEF EnterSync
    <3> QED BY <2>2, <3>2, <3>3 DEF EnterSync
  <2>3. CASE SyncConnection(g)
    <3>1. conns[job[g].syncer].dests \in 1..MaxDests
      BY <2>1, ListsAssumption DEF Job
    <3> QED BY <2>1, <2>3, <3>1 DEF SyncConnection, syncerVars, Job
  <2>4. CASE LeaveSync(g)
    BY <2>1, <2>4, IdleTypes DEF LeaveSync, Job
  <2> QED BY <1>6, <2>2, <2>3, <2>4 DEF Pass
<1>7. ASSUME NEW g \in Goroutines, HandleSync(g) \/ TakeSyncer(g) PROVE TypeOK'
  <2>1. job[g] \in Job
    BY <1>0
  <2> QED BY <1>0, <1>7, <2>1 DEF HandleSync, TakeSyncer, syncerVars, Job
<1>8. ASSUME NEW g \in Goroutines, NEW y \in Syncers, CronFires(g, y) PROVE TypeOK'
  BY <1>0, <1>8 DEF CronFires, syncerVars, Job
<1>9. ASSUME NEW r \in Requests, NEW upd \in Updates, BeginPut(r, upd) PROVE TypeOK'
  <2>1. updates + 1 \in Syncers /\ updates' \in 0..MaxUpdates
    BY <1>9 DEF BeginPut, Syncers
  <2>2. [at |-> "merge", upd |-> upd, data |-> NoPut.data, new |-> updates + 1, old |-> 0] \in Put
    BY <2>1, PutType
  <2> QED BY <1>9, <2>1, <2>2 DEF BeginPut, syncerVars
<1>10. ASSUME NEW r \in Requests, ApplyConfig(r) PROVE TypeOK'
  <2>1. put[r] \in Put
    OBVIOUS
  <2>2. CASE MergePut(r)
    <3>1. put[r].upd \in Updates /\ NoPut.upd \in Updates
      BY <2>1, IdleTypes DEF Put
    <3>4. [put[r] EXCEPT !.at = "marshal", !.upd = NoPut.upd] \in Put
      BY <2>1, <3>1 DEF Put
    <3>2. cfg' \in Config
      BY <2>2, <3>1, MergeType DEF MergePut
    <3>3. put' \in [Requests -> Put]
      BY <2>2, <3>4, IdleTypes DEF MergePut, Answered
    <3>5. UNCHANGED <<main, file, holder, updates, conns, scheduler, running, job>>
      BY <2>2 DEF MergePut, syncerVars
    <3> QED BY <3>2, <3>3, <3>5
  <2>3. CASE MarshalPut(r) \/ GetOld(r)
    BY <2>1, <2>3 DEF MarshalPut, GetOld, syncerVars, Put
  <2>4. CASE WritePut(r)
    <3>1. put[r].data \in Config /\ NoPut.data \in Config
      BY <2>1, IdleTypes DEF Put
    <3>2. [put[r] EXCEPT !.at = "rebuild", !.data = NoPut.data] \in Put
      BY <2>1, <3>1 DEF Put
    <3>3. file' \in Config
      BY <2>4, <3>1, SomeConfigType DEF WritePut
    <3>4. put' \in [Requests -> Put]
      BY <2>4, <3>2, IdleTypes DEF WritePut, Answered
    <3>5. UNCHANGED <<main, cfg, holder, updates, conns, scheduler, running, job>>
      BY <2>4 DEF WritePut, syncerVars
    <3> QED BY <3>3, <3>4, <3>5
  <2>5. CASE RebuildPut(r)
    <3>1. put[r].new \in Syncers /\ cfg.lists \in Lists
      BY <2>1 DEF Put, Config
    <3>2. [put[r] EXCEPT !.at = "get"] \in Put
      BY <2>1 DEF Put
    <3>3. put' \in [Requests -> Put]
      BY <2>5, <3>2, IdleTypes DEF RebuildPut, Answered
    <3>4. conns' \in [Syncers -> Lists]
      BY <2>5, <3>1 DEF RebuildPut
    <3>5. UNCHANGED <<main, cfg, file, holder, updates, scheduler, running, job>>
      BY <2>5 DEF RebuildPut
    <3> QED BY <3>3, <3>4, <3>5
  <2>6. CASE StopOld(r)
    BY <2>1, <2>6 DEF StopOld, Stop, Put
  <2>7. CASE SetHolder(r)
    BY <2>1, <2>7 DEF SetHolder, syncerVars, Put
  <2>8. CASE StartNew(r)
    BY <2>1, <2>8, IdleTypes DEF StartNew, StartScheduler, Answered, Put
  <2> QED BY <1>10, <2>2, <2>3, <2>4, <2>5, <2>6, <2>7, <2>8 DEF ApplyConfig
<1>11. CASE UNCHANGED vars
  BY <1>11 DEF vars, syncerVars
<1> QED BY <1>1, <1>2, <1>3, <1>4, <1>5, <1>6, <1>7, <1>8, <1>9, <1>10, <1>11
        DEF Next, Process

(* Every reachable state is well typed; in particular no goroutine leaves the *)
(* loop over the destinations at the wrong place.                             *)
THEOREM TypeCorrect == Spec => []TypeOK
<1>1. Init => TypeOK
  BY FreshType DEF Init, TypeOK, Syncers, Config
<1> QED BY <1>1, NextTypeOK, PTL DEF Spec

-----------------------------------------------------------------------------
(* The lock of a Syncer                                                       *)

InPass(g, y) == job[g].at = "pass" /\ job[g].syncer = y

(* The running flags and the goroutines inside Sync belong together.  The     *)
(* main goroutine is free until the initial pass, which uses it.              *)
LockInv ==
    /\ main = "boot" => job[Main].at = "free"
    /\ \A y \in Syncers : running[y] => \E g \in Threads : InPass(g, y)
    /\ \A g \in Threads, y \in Syncers : InPass(g, y) => running[y]
    /\ \A g, h \in Threads, y \in Syncers : InPass(g, y) /\ InPass(h, y) => g = h

(* A step that changes neither the flags nor the goroutines keeps the lock.   *)
LEMMA SamePasses ==
    ASSUME LockInv, UNCHANGED <<job, running>>, main' = "boot" => main = "boot"
    PROVE  LockInv'
BY DEF LockInv, InPass

(* So does a goroutine that moves outside of Sync.                            *)
LEMMA OutsidePasses ==
    ASSUME TypeOK, LockInv, NEW g \in Threads, NEW j \in Job,
           job[g].at # "pass", j.at # "pass", job' = [job EXCEPT ![g] = j],
           UNCHANGED running, main' = "boot" => main = "boot" /\ g # Main
    PROVE  LockInv'
<1>1. \A h \in Threads : job'[h] = IF h = g THEN j ELSE job[h]
  BY DEF TypeOK
<1>2. \A h \in Threads, y \in Syncers : InPass(h, y)' <=> InPass(h, y)
  BY <1>1 DEF InPass
<1>3. main' = "boot" => job'[Main].at = "free"
  BY <1>1 DEF LockInv, Threads
<1> QED BY <1>2, <1>3 DEF LockInv

(* Every step keeps the lock.                                                 *)
LEMMA NextLockInv == TypeOK /\ LockInv /\ [Next]_vars => LockInv'
<1> SUFFICES ASSUME TypeOK, LockInv, [Next]_vars PROVE LockInv'
  OBVIOUS
<1>0. 0 \in Syncers /\ Main \in Threads /\ Goroutines \subseteq Threads /\ Main \notin Goroutines
  BY DEF Syncers, Threads
<1>1. CASE InitialSync
  <2>1. [at |-> "ready", syncer |-> 0, di |-> 1] \in Job
    BY <1>0 DEF Job
  <2>2. job[Main].at = "free" /\ main' = "initial"
    BY <1>1 DEF InitialSync, LockInv
  <2> QED BY <1>0, <1>1, <2>1, <2>2, OutsidePasses DEF InitialSync, syncerVars
<1>2. CASE Serve \/ Terminate \/ StopSchedule \/ Shutdown \/ SyncCompleted \/ Deadline
  <2>1. UNCHANGED <<job, running>> /\ main' # "boot"
    BY <1>2 DEF Serve, Terminate, StopSchedule, Shutdown, SyncCompleted, Deadline, syncerVars
  <2> QED BY <2>1, SamePasses
<1>3. CASE Restart
  BY <1>0, <1>3 DEF Restart, Fresh, NoJob, LockInv, InPass
<1>4. ASSUME NEW g \in Threads, Pass(g) PROVE LockInv'
  <2>1. job[g] \in Job
    BY DEF TypeOK
  <2>0. PICK y \in Syncers : y = job[g].syncer
    BY <2>1 DEF Job
  <2>2. CASE EnterSync(g) /\ running[y]
    <3>1. job' = [job EXCEPT ![g] = NoJob] /\ UNCHANGED <<running, main>> /\ job[g].at = "ready"
      BY <2>0, <2>2 DEF EnterSync
    <3>2. NoJob.at # "pass" /\ (main' = "boot" => g # Main)
      BY <3>1 DEF NoJob, LockInv
    <3> QED BY <3>1, <3>2, IdleTypes, OutsidePasses
  <2>3. CASE EnterSync(g) /\ ~running[y]
    <3>1. /\ \A h \in Threads : h # g => job'[h] = job[h]
          /\ job'[g].at = "pass" /\ job'[g].syncer = y
          /\ main' = main /\ job[g].at = "ready"
      BY <2>0, <2>1, <2>3 DEF EnterSync, TypeOK, Job
    <3>0. running'[y] /\ \A z \in Syncers : z # y => running'[z] = running[z]
      BY <2>0, <2>3 DEF EnterSync, TypeOK
    <3>2. \A h \in Threads, z \in Syncers :
             InPass(h, z)' <=> IF h = g THEN z = y ELSE InPass(h, z)
      BY <3>1 DEF InPass
    <3>3. \A h \in Threads : ~InPass(h, y)
      BY <2>3 DEF LockInv
    <3>4. \A z \in Syncers : ~InPass(g, z)
      BY <3>1, <3>3 DEF InPass
    <3>5. main' = "boot" => job'[Main].at = "free"
      BY <1>0, <3>1 DEF LockInv
    <3>6. \A z \in Syncers : running'[z] => \E h \in Threads : InPass(h, z)'
      BY <3>0, <3>2, <3>4 DEF LockInv
    <3>7. \A h \in Threads, z \in Syncers : InPass(h, z)' => running'[z]
      BY <3>0, <3>2 DEF LockInv
    <3>8. \A h, i \in Threads, z \in Syncers : InPass(h, z)' /\ InPass(i, z)' => h = i
      BY <3>2, <3>3 DEF LockInv
    <3> QED BY <3>5, <3>6, <3>7, <3>8 DEF LockInv
  <2>4. CASE SyncConnection(g)
    <3>1. /\ \A h \in Threads : job'[h].at = job[h].at /\ job'[h].syncer = job[h].syncer
          /\ running' = running /\ (main' = "boot" => main = "boot")
      BY <2>1, <2>4 DEF SyncConnection, TypeOK, Job, syncerVars
    <3> QED BY <1>0, <3>1 DEF LockInv, InPass
  <2>5. CASE LeaveSync(g)
    <3>1. /\ \A h \in Threads : job'[h] = IF h = g THEN NoJob ELSE job[h]
          /\ main' = main /\ InPass(g, y)
      BY <2>0, <2>5 DEF LeaveSync, TypeOK, InPass
    <3>0. ~running'[y] /\ \A z \in Syncers : z # y => running'[z] = running[z]
      BY <2>0, <2>5 DEF LeaveSync, TypeOK
    <3>2. \A h \in Threads, z \in Syncers : InPass(h, z)' <=> h # g /\ InPass(h, z)
      BY <3>1 DEF InPass, NoJob
    <3>3. \A z \in Syncers : z # y => ~InPass(g, z)
      BY <2>0 DEF InPass
    <3>4. main' = "boot" => job'[Main].at = "free"
      BY <1>0, <3>1 DEF LockInv, NoJob
    <3>5. \A z \in Syncers : running'[z] => \E h \in Threads : InPass(h, z)'
      BY <3>0, <3>2, <3>3 DEF LockInv
    <3>6. \A h \in Threads, z \in Syncers : InPass(h, z)' => running'[z]
      BY <3>0, <3>1, <3>2 DEF LockInv
    <3>7. \A h, i \in Threads, z \in Syncers : InPass(h, z)' /\ InPass(i, z)' => h = i
      BY <3>2 DEF LockInv
    <3> QED BY <3>4, <3>5, <3>6, <3>7 DEF LockInv
  <2> QED BY <1>4, <2>2, <2>3, <2>4, <2>5 DEF Pass
<1>5. ASSUME NEW g \in Goroutines, HandleSync(g) PROVE LockInv'
  <2>1. g \in Threads /\ job[g] \in Job /\ job[g].at = "free"
    BY <1>0, <1>5 DEF TypeOK, HandleSync
  <2>2. [job[g] EXCEPT !.at = "spawned"] \in Job
    BY <2>1 DEF Job
  <2>3. [job[g] EXCEPT !.at = "spawned"].at = "spawned"
    BY <2>1 DEF Job
  <2> QED BY <1>0, <1>5, <2>1, <2>2, <2>3, OutsidePasses DEF HandleSync, syncerVars
<1>6. ASSUME NEW g \in Goroutines, NEW y \in Syncers, CronFires(g, y) \/ TakeSyncer(g)
      PROVE  LockInv'
  <2>1. g \in Threads /\ job[g].at # "pass"
    BY <1>0, <1>6 DEF CronFires, TakeSyncer
  <2>2. PICK z \in Syncers : job' = [job EXCEPT ![g] = [at |-> "ready", syncer |-> z, di |-> 1]]
    BY <1>6 DEF CronFires, TakeSyncer, TypeOK
  <2>3. [at |-> "ready", syncer |-> z, di |-> 1] \in Job
    BY DEF Job
  <2>4. UNCHANGED <<running, main>>
    BY <1>6 DEF CronFires, TakeSyncer, syncerVars
  <2> QED BY <1>0, <2>1, <2>2, <2>3, <2>4, OutsidePasses
<1>7. ASSUME NEW r \in Requests, NEW upd \in Updates, BeginPut(r, upd) PROVE LockInv'
  BY <1>7, SamePasses DEF BeginPut, syncerVars
<1>8. ASSUME NEW r \in Requests, ApplyConfig(r) PROVE LockInv'
  <2>1. UNCHANGED <<job, running, main>>
    BY <1>8 DEF ApplyConfig, MergePut, MarshalPut, WritePut, RebuildPut, GetOld, StopOld,
                SetHolder, StartNew, syncerVars
  <2> QED BY <2>1, SamePasses
<1>9. CASE UNCHANGED vars
  BY <1>9, SamePasses DEF vars, syncerVars
<1> QED BY <1>0, <1>1, <1>2, <1>3, <1>4, <1>5, <1>6, <1>7, <1>8, <1>9 DEF Next, Process

(* A Syncer never runs two passes at once, and its running flag is set        *)
(* exactly while it runs one, for any number of cron jobs and requests.       *)
THEOREM PassesExcludeEachOther == Spec => []OnePassPerSyncer
<1>1. Init => LockInv
  BY DEF Init, Fresh, NoJob, LockInv, InPass, Threads
<1>2. LockInv => OnePassPerSyncer
  BY DEF LockInv, InPass, OnePassPerSyncer, Passing
<1> QED BY <1>1, <1>2, NextLockInv, TypeCorrect, PTL DEF Spec

-----------------------------------------------------------------------------
(* The schedule of the active Syncer                                          *)

(* Every update passes validation, finds its plugins and can be saved.        *)
UpdatesAreAccepted == Checks = {"ok"} /\ ~WriteMayFail

(* Some handler has merged its update and has yet to set the holder.          *)
Replacing ==
    \E r \in Requests : put[r].at \in {"marshal", "write", "rebuild", "get", "stop", "set"}

(* The schedule of Syncer y is still to be started.                           *)
StartPending(y) ==
    \/ y = 0 /\ main # "serving"
    \/ \E r \in Requests : put[r].at = "start" /\ put[r].new = y

ScheduleFits ==
    \/ scheduler[holder] = "on" /\ cfg.interval
    \/ scheduler[holder] = "none" /\ (cfg.interval => StartPending(holder))

(* The Syncers that handlers build are distinct and have no schedule yet, and *)
(* unless one of them is about to replace the active Syncer, the schedule of  *)
(* the latter fits the configuration or is about to be started.               *)
ScheduleInv ==
    /\ cfg.check = "ok"
    /\ \A y \in Syncers : y > updates => scheduler[y] = "none"
    /\ \A r \in Requests : put[r].at # "free" =>
          put[r].new \in 1..updates /\ scheduler[put[r].new] = "none"
    /\ \A r, q \in Requests :
          put[r].at # "free" /\ put[q].at # "free" /\ put[r].new = put[q].new => r = q
    /\ main \in {"boot", "initial", "serving"} /\ ~Replacing => ScheduleFits

(* Steps that leave configuration, schedules, holder and handlers alone.      *)
LEMMA SameSchedules ==
    ASSUME ScheduleInv, UNCHANGED <<cfg, scheduler, holder, updates, put>>,
           main' \in {"boot", "initial", "serving"} =>
               /\ main \in {"boot", "initial", "serving"}
               /\ main' = "serving" <=> main = "serving"
    PROVE  ScheduleInv'
<1>1. Replacing' <=> Replacing
  BY DEF Replacing
<1>2. main' \in {"boot", "initial", "serving"} => (ScheduleFits' <=> ScheduleFits)
  BY DEF ScheduleFits, StartPending
<1> QED BY <1>1, <1>2 DEF ScheduleInv

(* Stop and StartScheduler concern one Syncer only.                           *)
LEMMA SchedulerSteps ==
    ASSUME TypeOK, NEW y \in Syncers
    PROVE  /\ Stop(y) => \A z \in Syncers : scheduler[z] = "none" => scheduler'[z] = "none"
           /\ StartScheduler(y) => \A z \in Syncers : z # y => scheduler'[z] = scheduler[z]
           /\ StartScheduler(y) /\ scheduler[y] = "none" =>
                 scheduler'[y] = IF cfg.interval THEN "on" ELSE "none"
           /\ StartScheduler(y) /\ scheduler[y] # "none" => scheduler' = scheduler
BY DEF TypeOK, Stop, StartScheduler

(* A handler that goes from one place to another before the holder is set.    *)
LEMMA HandlerMoves ==
    ASSUME TypeOK, ScheduleInv, NEW r \in Requests, put[r].at # "free",
           NEW place \in {"marshal", "write", "rebuild", "get", "stop", "set"},
           \A q \in Requests : q # r => put'[q] = put[q],
           put'[r].at = place, put'[r].new = put[r].new,
           \A z \in Syncers : scheduler[z] = "none" => scheduler'[z] = "none",
           cfg'.check = "ok", updates' = updates
    PROVE  ScheduleInv'
<1>1. Replacing'
  BY DEF Replacing
<1>2. \A q \in Requests : (put'[q].at # "free" <=> put[q].at # "free") /\ put'[q].new = put[q].new
  OBVIOUS
<1>3. \A q \in Requests : put[q].new \in Syncers
  BY DEF TypeOK, Put
<1> QED BY <1>1, <1>2, <1>3 DEF ScheduleInv

(* Every step keeps the invariant when every update is accepted.              *)
LEMMA NextScheduleInv ==
    ASSUME UpdatesAreAccepted
    PROVE  TypeOK /\ ScheduleInv /\ [Next]_vars => ScheduleInv'
<1> SUFFICES ASSUME TypeOK, ScheduleInv, [Next]_vars PROVE ScheduleInv'
  OBVIOUS
<1>0. 0 \in Syncers /\ updates \in Nat /\ \A y \in Syncers : y \in Nat
  BY DEF Syncers, TypeOK
<1>1. CASE InitialSync \/ Terminate \/ Shutdown \/ SyncCompleted \/ Deadline
  BY <1>1, SameSchedules DEF InitialSync, Terminate, Shutdown, SyncCompleted, Deadline, syncerVars
<1>2. CASE Serve
  <2>1. StartScheduler(0) /\ UNCHANGED <<cfg, holder, updates, put>> /\ main' = "serving"
    BY <1>2 DEF Serve
  <2>2. \A z \in Syncers : z # 0 => scheduler'[z] = scheduler[z]
    BY <1>0, <2>1, SchedulerSteps
  <2>3. Replacing' <=> Replacing
    BY <2>1 DEF Replacing
  <2>4. ASSUME ~Replacing PROVE ScheduleFits'
    <3>1. ScheduleFits
      BY <1>2, <2>4 DEF ScheduleInv, Serve
    <3>2. CASE holder = 0
      BY <1>0, <2>1, <3>1, <3>2, SchedulerSteps DEF ScheduleFits
    <3>3. CASE holder # 0
      <4>1. scheduler'[holder] = scheduler[holder]
        BY <2>2, <3>3 DEF TypeOK
      <4> QED BY <2>1, <3>1, <3>3, <4>1 DEF ScheduleFits, StartPending
    <3> QED BY <3>2, <3>3
  <2>5. \A r \in Requests : put[r].new \in Syncers
    BY DEF TypeOK, Put
  <2> QED BY <1>0, <2>1, <2>2, <2>3, <2>4, <2>5 DEF ScheduleInv
<1>3. CASE StopSchedule
  <2>1. \A z \in Syncers : scheduler[z] = "none" => scheduler'[z] = "none"
    BY <1>3, SchedulerSteps DEF StopSchedule, TypeOK
  <2>2. \A r \in Requests : put[r].new \in Syncers
    BY DEF TypeOK, Put
  <2> QED BY <1>3, <2>1, <2>2 DEF StopSchedule, ScheduleInv
<1>4. CASE Restart
  <2>1. /\ \A y \in Syncers : scheduler'[y] = "none"
        /\ \A r \in Requests : put'[r].at = "free"
        /\ main' = "boot" /\ holder' = 0 /\ cfg'.check = "ok"
    BY <1>4 DEF Restart, Fresh, NoPut
  <2>2. ScheduleFits'
    BY <1>0, <2>1 DEF ScheduleFits, StartPending
  <2> QED BY <2>1, <2>2 DEF ScheduleInv
<1>5. ASSUME NEW g \in Threads, Pass(g) PROVE ScheduleInv'
  BY <1>5, SameSchedules DEF Pass, EnterSync, SyncConnection, LeaveSync, syncerVars
<1>6. ASSUME NEW g \in Goroutines, NEW y \in Syncers,
             HandleSync(g) \/ TakeSyncer(g) \/ CronFires(g, y)
      PROVE  ScheduleInv'
  BY <1>6, SameSchedules DEF HandleSync, TakeSyncer, CronFires, syncerVars
<1>7. ASSUME NEW r \in Requests, NEW upd \in Updates, BeginPut(r, upd) PROVE ScheduleInv'
  <2>1. /\ \A q \in Requests : q # r => put'[q] = put[q]
        /\ put[r].at = "free" /\ put'[r].at = "merge" /\ put'[r].new = updates + 1
        /\ updates' = updates + 1 /\ updates + 1 \in Syncers
        /\ UNCHANGED <<main, cfg, holder, scheduler>>
    BY <1>7 DEF BeginPut, TypeOK, Syncers, syncerVars
  <2>2. scheduler[updates + 1] = "none"
    BY <1>0, <2>1 DEF ScheduleInv
  <2>3. Replacing' <=> Replacing
    BY <2>1 DEF Replacing
  <2>4. ScheduleFits => ScheduleFits'
    <3>1. StartPending(holder) => StartPending(holder)'
      BY <2>1 DEF StartPending
    <3> QED BY <2>1, <3>1 DEF ScheduleFits
  <2>5. \A q \in Requests : put'[q].at # "free" =>
           put'[q].new \in 1..updates' /\ scheduler'[put'[q].new] = "none"
    BY <1>0, <2>1, <2>2 DEF ScheduleInv
  <2>6. \A q, p \in Requests :
           put'[q].at # "free" /\ put'[p].at # "free" /\ put'[q].new = put'[p].new => q = p
    <3>1. \A q \in Requests : q # r /\ put[q].at # "free" => put[q].new # updates + 1
      BY <1>0 DEF ScheduleInv
    <3> QED BY <2>1, <3>1 DEF ScheduleInv
  <2>7. \A y \in Syncers : y > updates' => scheduler'[y] = "none"
    BY <1>0, <2>1 DEF ScheduleInv
  <2> QED BY <2>1, <2>3, <2>4, <2>5, <2>6, <2>7 DEF ScheduleInv
<1>8. ASSUME NEW r \in Requests, ApplyConfig(r) PROVE ScheduleInv'
  <2>0. put[r] \in Put /\ put[r].new \in Syncers /\ put[r].old \in Syncers
    BY DEF TypeOK, Put
  <2>1. CASE MergePut(r)
    <3>1. put[r].upd \in Updates
      BY <2>0 DEF Put
    <3>2. MergeUpdate(cfg, put[r].upd).check = "ok"
      <4>1. CASE put[r].upd \in [interval : BOOLEAN]
        BY <4>1 DEF MergeUpdate, TypeOK, Config, ScheduleInv
      <4>2. CASE put[r].upd \in [lists : Lists, check : Checks]
        BY <4>2 DEF MergeUpdate, TypeOK, Config, UpdatesAreAccepted
      <4> QED BY <3>1, <4>1, <4>2 DEF Updates
    <3>3. put' = [put EXCEPT ![r].at = "marshal", ![r].upd = NoPut.upd] /\ cfg'.check = "ok"
      BY <2>1, <3>2 DEF MergePut
    <3>4. /\ \A q \in Requests : q # r => put'[q] = put[q]
          /\ put'[r].at = "marshal" /\ put'[r].new = put[r].new
      BY <2>0, <3>3 DEF TypeOK, Put
    <3>5. put[r].at # "free" /\ UNCHANGED <<scheduler, updates>>
      BY <2>1 DEF MergePut, At, syncerVars
    <3> QED BY <3>3, <3>4, <3>5, HandlerMoves
  <2>2. CASE MarshalPut(r) \/ WritePut(r) \/ RebuildPut(r) \/ GetOld(r)
    <3>1. PICK place \in {"write", "rebuild", "get", "stop"} :
             /\ \A q \in Requests : q # r => put'[q] = put[q]
             /\ put'[r].at = place /\ put'[r].new = put[r].new
      BY <2>0, <2>2 DEF MarshalPut, WritePut, RebuildPut, GetOld, TypeOK, Put,
                        UpdatesAreAccepted, ScheduleInv
    <3>2. put[r].at # "free" /\ UNCHANGED <<cfg, scheduler, updates>>
      BY <2>2 DEF MarshalPut, WritePut, RebuildPut, GetOld, At, syncerVars
    <3>3. cfg'.check = "ok"
      BY <3>2 DEF ScheduleInv
    <3> QED BY <3>1, <3>2, <3>3, HandlerMoves
  <2>3. CASE StopOld(r)
    <3>1. /\ \A q \in Requests : q # r => put'[q] = put[q]
          /\ put'[r].at = "set" /\ put'[r].new = put[r].new
      BY <2>0, <2>3 DEF StopOld, TypeOK, Put
    <3>2. put[r].at # "free" /\ UNCHANGED <<cfg, updates>> /\ Stop(put[r].old)
      BY <2>3 DEF StopOld, At
    <3>3. cfg'.check = "ok"
      BY <3>2 DEF ScheduleInv
    <3> QED BY <2>0, <3>1, <3>2, <3>3, HandlerMoves, SchedulerSteps
  <2>4. CASE SetHolder(r)
    <3>1. /\ \A q \in Requests : q # r => put'[q] = put[q]
          /\ put'[r].at = "start" /\ put'[r].new = put[r].new /\ holder' = put[r].new
      BY <2>0, <2>4 DEF SetHolder, TypeOK, Put
    <3>2. put[r].at = "set" /\ UNCHANGED <<main, cfg, scheduler, updates>>
      BY <2>4 DEF SetHolder, At, syncerVars
    <3>3. ScheduleFits'
      BY <3>1, <3>2 DEF ScheduleInv, ScheduleFits, StartPending
    <3>4. \A q \in Requests : (put'[q].at # "free" <=> put[q].at # "free") /\ put'[q].new = put[q].new
      BY <3>1, <3>2
    <3> QED BY <3>2, <3>3, <3>4 DEF ScheduleInv
  <2>5. CASE StartNew(r)
    <3>1. /\ \A q \in Requests : q # r => put'[q] = put[q]
          /\ put'[r].at = "free" /\ put[r].at = "start"
          /\ UNCHANGED <<main, cfg, holder, updates>> /\ StartScheduler(put[r].new)
      BY <2>5 DEF StartNew, Answered, NoPut, At, TypeOK
    <3>2. \A z \in Syncers : z # put[r].new => scheduler'[z] = scheduler[z]
      BY <2>0, <3>1, SchedulerSteps
    <3>3. put[r].new \in 1..updates /\ scheduler[put[r].new] = "none"
      BY <3>1 DEF ScheduleInv
    <3>4. \A q \in Requests : q # r /\ put[q].at # "free" => put[q].new # put[r].new
      BY <3>1 DEF ScheduleInv
    <3>5. \A q \in Requests : put'[q].at # "free" =>
             put'[q].new \in 1..updates' /\ scheduler'[put'[q].new] = "none"
      <4>1. \A q \in Requests : put[q].new \in Syncers
        BY DEF TypeOK, Put
      <4> QED BY <3>1, <3>2, <3>4, <4>1 DEF ScheduleInv
    <3>6. \A y \in Syncers : y > updates' => scheduler'[y] = "none"
      BY <1>0, <2>0, <3>1, <3>2, <3>3 DEF ScheduleInv
    <3>7. Replacing' <=> Replacing
      BY <3>1 DEF Replacing
    <3>8. ScheduleFits => ScheduleFits'
      <4>1. CASE holder = put[r].new
        BY <2>0, <3>1, <3>3, <4>1, SchedulerSteps DEF ScheduleFits
      <4>2. CASE holder # put[r].new
        <5>1. scheduler'[holder] = scheduler[holder]
          BY <3>2, <4>2 DEF TypeOK
        <5>2. StartPending(holder) => StartPending(holder)'
          BY <3>1, <4>2 DEF StartPending
        <5> QED BY <3>1, <5>1, <5>2 DEF ScheduleFits
      <4> QED BY <4>1, <4>2
    <3>9. \A q, p \in Requests :
             put'[q].at # "free" /\ put'[p].at # "free" /\ put'[q].new = put'[p].new => q = p
      BY <3>1 DEF ScheduleInv
    <3> QED BY <3>1, <3>5, <3>6, <3>7, <3>8, <3>9 DEF ScheduleInv
  <2> QED BY <1>8, <2>1, <2>2, <2>3, <2>4, <2>5 DEF ApplyConfig
<1>9. CASE UNCHANGED vars
  BY <1>9, SameSchedules DEF vars, syncerVars
<1> QED BY <1>0, <1>1, <1>2, <1>3, <1>4, <1>5, <1>6, <1>7, <1>8, <1>9 DEF Next, Process

(* However many accepted updates are applied concurrently, and whenever they  *)
(* come during the start of the process, the Syncer that ends up in the       *)
(* holder has a schedule just when the configuration asks for one.            *)
THEOREM ActiveScheduleIsRight ==
    ASSUME UpdatesAreAccepted
    PROVE  Spec => []ActiveScheduleMatchesConfig
<1>1. Init => ScheduleInv
  <2> SUFFICES ASSUME Init PROVE ScheduleInv
    OBVIOUS
  <2>1. /\ \A y \in Syncers : scheduler[y] = "none"
        /\ \A r \in Requests : put[r].at = "free"
        /\ main = "boot" /\ holder = 0 /\ cfg.check = "ok" /\ 0 \in Syncers
    BY DEF Init, Fresh, NoPut, Syncers
  <2>2. ScheduleFits
    BY <2>1 DEF ScheduleFits, StartPending
  <2> QED BY <2>1, <2>2 DEF ScheduleInv
<1>2. ScheduleInv => ActiveScheduleMatchesConfig
  BY DEF ScheduleInv, ActiveScheduleMatchesConfig, Quiescent, Replacing, ScheduleFits, StartPending
<1> QED BY <1>1, <1>2, NextScheduleInv, TypeCorrect, PTL DEF Spec

-----------------------------------------------------------------------------
(* Agreement of file, configuration and active Syncer                         *)

OneHandler == \A r, q \in Requests : r = q

(* The handler under way builds the newest Syncer, which is not yet active;   *)
(* from step to step it carries the configuration on, to the file and to the  *)
(* new Syncer.                                                                *)
ConsistencyInv ==
    /\ holder <= updates
    /\ \A r \in Requests :
           /\ put[r].at # "free" => put[r].new = updates
           /\ put[r].at \notin {"free", "start"} => holder # updates
           /\ put[r].at = "start" => holder = updates
           /\ put[r].at = "write" => put[r].data = cfg
           /\ put[r].at \in {"rebuild", "get", "stop", "set", "start"} => file = cfg
           /\ put[r].at \in {"get", "stop", "set", "start"} => conns[put[r].new] = cfg.lists
    /\ (\A r \in Requests : put[r].at = "free") /\ holder = updates =>
           file = cfg /\ conns[holder] = cfg.lists

LEMMA SameConfiguration ==
    ASSUME ConsistencyInv, UNCHANGED <<cfg, file, holder, updates, conns, put>>
    PROVE  ConsistencyInv'
BY DEF ConsistencyInv

(* A step of the only handler: what it has to keep.                           *)
LEMMA HandlerSteps ==
    ASSUME OneHandler, TypeOK, ConsistencyInv, NEW r \in Requests, ApplyConfig(r)
    PROVE  ConsistencyInv'
<1>1. put[r] \in Put /\ put[r].new \in Syncers /\ holder \in Nat /\ updates \in Nat
  BY DEF TypeOK, Put, Syncers
<1>2. \A q \in Requests : q = r
  BY DEF OneHandler
<1>3. put'[r].at = "free" /\ UNCHANGED updates /\ holder' # updates /\ holder' <= updates
      => ConsistencyInv'
  BY <1>2 DEF ConsistencyInv
<1>4. CASE MergePut(r)
  <2>1. holder # updates /\ put[r].new = updates /\ UNCHANGED <<holder, updates>>
    BY <1>4 DEF MergePut, At, ConsistencyInv
  <2>2. CASE put' = [put EXCEPT ![r] = NoPut]
    BY <1>3, <2>1, <2>2 DEF NoPut, TypeOK, ConsistencyInv
  <2>3. CASE put' = [put EXCEPT ![r].at = "marshal", ![r].upd = NoPut.upd]
    BY <1>1, <1>2, <2>1, <2>3 DEF TypeOK, Put, ConsistencyInv
  <2> QED
    BY <1>4, <2>2, <2>3 DEF MergePut, Answered
<1>5. CASE MarshalPut(r)
  BY <1>1, <1>2, <1>5 DEF MarshalPut, At, syncerVars, TypeOK, Put, ConsistencyInv
<1>6. CASE WritePut(r)
  <2>1. holder # updates /\ put[r].new = updates /\ put[r].data = cfg
        /\ UNCHANGED <<holder, updates, cfg, conns>>
    BY <1>6 DEF WritePut, At, syncerVars, ConsistencyInv
  <2>2. CASE put' = [put EXCEPT ![r] = NoPut]
    BY <1>3, <2>1, <2>2 DEF NoPut, TypeOK, ConsistencyInv
  <2>3. CASE /\ file' = put[r].data
             /\ put' = [put EXCEPT ![r].at = "rebuild", ![r].data = NoPut.data]
    BY <1>1, <1>2, <2>1, <2>3 DEF TypeOK, Put, ConsistencyInv
  <2> QED
    BY <1>6, <2>2, <2>3 DEF WritePut, Answered
<1>7. CASE RebuildPut(r)
  <2>1. holder # updates /\ put[r].new = updates /\ file = cfg
        /\ UNCHANGED <<holder, updates, cfg, file>>
    BY <1>7 DEF RebuildPut, At, ConsistencyInv
  <2>2. CASE put' = [put EXCEPT ![r] = NoPut]
    BY <1>3, <2>1, <2>2 DEF NoPut, TypeOK, ConsistencyInv
  <2>3. CASE /\ put' = [put EXCEPT ![r].at = "get"]
             /\ conns' = [conns EXCEPT ![put[r].new] = cfg.lists]
    BY <1>1, <1>2, <2>1, <2>3 DEF TypeOK, Put, ConsistencyInv
  <2> QED
    BY <1>7, <2>2, <2>3 DEF RebuildPut, Answered
<1>8. CASE GetOld(r)
  BY <1>1, <1>2, <1>8 DEF GetOld, At, syncerVars, TypeOK, Put, ConsistencyInv
<1>9. CASE StopOld(r)
  BY <1>1, <1>2, <1>9 DEF StopOld, At, TypeOK, Put, ConsistencyInv
<1>10. CASE SetHolder(r)
  BY <1>1, <1>2, <1>10 DEF SetHolder, At, syncerVars, TypeOK, Put, ConsistencyInv
<1>11. CASE StartNew(r)
  BY <1>1, <1>2, <1>11 DEF StartNew, Answered, NoPut, At, TypeOK, ConsistencyInv
<1> QED
  BY <1>4, <1>5, <1>6, <1>7, <1>8, <1>9, <1>10, <1>11 DEF ApplyConfig

LEMMA NextConsistencyInv ==
    ASSUME OneHandler
    PROVE  TypeOK /\ ConsistencyInv /\ [Next]_vars => ConsistencyInv'
<1> SUFFICES ASSUME TypeOK, ConsistencyInv, [Next]_vars PROVE ConsistencyInv'
  OBVIOUS
<1>0. 0 \in Syncers
  BY DEF Syncers
<1>1. CASE Process \/ Terminate
  BY <1>1, SameConfiguration DEF Process, InitialSync, Serve, StopSchedule, Shutdown,
         SyncCompleted, Deadline, Terminate, syncerVars
<1>2. CASE Restart
  BY <1>0, <1>2 DEF Restart, Fresh, NoPut, ConsistencyInv
<1>3. ASSUME NEW g \in Threads, Pass(g) PROVE ConsistencyInv'
  BY <1>3, SameConfiguration DEF Pass, EnterSync, SyncConnection, LeaveSync, syncerVars
<1>4. ASSUME NEW g \in Goroutines, NEW y \in Syncers,
             HandleSync(g) \/ TakeSyncer(g) \/ CronFires(g, y)
      PROVE  ConsistencyInv'
  BY <1>4, SameConfiguration DEF HandleSync, TakeSyncer, CronFires, syncerVars
<1>5. ASSUME NEW r \in Requests, NEW upd \in Updates, BeginPut(r, upd) PROVE ConsistencyInv'
  <2>1. holder \in Nat /\ updates \in Nat /\ \A q \in Requests : q = r
    BY DEF OneHandler, TypeOK, Syncers
  <2> QED
    BY <1>5, <2>1 DEF BeginPut, TypeOK, syncerVars, ConsistencyInv
<1>6. ASSUME NEW r \in Requests, ApplyConfig(r) PROVE ConsistencyInv'
  BY <1>6, HandlerSteps
<1>7. CASE UNCHANGED vars
  BY <1>7, SameConfiguration DEF vars, syncerVars
<1> QED
  BY <1>0, <1>1, <1>2, <1>3, <1>4, <1>5, <1>6, <1>7 DEF Next

(* When updates come one at a time, file, memory and active Syncer agree      *)
(* whenever the last one was accepted, whatever was refused or not saved      *)
(* before it, across restarts and for any number of goroutines.               *)
THEOREM AcceptedUpdatesAreConsistent ==
    ASSUME OneHandler
    PROVE  Spec => []ConfigIsConsistent
<1>1. Init => ConsistencyInv
  <2>1. 0 \in Syncers
    BY DEF Syncers
  <2> QED
    BY <2>1 DEF Init, Fresh, NoPut, ConsistencyInv
<1>2. ConsistencyInv => ConfigIsConsistent
  BY DEF ConsistencyInv, ConfigIsConsistent, Quiescent
<1> QED
  BY <1>1, <1>2, NextConsistencyInv, TypeCorrect, PTL DEF Spec
=============================================================================
