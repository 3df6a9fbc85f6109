------------------------ MODULE SupervisorProperties ------------------------
(* What main and the web server owe to the operator.                          *)
EXTENDS Supervisor

Passing(y) == {g \in Threads : job[g].at = "pass" /\ job[g].syncer = y}

(* No update of the configuration is under way.                               *)
Quiescent == main = "serving" /\ \A r \in Requests : put[r].at = "free"

-----------------------------------------------------------------------------
(* The running flag of a Syncer is the lock of its passes: it is set exactly  *)
(* while one of them is running, whichever of main, cron and POST /api/sync   *)
(* started it, and also for a Syncer that has been replaced meanwhile.        *)
OnePassPerSyncer ==
    Alive => \A y \in Syncers :
        /\ running[y] <=> Passing(y) # {}
        /\ \A g, h \in Passing(y) : g = h

(* Once no update is under way, the Syncer of the holder has a schedule just  *)
(* when sync.interval asks for one, however the requests that replaced it and *)
(* the start of the process were interleaved: the active Syncer is never one  *)
(* that a concurrent request has stopped.                                     *)
ActiveScheduleMatchesConfig ==
    Quiescent => (scheduler[holder] = "on" <=> cfg.interval)

(* Between updates, config.yaml, the configuration in memory and the Syncer   *)
(* at work agree ("PUT: Mise a jour de la configuration (recharge la sync)"), *)
(* unless the last update was refused (Syncer n is that of update n): one     *)
(* update that is accepted makes up for all refused or unsaved ones before it.*)
ConfigIsConsistent ==
    Quiescent /\ holder = updates => file = cfg /\ conns[holder] = cfg.lists

(* At most one pass is running in the whole process ("lock anti-concurrence").*)
NoOverlappingPasses ==
    Alive => \A g, h \in Threads : job[g].at = "pass" /\ job[h].at = "pass" => g = h

-----------------------------------------------------------------------------
(* A signal that main has taken leads to the end of the process, although     *)
(* passes and updates are under way and the schedule of a Syncer that was     *)
(* swapped in during the shutdown goes on starting passes.                    *)
ShutdownCompletes == main = "stopping" ~> ~Alive
=============================================================================
