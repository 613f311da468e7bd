------------------------------- MODULE Daemon -------------------------------
(***************************************************************************)
(* The process that runs backups: the scheduler, which begins a run when   *)
(* its timer fires (core/src/scheduler/cron.ts, core/src/daemon.ts), the   *)
(* manual runs next to it, and SourceScan for what a run does.             *)
(***************************************************************************)
EXTENDS SourceScan

CONSTANTS
    Configs,    \* what the config file may say: a schedule and the sources
    MaxDelay,   \* setTimeout's longest delay, in days
    Cycle       \* days are counted modulo Cycle

\* config.every: the days between two runs; 0 is an expression that cannot be parsed.
ASSUME DaemonAssumption ==
    /\ Runs = {"manual", "scheduled"}
    /\ MaxDelay \in Nat /\ Cycle \in Nat \ {0} /\ None \notin Nat
    /\ \A c \in Configs : /\ c.every \in Nat /\ c.plan \in Plans
                          /\ c.every # 0 => Cycle % c.every = 0

VARIABLES
    file,     \* the config file
    config,   \* state.config: the file as it was when the daemon started
    running,  \* the process runs
    timer,    \* the days until the timer fires, or None
    day

vars == <<scan, file, config, running, timer, day>>

\* External: a longer delay does not fit setTimeout's 32 bits, and fires at once.
SetTimeout(delay) == IF delay > MaxDelay THEN 0 ELSE delay

\* Mutation: the next run is a whole period away.
ScheduleNextPeriod(c) == IF c.every = 0 THEN None ELSE SetTimeout(c.every)
\* scheduleNext: the next day the expression names, from now on.
ScheduleNext(c) ==
    IF c.every = 0 THEN None ELSE SetTimeout(c.every - (day % c.every))

Init ==
    /\ ScanInit
    /\ file \in Configs /\ config = file
    /\ running = TRUE /\ day = 0
    /\ timer = ScheduleNext(config)

\* createDaemon, when systemd starts the process.
StartDaemon ==
    /\ ~running
    /\ running' = TRUE /\ config' = file
    /\ timer' = ScheduleNext(file)
    /\ UNCHANGED <<scan, file, day>>

\* onTick and runBackupIfIdle: no timer is set while the run is in progress.
OnTick ==
    /\ running /\ timer = 0
    /\ BeginRun("scheduled", config.plan)
    /\ timer' = None
    /\ UNCHANGED <<file, config, running, day>>

\* POST /api/backups/run, with the config file as it is now.
RunNow ==
    /\ running
    /\ BeginRun("manual", file.plan)
    /\ UNCHANGED <<file, config, running, timer, day>>

\* The end of a scheduled run, well or not: the finally of runCallback.
EndScheduled ==
    /\ EndRun("scheduled")
    /\ timer' = ScheduleNext(config)
    /\ UNCHANGED <<file, config, running, day>>

EndManual ==
    /\ EndRun("manual")
    /\ UNCHANGED <<file, config, running, timer, day>>

\* SIGTERM, SIGINT (handleShutdown) or a crash: runs are not awaited.
Exit ==
    /\ running /\ Fails("crash")
    /\ ScanLost
    /\ running' = FALSE /\ timer' = None
    /\ UNCHANGED <<file, config, day>>

EditFile ==
    /\ file' \in Configs
    /\ UNCHANGED <<scan, config, running, timer, day>>

\* A timer that is due fires before the day is over.
DayPasses ==
    /\ timer # 0
    /\ day' = (day + 1) % Cycle
    /\ timer' = IF timer = None THEN None ELSE timer - 1
    /\ UNCHANGED <<scan, file, config, running>>

Next ==
    \/ StartDaemon \/ OnTick \/ RunNow \/ EndScheduled \/ EndManual \/ Exit \/ EditFile
    \/ DayPasses
    \/ /\ \/ \E r \in Runs : ScanStep(r)
          \/ \E c \in Switched : UserSwitches(c)
          \/ \E n \in Names : Ages(n)
       /\ UNCHANGED <<file, config, running, timer, day>>

Spec == Init /\ [][Next]_vars
-----------------------------------------------------------------------------
TypeOK ==
    /\ ScanTypeOK
    /\ file \in Configs /\ config \in Configs /\ running \in BOOLEAN
    /\ timer \in Nat \union {None} /\ day \in 0..(Cycle - 1)

\* A running scheduler has one timer or one run in progress and never both, if
\* the schedule of the last start can be parsed; a scheduled run begins on a day
\* of its schedule, if no day of it is further away than a timer can be set for
\* (scheduleNext, runCallback).
ScheduleIsKept ==
    [][/\ running' /\ config'.every # 0 => ((timer' = None) <=> stage'["scheduled"] # "none")
       /\ stage["scheduled"] = "none" /\ stage'["scheduled"] # "none" =>
            day % config.every = 0 \/ config.every > MaxDelay]_vars
=============================================================================
