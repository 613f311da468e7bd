----------------------------- MODULE BackupRuns -----------------------------
(***************************************************************************)
(* The runs of the API server: manual ones (POST /api/backups/run) and     *)
(* scheduled ones (api-config.ts, daemon.ts), each through the stages of   *)
(* core/src/backup/orchestrator.ts, with the registry of runs and the      *)
(* history file they report to.                                            *)
(*                                                                         *)
(* The process has one thread: a step runs from one await to the next.  A  *)
(* manual run may start at any time, also next to another run; a scheduled *)
(* run waits for the previous scheduled one.                               *)
(*                                                                         *)
(* What a destination does with the files is the subject of Incremental.   *)
(***************************************************************************)
EXTENDS RunRegistry

CONSTANTS
    Manual,        \* the ids of manual runs; the others are scheduled
    Editable,      \* the destinations that edits of the config add and remove
    MaxHistory,    \* MAX_HISTORY_RECORDS
    Faults,        \* the kinds of failure the environment may cause
    NoOne

FaultKinds ==
    { "source"     \* a source is missing, a dump or a container fails: an error of the run
    , "empty"      \* no source file is found
    , "store"      \* a destination fails
    , "retention"  \* retention fails: an error of the run
    , "throw"      \* the manifest of a destination cannot be written
    , "history"    \* the history file cannot be written
    , "read"       \* the history file, or the config its records need, cannot be read
    , "crash" }    \* the process is killed

ASSUME RunsAssumption ==
    /\ Manual \subseteq RunIds
    /\ Editable \subseteq Dests
    /\ MaxHistory \in Nat \ {0}
    /\ Faults \subseteq FaultKinds

VARIABLES
    config,       \* the destinations in the config file now, `skip` ones left out
    daemonConfig, \* those the daemon read when it started
    pc,           \* the stage of each run
    targets,      \* the destinations of each run
    job,          \* the stage of each destination of each run
    troubled,     \* the runs with an error of their own (`errors`)
    result,       \* how each run's executeBackup ended
    registry,
    ticking,      \* no scheduled run is in progress and the timer is set
    history,      \* the records in backup-history.json, newest first
    dump,         \* the run whose database dump lies in the temp directory
    \* History, to state the properties:
    alone,        \* the runs that no other run was in progress next to
    lost          \* the runs that were over when the history was last lost

stage == <<pc, targets, job, troubled, result>>
vars  == <<config, daemonConfig, stage, registry, ticking, history, dump, alone, lost>>

Working  == {"resolving", "storing", "notifying"}
Ended    == {"skipped", "done", "error"}
Jobs     == Ended \union {"waiting", "storing", "retaining", "thrown", "lost"}
Fails(kind) == kind \in Faults

Init ==
    /\ config = Dests /\ daemonConfig = Dests
    /\ pc = [r \in RunIds |-> "none"]
    /\ targets = [r \in RunIds |-> {}]
    /\ job = [r \in RunIds |-> [d \in Dests |-> "waiting"]]
    /\ troubled = {}
    /\ result = [r \in RunIds |-> "none"]
    /\ registry = EmptyRegistry
    /\ ticking = TRUE
    /\ history = <<>> /\ dump = NoOne
    /\ alone = {} /\ lost = {}

EditConfig(d) ==
    /\ config' = IF d \in config THEN config \ {d} ELSE config \union {d}
    /\ UNCHANGED <<daemonConfig, stage, registry, ticking, history, dump, alone, lost>>
-----------------------------------------------------------------------------
\* From the trigger to the first await of executeRun: startRun with the
\* destinations the API sees in the config file, and the event "run-start".
Start(r, destinations) ==
    /\ pc[r] = "none"
    /\ pc' = [pc EXCEPT ![r] = "resolving"]
    /\ targets' = [targets EXCEPT ![r] = destinations]
    /\ registry' = ApplyProgressEvent(StartRun(registry, r, config), r, "run-start", NoOne)
    /\ alone' = IF \E q \in RunIds : pc[q] \in Working
                  THEN {q \in alone : pc[q] \notin Working} ELSE alone \union {r}
    /\ UNCHANGED <<config, daemonConfig, job, troubled, result, history, dump, lost>>

StartManual(r) ==
    /\ r \in Manual
    /\ Start(r, config)
    /\ UNCHANGED ticking

\* The daemon runs with the config it read when it started.
StartScheduled(r) ==
    /\ r \notin Manual /\ ticking
    /\ Start(r, daemonConfig)
    /\ ticking' = FALSE

\* resolveBackupFiles, the dumps included, then the event "archiving".
Resolve(r) ==
    /\ pc[r] = "resolving"
    /\ \E trouble \in IF Fails("source") THEN BOOLEAN ELSE {FALSE} :
         troubled' = IF trouble THEN troubled \union {r} ELSE troubled
    /\ dump' = r
    /\ pc' = [pc EXCEPT ![r] = "storing"]
    /\ registry' = ApplyProgressEvent(registry, r, "archiving", NoOne)
    /\ UNCHANGED <<config, daemonConfig, targets, job, result, ticking, history, alone, lost>>

\* buildEmptyResult: no "archiving", and no result of any destination.  A temp
\* directory or a source scan that throws ends the run in the same way.
ResolveNothing(r) ==
    /\ pc[r] = "resolving" /\ Fails("empty")
    /\ troubled' = troubled \union {r}
    /\ result' = [result EXCEPT ![r] = "failed"]
    /\ pc' = [pc EXCEPT ![r] = "notifying"]
    /\ UNCHANGED <<config, daemonConfig, targets, job, registry, ticking, history, dump, alone, lost>>

\* processSequential takes the destinations one after the other, and the
\* parallel ones start when all of them have ended.
Predecessors(r, d) == {e \in targets[r] \ Parallel : d \in Parallel \/ Place[e] < Place[d]}

\* Mutation: the sequential destinations are not awaited.
MayBeginAtOnce(r, d) ==
    /\ pc[r] = "storing" /\ d \in targets[r] /\ job[r][d] = "waiting"
MayBegin(r, d) ==
    /\ pc[r] = "storing" /\ d \in targets[r] /\ job[r][d] = "waiting"
    /\ \A e \in Predecessors(r, d) : job[r][e] \in Ended

\* A step of destination d that announces `phase` and goes to stage `next`.
Announce(r, d, phase, next) ==
    /\ job' = [job EXCEPT ![r][d] = next]
    /\ registry' = ApplyProgressEvent(registry, r, phase, d)
    /\ UNCHANGED <<config, daemonConfig, pc, targets, ticking, history, dump, alone, lost>>

\* storeToDestination.  Of the parallel destinations one that was to begin may
\* do so after another has thrown: Promise.all does not wait for it.
CanBegin(r, d) ==
    \/ MayBegin(r, d)
    \/ /\ result[r] = "failed" /\ d \in targets[r] \intersect Parallel
       /\ job[r][d] = "waiting"
       /\ \E e \in targets[r] \intersect Parallel : job[r][e] = "thrown"

Skip(r, d) ==
    /\ CanBegin(r, d)
    /\ Announce(r, d, "destination-skipped", "skipped")
    /\ UNCHANGED <<troubled, result>>

StoreStarts(r, d) ==
    /\ CanBegin(r, d)
    /\ Announce(r, d, "destination-start", "storing")
    /\ UNCHANGED <<troubled, result>>

\* announceDone, then applyRetention is awaited.
StoreSucceeds(r, d) ==
    /\ job[r][d] = "storing"
    /\ Announce(r, d, "destination-done", "retaining")
    /\ UNCHANGED <<troubled, result>>

\* persistManifest throws: executeBackup fails, and executeRun turns that into
\* a failed result without destinations (buildFailedResult).
Throws(r, d) ==
    /\ Fails("throw")
    /\ job' = [job EXCEPT ![r][d] = "thrown"]
    /\ IF pc[r] = "storing" THEN /\ result' = [result EXCEPT ![r] = "failed"]
                                 /\ pc' = [pc EXCEPT ![r] = "notifying"]
                            ELSE UNCHANGED <<result, pc>>

\* announceFailure, then persistManifest.
StoreFails(r, d) ==
    /\ job[r][d] = "storing" /\ Fails("store")
    /\ registry' = ApplyProgressEvent(registry, r, "destination-error", d)
    /\ \/ job' = [job EXCEPT ![r][d] = "error"] /\ UNCHANGED <<result, pc>>
       \/ Throws(r, d)
    /\ UNCHANGED <<config, daemonConfig, targets, troubled, ticking, history, dump, alone, lost>>

\* Mutation: the first destination that is done removes the dumps.
RetainedCleaning(r, d) ==
    /\ job[r][d] = "retaining"
    /\ job' = [job EXCEPT ![r][d] = "done"]
    /\ dump' = NoOne
    /\ UNCHANGED <<config, daemonConfig, pc, targets, troubled, result, registry, ticking, history, alone, lost>>

\* applyRetention ends, then persistManifest.
Retained(r, d) ==
    /\ job[r][d] = "retaining"
    /\ \E trouble \in IF Fails("retention") THEN BOOLEAN ELSE {FALSE} :
         troubled' = IF trouble /\ result[r] = "none" THEN troubled \union {r} ELSE troubled
    /\ \/ job' = [job EXCEPT ![r][d] = "done"] /\ UNCHANGED <<result, pc>>
       \/ Throws(r, d)
    /\ UNCHANGED <<config, daemonConfig, targets, registry, ticking, history, dump, alone, lost>>

\* Mutation: a destination that failed is waited for again.
AllEndedWell(r) ==
    /\ pc[r] = "storing" /\ \A d \in targets[r] : job[r][d] \in {"skipped", "done"}
    /\ result' = [result EXCEPT ![r] = "built"]
    /\ pc' = [pc EXCEPT ![r] = "notifying"]
    /\ UNCHANGED <<config, daemonConfig, targets, job, troubled, registry, ticking, history, dump, alone, lost>>

\* runDestinations is over: buildBackupResult.
AllEnded(r) ==
    /\ pc[r] = "storing" /\ \A d \in targets[r] : job[r][d] \in Ended
    /\ result' = [result EXCEPT ![r] = "built"]
    /\ pc' = [pc EXCEPT ![r] = "notifying"]
    /\ UNCHANGED <<config, daemonConfig, targets, job, troubled, registry, ticking, history, dump, alone, lost>>

Outcomes(r) == [d \in IF result[r] = "built" THEN targets[r] ELSE {} |-> job[r][d]]
Succeeded(r) ==
    result[r] = "built" /\ r \notin troubled /\ \A d \in targets[r] : job[r][d] # "error"

Newest(records) == SubSeq(records, 1, IF Len(records) > MaxHistory THEN MaxHistory ELSE Len(records))

\* The history is as it was, or it reads as an empty one from now on.
HistoryStays == UNCHANGED <<history, lost>>
HistoryIsLost == history' = <<>> /\ lost' = {q \in RunIds : pc[q] = "over"}

\* Mutation: the record's status is `success` alone.
RecordOfSuccess(r) ==
    /\ history' = Newest(<<[run |-> r, status |-> IF Succeeded(r) THEN "success" ELSE "failed"]>> \o history)
    /\ UNCHANGED lost

\* addBackupRecord: the file is read and rewritten, and one that cannot be read
\* is rewritten as if it had been empty.
Record(r) ==
    LET record == [run |-> r, status |-> DeriveRunStatus(Succeeded(r), Outcomes(r))]
    IN  \/ history' = Newest(<<record>> \o history) /\ UNCHANGED lost
        \/ /\ Fails("read")
           /\ history' = <<record>> /\ lost' = {q \in RunIds : pc[q] = "over"}

\* The completed notification is sent, executeRun removes the dumps, and the
\* run is reported: completeRun and persistBackupResult.
Settle(r) ==
    /\ pc[r] = "notifying"
    /\ pc' = [pc EXCEPT ![r] = "over"]
    /\ dump' = NoOne
    /\ registry' = CompleteRun(registry, r, Succeeded(r), Outcomes(r))
    /\ Record(r)
    /\ ticking' = (ticking \/ r \notin Manual)
    /\ UNCHANGED <<config, daemonConfig, targets, job, troubled, result, alone>>

\* Mutation: the scheduler goes on only after a run that was reported.
SettleUnrecordedStopping(r) ==
    /\ pc[r] = "notifying" /\ Fails("history")
    /\ pc' = [pc EXCEPT ![r] = "unrecorded"]
    /\ dump' = NoOne
    /\ registry' = FailRun(CompleteRun(registry, r, Succeeded(r), Outcomes(r)), r)
    /\ UNCHANGED <<config, daemonConfig, targets, job, troubled, result, ticking, history, alone, lost>>

\* The history file cannot be written, and is left as it was or truncated: a
\* file that does not parse reads as an empty one.  For a manual run the promise
\* is rejected, and its handler calls failRun; for a scheduled one the scheduler
\* logs the error and goes on.
SettleUnrecorded(r) ==
    /\ pc[r] = "notifying" /\ Fails("history")
    /\ pc' = [pc EXCEPT ![r] = "unrecorded"]
    /\ dump' = NoOne
    /\ registry' = LET completed == CompleteRun(registry, r, Succeeded(r), Outcomes(r))
                   IN  IF r \in Manual THEN FailRun(completed, r) ELSE completed
    /\ ticking' = (ticking \/ r \notin Manual)
    /\ HistoryStays \/ HistoryIsLost
    /\ UNCHANGED <<config, daemonConfig, targets, job, troubled, result, alone>>

\* Only the files are left; systemd starts the server again.  A history file
\* that was being written, by a run or by a request that compacts it, is cut off.
Crash ==
    /\ Fails("crash")
    /\ pc' = [r \in RunIds |-> IF pc[r] \in Working THEN "lost" ELSE pc[r]]
    /\ job' = [r \in RunIds |->
                 [d \in Dests |->
                    IF pc[r] # "none" /\ job[r][d] \in {"waiting", "storing", "retaining"}
                      THEN "lost" ELSE job[r][d]]]
    /\ registry' = EmptyRegistry
    /\ ticking' = TRUE
    /\ daemonConfig' = config
    /\ HistoryStays \/ HistoryIsLost
    /\ UNCHANGED <<config, targets, troubled, result, dump, alone>>
-----------------------------------------------------------------------------
RunStep(r) ==
    \/ Resolve(r) \/ ResolveNothing(r) \/ AllEnded(r) \/ Settle(r) \/ SettleUnrecorded(r)
    \/ \E d \in Dests : \/ Skip(r, d) \/ StoreStarts(r, d) \/ StoreSucceeds(r, d)
                        \/ StoreFails(r, d) \/ Retained(r, d)

Next ==
    \/ \E d \in Editable : EditConfig(d)
    \/ \E r \in RunIds : StartManual(r) \/ StartScheduled(r) \/ RunStep(r)
    \/ Crash

Spec == Init /\ [][Next]_vars

\* Every await ends: the steps of a run are fair, its triggers are not.
FairSpec == Spec /\ \A r \in RunIds : WF_vars(RunStep(r))
-----------------------------------------------------------------------------
TypeOK ==
    /\ config \subseteq Dests /\ daemonConfig \subseteq Dests
    /\ pc \in [RunIds -> {"none", "over", "unrecorded", "lost"} \union Working]
    /\ targets \in [RunIds -> SUBSET Dests]
    /\ job \in [RunIds -> [Dests -> Jobs]]
    /\ troubled \subseteq RunIds /\ alone \subseteq RunIds /\ lost \subseteq RunIds
    /\ result \in [RunIds -> {"none", "failed", "built"}]
    /\ registry.runs \in [RunIds -> Snapshots \union {NoSnapshot}]
    /\ registry.recent \in Seq({r \in RunIds : Registered(registry, r)})
    /\ ticking \in BOOLEAN
    /\ history \in Seq([run : RunIds, status : Statuses \ {"running"}])
    /\ Len(history) <= MaxHistory
    /\ dump \in RunIds \union {NoOne}

\* What the registry says of a settled run is what happened in it: its status
\* goes back to its destinations and to its own errors, and each destination it
\* lists shows how it ended, or how one did whose name or path is taken for its
\* own (deriveRunStatus, settleDestinations).  Nothing is said of a listed
\* destination that no result of the run is taken for.
SettledRunTellsWhatHappened ==
    \A r \in RunIds :
      Registered(registry, r) /\ pc[r] \in {"over", "unrecorded"} =>
        LET snap    == registry.runs[r]
            stored  == {d \in targets[r] : job[r][d] \in {"skipped", "done"}}
            allWell == result[r] = "built" /\ stored = targets[r]
        IN  /\ snap.status = "success" => allWell /\ r \notin troubled
            /\ snap.status = "skipped" => allWell /\ \A d \in targets[r] : job[r][d] = "skipped"
            /\ snap.status = "partial" => stored # {} /\ (stored # targets[r] \/ r \in troubled)
            /\ snap.status # "running"
            /\ result[r] = "built" =>
                 \A d \in Dests :
                   LET told == {e \in targets[r] : Matches(e, d)}
                   IN  told # {} => snap.dests[d] \in {"absent"} \union {job[r][e] : e \in told}

\* GET /api/backups/active: while a run the registry knows is in progress some
\* run is shown, and the run shown is in progress (run-events.ts keeps phase
\* and stage of a run together across two runs that overlap).
ActiveRunIsWorking ==
    GetActiveRun(registry) # NoSnapshot => pc[GetActiveRun(registry)] \in Working
ActiveRunShown ==
    /\ ActiveRunIsWorking
    /\ (\E r \in RunIds : Registered(registry, r) /\ pc[r] \in Working) =>
         GetActiveRun(registry) # NoSnapshot

\* The history and the registry tell the same of a run, a run has one record,
\* and a run that was recorded is found unless newer records pushed it out or
\* the file was lost since, by a read or a write that failed or by a kill while
\* it was written (addBackupRecord, completeRun).
HistoryAgrees ==
    /\ \A i, j \in 1..Len(history) : history[i].run = history[j].run => i = j
    /\ \A i \in 1..Len(history) :
         Registered(registry, history[i].run) =>
           registry.runs[history[i].run].status = history[i].status
    /\ \A r \in RunIds :
         pc[r] = "over" /\ r \notin lost /\ (\A i \in 1..Len(history) : history[i].run # r) =>
           Len(history) = MaxHistory

\* Of the destinations that are not parallel one is served at a time, and the
\* parallel ones begin when they have all ended (runDestinations).
OneAfterTheOther ==
    \A r \in RunIds :
      LET active == {d \in targets[r] : job[r][d] \in {"storing", "retaining"}}
      IN  /\ Cardinality(active \ Parallel) <= 1
          /\ (\E d \in targets[r] \intersect Parallel : job[r][d] \notin {"waiting", "lost"}) =>
               \A d \in targets[r] \ Parallel : job[r][d] \in Ended

\* A run that no other run overlaps and that has not failed finds its database
\* dump where it was made as long as a destination stores it (executeRun
\* removes the dumps; their names are the same in every run).
DumpsStay ==
    \A r \in alone : \A d \in targets[r] :
      job[r][d] = "storing" /\ result[r] # "failed" => dump = r

\* Every run that was started is settled, or lost in a crash, whatever fails in
\* it (executeRun catches everything).
RunsSettle == \A r \in RunIds : pc[r] = "resolving" ~> pc[r] \in {"over", "unrecorded", "lost"}

\* A scheduled run, however it ends, does not stop the schedule (runCallback).
ScheduleGoesOn == ~ticking ~> ticking

\* Seen through GET /api/backups/:id a run has the life RunLifecycle promises.
LifeOf(r) ==
    IF Registered(registry, r) THEN registry.runs[r].status
    ELSE IF pc[r] = "none" THEN "unknown" ELSE "forgotten"
Lifecycle == INSTANCE RunLifecycle WITH life <- [r \in RunIds |-> LifeOf(r)]
LifecycleHolds == Lifecycle!Spec
=============================================================================
