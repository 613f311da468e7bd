----------------------------- MODULE RestoreJobs ------------------------------
(***************************************************************************)
(* The restore jobs of the API server: api/src/lib/store/restore.ts, which *)
(* keeps the jobs, and core/src/restore, the worker of a job, which lists  *)
(* the files of a snapshot and copies them to the target one by one.       *)
(*                                                                         *)
(* A step runs from one await to the next.  Cancelling a job settles it at *)
(* once; its worker goes on until it has finished the file it is at, and   *)
(* by then another job may have started.                                   *)
(***************************************************************************)
EXTENDS Naturals, FiniteSets

CONSTANTS
    JobIds,
    StartedAt,        \* StartedAt[j]: the turn of the id j; ids are given in this order
    Dests, SftpDests, \* the destinations, and those of type sftp
    Periods, Files,
    Holds,            \* Holds[d][p]: the files in the snapshot p at destination d
    Existing,         \* the files that exist at the target before any restore
    Blocked,          \* those whose target is a directory or a broken symlink
    MaxJobs,          \* MAX_JOBS
    Asked,            \* Asked[j]: what the request that starts j may be
    Faults, None

FaultKinds ==
    { "listing"  \* the snapshot cannot be listed
    , "slow"     \* the listing takes longer than SFTP_SCAN_TIMEOUT_MS
    , "connect"  \* no SFTP connection
    , "file"     \* a file cannot be copied
    , "crash" }

\* `whole` is a request without a list of files, `toRoot` one whose target root
\* is "/", as it is when none is named.
Requests == [dest : Dests, period : Periods, whole : BOOLEAN, files : SUBSET Files,
             overwrite : BOOLEAN, dryRun : BOOLEAN, toRoot : BOOLEAN]

RestoreAssumption ==
    /\ SftpDests \subseteq Dests
    /\ Holds \in [Dests -> [Periods -> SUBSET Files]]
    /\ Existing \subseteq Files /\ Blocked \subseteq Existing
    /\ MaxJobs \in Nat \ {0}
    /\ None \notin JobIds /\ IsFiniteSet(Files)
    /\ StartedAt \in [JobIds -> Nat]
    /\ \A j, q \in JobIds : StartedAt[j] = StartedAt[q] => j = q
    /\ Asked \in [JobIds -> SUBSET Requests]
    /\ Faults \subseteq FaultKinds

VARIABLES
    jobs,      \* the ids in the map of jobs
    active,    \* activeJobId
    job,       \* each job as the API shows it: its status and phase
    aborted,   \* the jobs whose AbortController was aborted
    request,   \* what each job was asked for
    worker,    \* the stage of each job's worker
    at,        \* the file a worker is copying
    outcome,   \* what became of each file of a job
    target,    \* the content of each file at the target
    \* History, to state the properties:
    met        \* met[j]: the jobs whose workers were at work beside that of j

work == <<worker, at, outcome, target, met>>
vars == <<jobs, active, job, aborted, request, work>>

AtWork   == {"listing", "connecting", "copying", "writing"}
Stages   == AtWork \union {"none", "over", "lost"}
Final    == {"success", "partial", "failed", "cancelled"}
\* "none" is a file the job has nothing to do with.
Outcomes == {"none", "pending", "restored", "skipped", "failed"}
Fails(kind) == kind \in Faults

Init ==
    /\ jobs = {} /\ active = None
    /\ job = [j \in JobIds |-> [status |-> "none", phase |-> "none"]]
    /\ aborted = {}
    /\ request = [j \in JobIds |-> None]
    /\ worker = [j \in JobIds |-> "none"]
    /\ at = [j \in JobIds |-> None]
    /\ outcome = [j \in JobIds |-> [f \in Files |-> "none"]]
    /\ target = [f \in Files |-> IF f \in Existing THEN "own" ELSE "absent"]
    /\ met = [j \in JobIds |-> {}]
-----------------------------------------------------------------------------
Running(j)   == job[j].status = "running"
Working(j)   == worker[j] \in AtWork
Count(j, o)  == Cardinality({f \in Files : outcome[j][f] = o})
OldestOf(S)  == CHOOSE j \in S : \A q \in S : StartedAt[j] <= StartedAt[q]
NewestOf(S)  == CHOOSE j \in S : \A q \in S : StartedAt[j] >= StartedAt[q]

\* pruneJobs, after one job was added: at most one has to go, the oldest that
\* is not running.  `new` is the map with the job that was added.
PruneJobs(new) ==
    LET settled == {j \in jobs : ~Running(j)}
    IN  IF Cardinality(new) <= MaxJobs \/ settled = {} THEN new ELSE new \ {OldestOf(settled)}

\* Mutation: a restore is refused only while the same job runs.
MayStartAnyTime == TRUE
\* startRestoreJob throws, and POST /api/restores answers 409.
MayStart == ~(active \in jobs /\ Running(active))

StartRestoreJob(j, req) ==
    /\ worker[j] = "none" /\ MayStart
    /\ \A q \in JobIds : StartedAt[q] < StartedAt[j] => worker[q] # "none"
    /\ jobs' = PruneJobs(jobs \union {j})
    /\ active' = j
    /\ job' = [job EXCEPT ![j] = [status |-> "running", phase |-> "restoring"]]
    /\ request' = [request EXCEPT ![j] = req]
    /\ worker' = [worker EXCEPT ![j] = "listing"]
    /\ met' = [q \in JobIds |-> IF q = j THEN {k \in JobIds : Working(k)}
                                ELSE IF Working(q) THEN met[q] \union {j} ELSE met[q]]
    /\ UNCHANGED <<aborted, at, outcome, target>>

\* cancelRestoreJob.
CancelRestoreJob(j) ==
    /\ j \in jobs /\ Running(j)
    /\ aborted' = aborted \union {j}
    /\ job' = [job EXCEPT ![j].status = "cancelled", ![j].phase = "cancelled"]
    /\ UNCHANGED <<jobs, active, request, work>>

\* getActiveRestoreJob: of the jobs that are known, the active one or else the
\* one that started last.
GetActiveRestoreJob ==
    IF active \in jobs THEN active ELSE IF jobs = {} THEN None ELSE NewestOf(jobs)
-----------------------------------------------------------------------------
\* applyProgress: every event has the phase "restoring" and no status.
Progress(j) == [job EXCEPT ![j].phase = "restoring"]

\* The end of runJob: the job is settled and its controller forgotten.
Settle(j, status) ==
    /\ job' = [job EXCEPT ![j].status = status,
                          ![j].phase = IF status \in {"success", "partial"} THEN "completed" ELSE status]
    /\ active' = IF active = j THEN None ELSE active
    /\ worker' = [worker EXCEPT ![j] = "over"]
    /\ UNCHANGED <<jobs, aborted, request, at, target, met>>

\* selectFiles and freshCounters: what is asked for and not in the snapshot has
\* failed from the start.
Selection(available, req) ==
    [f \in Files |-> IF ~req.whole /\ f \notin req.files THEN "none"
                     ELSE IF f \in available THEN "pending"
                     ELSE IF req.whole THEN "none" ELSE "failed"]

\* restoreSnapshot up to the first progress.  A listing by ssh that takes too
\* long counts as an empty one (withTimeout); a local one is one step.
List(j) ==
    /\ worker[j] = "listing"
    /\ \E slow \in IF Fails("slow") /\ request[j].dest \in SftpDests THEN BOOLEAN ELSE {FALSE} :
         outcome' = [outcome EXCEPT ![j] =
           Selection(IF slow THEN {} ELSE Holds[request[j].dest][request[j].period], request[j])]
    /\ job' = Progress(j)
    /\ worker' = [worker EXCEPT ![j] = IF request[j].dest \in SftpDests THEN "connecting" ELSE "copying"]
    /\ UNCHANGED <<jobs, active, aborted, request, at, target, met>>

\* targetPathFor takes every path below "/" for one that escapes from it, and
\* throws; toFailure, which reports it, calls it again and throws as well.  That
\* ends the job at a file that the snapshot lacks, and at the first file.
Escapes(j) ==
    /\ request[j].toRoot
    /\ \/ Count(j, "failed") > 0
       \/ j \notin aborted /\ Count(j, "pending") > 0

\* An error of the listing, of connectClient or of toFailure is one of the whole
\* job, which it fails even when the job was cancelled.
Fail(j) ==
    /\ \/ worker[j] = "listing" /\ Fails("listing")
       \/ worker[j] = "connecting" /\ Fails("connect")
       \/ worker[j] = "copying" /\ Escapes(j)
    /\ Settle(j, "failed")
    /\ UNCHANGED outcome

Connect(j) ==
    /\ worker[j] = "connecting"
    /\ worker' = [worker EXCEPT ![j] = "copying"]
    /\ UNCHANGED <<jobs, active, job, aborted, request, at, outcome, target, met>>
-----------------------------------------------------------------------------
\* processFiles looks at the signal before each file; targetPathFor resolves its
\* target.
MayTake(j, f) ==
    /\ worker[j] = "copying" /\ outcome[j][f] = "pending"
    /\ j \notin aborted /\ ~request[j].toRoot

\* assertTargetWritable, as isSkipped reads it.
IsSkipped(j, f) == f \in Blocked \/ (target[f] # "absent" /\ ~request[j].overwrite)

\* A file that ends at once: it is skipped, or a dry run tells what would be
\* done, or it fails before the target is opened (mkdir in resolveTarget).
PassFile(j, f) ==
    /\ MayTake(j, f)
    /\ \/ IsSkipped(j, f) /\ outcome' = [outcome EXCEPT ![j][f] = "skipped"]
       \/ /\ ~IsSkipped(j, f) /\ request[j].dryRun
          /\ outcome' = [outcome EXCEPT ![j][f] = "restored"]
       \/ /\ ~IsSkipped(j, f) /\ ~request[j].dryRun /\ Fails("file")
          /\ outcome' = [outcome EXCEPT ![j][f] = "failed"]
    /\ job' = Progress(j)
    /\ UNCHANGED <<jobs, active, aborted, request, worker, at, target, met>>

Writers(f) == {j \in JobIds : worker[j] = "writing" /\ at[j] = f}

\* copyLocalFile and fetchSftpFile open the target itself, and truncate it: no
\* temporary file.  Two that write it at a time mix their bytes.
OpenFile(j, f) ==
    /\ MayTake(j, f) /\ ~IsSkipped(j, f) /\ ~request[j].dryRun
    /\ worker' = [worker EXCEPT ![j] = "writing"]
    /\ at' = [at EXCEPT ![j] = f]
    /\ target' = [target EXCEPT ![f] = IF Writers(f) = {} THEN "torn" ELSE "mixed"]
    /\ UNCHANGED <<jobs, active, job, aborted, request, outcome, met>>

\* Mutation: runFile does not look at the error.
CopyFileAnyhow(j) ==
    LET f == at[j] IN
    /\ worker[j] = "writing"
    /\ \/ target' \in {[target EXCEPT ![f] = c] : c \in {j} \union ({target[f]} \ {"torn"})}
       \/ Fails("file") /\ UNCHANGED target
    /\ outcome' = [outcome EXCEPT ![j][f] = "restored"]
    /\ worker' = [worker EXCEPT ![j] = "copying"]
    /\ at' = [at EXCEPT ![j] = None]
    /\ job' = Progress(j)
    /\ UNCHANGED <<jobs, active, aborted, request, met>>

\* The copy ends, well or with an error that is the file's own (runFile).  What
\* was written until then stays.
CopyFile(j) ==
    LET f == at[j] IN
    /\ worker[j] = "writing"
    /\ \/ /\ outcome' = [outcome EXCEPT ![j][f] = "restored"]
          /\ target' \in {[target EXCEPT ![f] = c] : c \in {j} \union ({target[f]} \ {"torn"})}
       \/ /\ Fails("file")
          /\ outcome' = [outcome EXCEPT ![j][f] = "failed"]
          /\ UNCHANGED target
    /\ worker' = [worker EXCEPT ![j] = "copying"]
    /\ at' = [at EXCEPT ![j] = None]
    /\ job' = Progress(j)
    /\ UNCHANGED <<jobs, active, aborted, request, met>>

\* Mutation: some restored files make a success.
FinalStatusOfAny(j) ==
    IF Count(j, "failed") = 0 \/ Count(j, "restored") > 0 THEN "success" ELSE "failed"
\* buildResult and finalStatus.
FinalStatus(j) ==
    IF Count(j, "failed") = 0 THEN "success"
    ELSE IF Count(j, "restored") > 0 THEN "partial" ELSE "failed"

\* Mutation: a worker that was aborted does not come to its end.
FinishUnaborted(j) ==
    /\ worker[j] = "copying" /\ ~Escapes(j) /\ j \notin aborted /\ Count(j, "pending") = 0
    /\ Settle(j, FinalStatus(j))
    /\ UNCHANGED outcome

\* Mutation: the result counts even when the job was cancelled.
FinishByResult(j) ==
    /\ worker[j] = "copying" /\ ~Escapes(j)
    /\ j \in aborted \/ Count(j, "pending") = 0
    /\ Settle(j, FinalStatus(j))
    /\ UNCHANGED outcome

\* applyResult, or markCancelled again when the job was cancelled.
Finish(j) ==
    /\ worker[j] = "copying" /\ ~Escapes(j)
    /\ j \in aborted \/ Count(j, "pending") = 0
    /\ Settle(j, IF j \in aborted THEN "cancelled" ELSE FinalStatus(j))
    /\ UNCHANGED outcome

\* The jobs are in memory only; what was written to the target stays.
Crash ==
    /\ Fails("crash") /\ \E j \in JobIds : Working(j)
    /\ jobs' = {} /\ active' = None /\ aborted' = {}
    /\ job' = [j \in JobIds |-> [status |-> "none", phase |-> "none"]]
    /\ request' = [j \in JobIds |-> None]
    /\ worker' = [j \in JobIds |-> IF worker[j] = "none" THEN "none" ELSE "lost"]
    /\ at' = [j \in JobIds |-> None]
    /\ outcome' = [j \in JobIds |-> [f \in Files |-> "none"]]
    /\ met' = [j \in JobIds |-> {}]
    /\ UNCHANGED target
-----------------------------------------------------------------------------
WorkerStep(j) ==
    \/ List(j) \/ Fail(j) \/ Connect(j) \/ CopyFile(j) \/ Finish(j)
    \/ \E f \in Files : PassFile(j, f) \/ OpenFile(j, f)

\* POST /api/restores, POST /api/restores/:id/cancel, and what runs by itself.
Next ==
    \/ \E j \in JobIds : \/ \E req \in Asked[j] : StartRestoreJob(j, req)
                         \/ CancelRestoreJob(j) \/ WorkerStep(j)
    \/ Crash

Spec == Init /\ [][Next]_vars

\* Every await of a worker ends.  What clients do is not fair.
FairSpec == Spec /\ \A j \in JobIds : WF_vars(WorkerStep(j))
-----------------------------------------------------------------------------
TypeOK ==
    /\ jobs \subseteq JobIds /\ active \in JobIds \union {None}
    /\ job \in [JobIds -> [status : Final \union {"none", "running"},
                           phase : {"none", "restoring", "completed", "failed", "cancelled"}]]
    /\ aborted \subseteq JobIds
    /\ request \in [JobIds -> Requests \union {None}]
    /\ worker \in [JobIds -> Stages]
    /\ at \in [JobIds -> Files \union {None}]
    /\ \A j \in JobIds : worker[j] = "writing" => at[j] \in Files
    /\ outcome \in [JobIds -> [Files -> Outcomes]]
    /\ target \in [Files -> {"absent", "own", "torn", "mixed"} \union JobIds]
    /\ met \in [JobIds -> SUBSET JobIds]

\* A job that is shown as running is the active one, it is known, its worker is
\* at work, and so it is the only one: two workers that are at work together
\* are one of a cancelled job and one that started after the cancel
\* (startRestoreJob's check, the last lines of runJob, pruneJobs).
RunningIsActive ==
    \A j \in JobIds : Running(j) =>
      j = active /\ j \in jobs /\ Working(j) /\ j \notin aborted

Wanted(j) == IF request[j].whole THEN Holds[request[j].dest][request[j].period]
                                       ELSE request[j].files

\* What a job says of itself when its worker is over: a success has taken care
\* of every file that was asked for, a partial restore has both kinds, and a job
\* that failed with some files restored is a cancelled one that failed on its
\* way: an error that ends a job while it copies, as every restore to "/" has
\* one, comes before its first file.  The one exception is a request without files whose listing was too
\* slow: a success that restored nothing (finalStatus, listSnapshotFilesWithTimeout).
StatusTellsOutcome ==
    \A j \in JobIds : worker[j] = "over" =>
      CASE job[j].status = "success" ->
             \/ \A f \in Wanted(j) : outcome[j][f] \in {"restored", "skipped"}
             \/ /\ request[j].whole /\ Fails("slow") /\ request[j].dest \in SftpDests
                /\ \A f \in Files : outcome[j][f] = "none"
        [] job[j].status = "partial" -> Count(j, "restored") > 0 /\ Count(j, "failed") > 0
        [] OTHER -> j \in aborted \/ Count(j, "restored") = 0

\* A file that a job counts as restored holds what the snapshot holds, unless
\* another job has opened it later or was at work at the same time: a cancelled
\* job's last file, and the first of the next job, may be the same
\* (copyLocalFile, fetchSftpFile, runFile).
RestoredFilesAreWhole ==
    \A j \in JobIds, f \in Files :
      /\ outcome[j][f] = "restored" /\ ~request[j].dryRun
      /\ \A k \in met[j] : outcome[k][f] = "none"
      => \/ target[f] = j
         \/ \E k \in JobIds : /\ StartedAt[k] > StartedAt[j]
                              /\ target[f] = k \/ (target[f] \in {"torn", "mixed"} /\ (at[k] = f \/ outcome[k][f] # "none"))

\* The promise of the job's API.
Life == INSTANCE RestoreLifecycle WITH
    life <- [j \in JobIds |-> IF worker[j] = "none" THEN "unknown"
                              ELSE IF j \in jobs THEN job[j].status ELSE "forgotten"]
KeepsItsPromise == Life!Spec

\* Every worker comes to its end, that of a cancelled job too, and with it every
\* job is settled (runJob, processFiles).
WorkersEnd == \A j \in JobIds : Working(j) ~> ~Working(j)
=============================================================================
