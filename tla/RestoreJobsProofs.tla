-------------------------- MODULE RestoreJobsProofs --------------------------
(***************************************************************************)
(* The invariants of RestoreJobs, and that the jobs keep the promise of    *)
(* RestoreLifecycle, for every set of jobs, destinations and files, every  *)
(* content of the snapshots, number of jobs kept and set of faults.        *)
(***************************************************************************)
EXTENDS RestoreJobs, FiniteSetTheorems, WellFoundedInduction, TLAPS

LEMMA SelectionType ==
    ASSUME NEW available, NEW req
    PROVE  Selection(available, req) \in [Files -> {"none", "pending", "failed"}]
BY DEF Selection

LEMMA FinalStatusType ==
    ASSUME NEW j
    PROVE  FinalStatus(j) \in {"success", "partial", "failed"}
BY DEF FinalStatus

Statuses  == Final \union {"none", "running"}
Phases    == {"none", "restoring", "completed", "failed", "cancelled"}
JobStates == [status : Statuses, phase : Phases]

\* Writing the status and the phase of one job.
LEMMA JobWritten ==
    ASSUME job \in [JobIds -> JobStates], NEW j \in JobIds,
           NEW s \in Statuses, NEW p \in Phases
    PROVE  LET new == [job EXCEPT ![j].status = s, ![j].phase = p] IN
           /\ new \in [JobIds -> JobStates]
           /\ new[j].status = s
           /\ \A q \in JobIds \ {j} : new[q] = job[q]
<1> DEFINE new == [job EXCEPT ![j].status = s, ![j].phase = p]
           rec == [job[j] EXCEPT !.status = s, !.phase = p]
<1>1. rec \in JobStates /\ rec.status = s
  BY DEF JobStates
<1>2. new = [job EXCEPT ![j] = rec]
  BY DEF JobStates
<1> QED
  BY <1>1, <1>2

LEMMA ProgressKeepsStatus ==
    ASSUME job \in [JobIds -> JobStates], NEW j \in JobIds
    PROVE  /\ Progress(j) \in [JobIds -> JobStates]
           /\ \A q \in JobIds : Progress(j)[q].status = job[q].status
BY DEF Progress, JobStates, Phases

LEMMA SettleWrites ==
    ASSUME job \in [JobIds -> JobStates], NEW j \in JobIds,
           NEW status \in Final, Settle(j, status)
    PROVE  /\ job' \in [JobIds -> JobStates]
           /\ job'[j].status = status
           /\ \A q \in JobIds \ {j} : job'[q] = job[q]
<1> DEFINE p == IF status \in {"success", "partial"} THEN "completed" ELSE status
<1>1. p \in Phases /\ status \in Statuses
  BY DEF Phases, Statuses, Final
<1>2. job' = [job EXCEPT ![j].status = status, ![j].phase = p]
  BY DEF Settle
<1> HIDE DEF p
<1> QED
  BY <1>1, <1>2, JobWritten

LEMMA OutcomeWritten ==
    ASSUME outcome \in [JobIds -> [Files -> Outcomes]],
           NEW j \in JobIds, NEW f \in Files, NEW o \in Outcomes
    PROVE  /\ [outcome EXCEPT ![j][f] = o] \in [JobIds -> [Files -> Outcomes]]
           /\ [outcome EXCEPT ![j][f] = o][j][f] = o
           /\ \A q \in JobIds, g \in Files :
                q # j \/ g # f => [outcome EXCEPT ![j][f] = o][q][g] = outcome[q][g]
OBVIOUS

\* The outcome that a step gives to the file f, and what CopyFile writes.
LEMMA PassFileOutcome ==
    ASSUME NEW j, NEW f, PassFile(j, f)
    PROVE  \E o \in {"restored", "skipped", "failed"} : outcome' = [outcome EXCEPT ![j][f] = o]
BY DEF PassFile

LEMMA CopyFileOutcome ==
    ASSUME NEW j, CopyFile(j)
    PROVE  \/ /\ outcome' = [outcome EXCEPT ![j][at[j]] = "restored"]
              /\ \E c \in {j} \union ({target[at[j]]} \ {"torn"}) : target' = [target EXCEPT ![at[j]] = c]
           \/ /\ outcome' = [outcome EXCEPT ![j][at[j]] = "failed"]
              /\ UNCHANGED target
BY DEF CopyFile

LEMMA TypeOKOfJob == TypeOK => job \in [JobIds -> JobStates]
BY DEF TypeOK, JobStates, Statuses, Phases

LEMMA InitTypeOK == RestoreAssumption /\ Init => TypeOK
BY DEF RestoreAssumption, Init, TypeOK, Stages, Outcomes

LEMMA SettleTypeOK ==
    ASSUME RestoreAssumption, TypeOK, NEW j \in JobIds,
           NEW status \in Final, Settle(j, status), UNCHANGED outcome
    PROVE  TypeOK'
<1>1. job' \in [JobIds -> JobStates]
  BY TypeOKOfJob, SettleWrites
<1> QED
  BY <1>1 DEF TypeOK, Settle, Stages, JobStates, Statuses, Phases

LEMMA NextTypeOK ==
    ASSUME RestoreAssumption, TypeOK, [Next]_vars
    PROVE  TypeOK'
<1> USE DEF TypeOK, Stages, AtWork, Outcomes, Final, work
<1>1. ASSUME NEW j \in JobIds, NEW req \in Asked[j], StartRestoreJob(j, req)
      PROVE  TypeOK'
  <2>1. jobs' \subseteq JobIds
    BY <1>1 DEF StartRestoreJob, PruneJobs
  <2>2. req \in Requests
    BY RestoreAssumption DEF RestoreAssumption
  <2>3. met' \in [JobIds -> SUBSET JobIds]
    BY <1>1 DEF StartRestoreJob
  <2> QED
    BY <1>1, <2>1, <2>2, <2>3 DEF StartRestoreJob
<1>2. ASSUME NEW j \in JobIds, CancelRestoreJob(j)
      PROVE  TypeOK'
  <2>1. job' \in [JobIds -> JobStates]
    BY <1>2, TypeOKOfJob, JobWritten DEF CancelRestoreJob, Statuses, Phases
  <2> QED
    BY <1>2, <2>1 DEF CancelRestoreJob, JobStates, Statuses, Phases
<1>3. ASSUME NEW j \in JobIds, List(j)
      PROVE  TypeOK'
  <2>1. outcome' \in [JobIds -> [Files -> Outcomes]]
    BY <1>3, SelectionType DEF List
  <2>2. job' \in [JobIds -> JobStates]
    BY <1>3, TypeOKOfJob, ProgressKeepsStatus DEF List
  <2> QED
    BY <1>3, <2>1, <2>2 DEF List, JobStates, Statuses, Phases
<1>4. ASSUME NEW j \in JobIds, Fail(j)
      PROVE  TypeOK'
  BY <1>4, SettleTypeOK DEF Fail
<1>5. ASSUME NEW j \in JobIds, Connect(j)
      PROVE  TypeOK'
  BY <1>5 DEF Connect
<1>6. ASSUME NEW j \in JobIds, NEW f \in Files, PassFile(j, f)
      PROVE  TypeOK'
  <2>1. outcome' \in [JobIds -> [Files -> Outcomes]]
    <3>1. PICK o \in Outcomes : outcome' = [outcome EXCEPT ![j][f] = o]
      BY <1>6, PassFileOutcome
    <3> HIDE DEF Outcomes
    <3>2. [outcome EXCEPT ![j][f] = o] \in [JobIds -> [Files -> Outcomes]]
      BY OutcomeWritten
    <3> QED
      BY <3>1, <3>2
  <2>2. job' \in [JobIds -> JobStates]
    BY <1>6, TypeOKOfJob, ProgressKeepsStatus DEF PassFile
  <2> QED
    <3>1. UNCHANGED <<jobs, active, aborted, request, worker, at, target, met>>
      BY <1>6 DEF PassFile
    <3> QED
      BY <3>1, <2>1, <2>2 DEF JobStates, Statuses, Phases
<1>7. ASSUME NEW j \in JobIds, NEW f \in Files, OpenFile(j, f)
      PROVE  TypeOK'
  BY <1>7 DEF OpenFile
<1>8. ASSUME NEW j \in JobIds, CopyFile(j)
      PROVE  TypeOK'
  <2>1. target' \in [Files -> {"absent", "own", "torn", "mixed"} \union JobIds]
    <3>1. at[j] \in Files
      BY <1>8 DEF CopyFile
    <3>2. \A c \in {j} \union ({target[at[j]]} \ {"torn"}) :
             [target EXCEPT ![at[j]] = c] \in [Files -> {"absent", "own", "torn", "mixed"} \union JobIds]
      BY <3>1
    <3>3. CASE UNCHANGED target
      BY <3>3
    <3>4. CASE \E c \in {j} \union ({target[at[j]]} \ {"torn"}) : target' = [target EXCEPT ![at[j]] = c]
      BY <3>2, <3>4
    <3> QED
      BY <1>8, <3>3, <3>4, CopyFileOutcome
  <2>2. outcome' \in [JobIds -> [Files -> Outcomes]]
    <3>1. at[j] \in Files
      BY <1>8 DEF CopyFile
    <3>2. PICK o \in Outcomes : outcome' = [outcome EXCEPT ![j][at[j]] = o]
      BY <1>8, CopyFileOutcome
    <3> HIDE DEF Outcomes
    <3>3. [outcome EXCEPT ![j][at[j]] = o] \in [JobIds -> [Files -> Outcomes]]
      BY <3>1, OutcomeWritten
    <3> QED
      BY <3>2, <3>3
  <2>3. job' \in [JobIds -> JobStates]
    BY <1>8, TypeOKOfJob, ProgressKeepsStatus DEF CopyFile
  <2> QED
    <3>1. /\ worker' = [worker EXCEPT ![j] = "copying"] /\ at' = [at EXCEPT ![j] = None]
          /\ UNCHANGED <<jobs, active, aborted, request, met>>
      BY <1>8 DEF CopyFile
    <3> QED
      BY <3>1, <2>1, <2>2, <2>3 DEF JobStates, Statuses, Phases
<1>9. ASSUME NEW j \in JobIds, Finish(j)
      PROVE  TypeOK'
  BY <1>9, SettleTypeOK, FinalStatusType DEF Finish
<1>10. CASE Crash
  BY <1>10 DEF Crash
<1>11. CASE UNCHANGED vars
  BY <1>11 DEF vars
<1> QED
  BY <1>1, <1>2, <1>3, <1>4, <1>5, <1>6, <1>7, <1>8, <1>9, <1>10, <1>11 DEF Next, WorkerStep

\* The jobs' variables keep their types, whatever clients do and whatever fails
\* (restore.ts).
THEOREM JobsTypeCorrect == ASSUME RestoreAssumption PROVE Spec => []TypeOK
<1>1. Init => TypeOK
  BY InitTypeOK
<1>2. TypeOK /\ [Next]_vars => TypeOK'
  BY NextTypeOK
<1> QED
  BY <1>1, <1>2, PTL DEF Spec
-----------------------------------------------------------------------------
(***************************************************************************)
(* One job runs at a time.                                                 *)
(***************************************************************************)
LEMMA OldestExists ==
    ASSUME RestoreAssumption, NEW S \in SUBSET JobIds, S # {}
    PROVE  OldestOf(S) \in S
<1> DEFINE T == {StartedAt[q] : q \in S}
<1>1. T \subseteq Nat /\ T # {}
  BY DEF RestoreAssumption
<1>2. PICK x \in T : \A y \in T : <<y, x>> \notin OpToRel(<, Nat)
  BY <1>1, WFMin, NatLessThanWellFounded, Zenon
<1>3. \A y \in T : y \in Nat /\ x \in Nat
  BY <1>1
<1>4. \A y \in T : x <= y
  <2>1. \A y \in T : ~ (y < x)
    BY <1>2, <1>3, Zenon DEF OpToRel
  <2> QED
    BY <2>1, <1>3
<1>5. PICK j \in S : x = StartedAt[j]
  BY <1>2
<1>6. \A q \in S : StartedAt[j] <= StartedAt[q]
  BY <1>4, <1>5
<1> QED
  BY <1>6 DEF OldestOf

\* What pruning keeps: the new job, and every job that runs.
LEMMA PruneKeeps ==
    ASSUME RestoreAssumption, TypeOK, NEW j \in JobIds, j \notin jobs
    PROVE  /\ j \in PruneJobs(jobs \union {j})
           /\ PruneJobs(jobs \union {j}) \subseteq jobs \union {j}
           /\ \A q \in jobs : Running(q) => q \in PruneJobs(jobs \union {j})
<1> DEFINE settled == {q \in jobs : ~Running(q)}
<1>1. settled # {} => OldestOf(settled) \in settled
  BY OldestExists DEF TypeOK
<1>2. OldestOf(settled) \in settled =>
        OldestOf(settled) # j /\ ~Running(OldestOf(settled))
  OBVIOUS
<1> QED
  BY <1>1, <1>2 DEF PruneJobs

\* The status of a job follows its worker; a job that is cancelled says so
\* before its worker knows.
StatusFollowsWorker ==
    \A j \in JobIds :
      /\ worker[j] \in {"none", "lost"} <=> job[j].status = "none"
      /\ worker[j] \in {"none", "lost"} => j \notin jobs /\ j \notin aborted
      /\ Working(j) => job[j].status = IF j \in aborted THEN "cancelled" ELSE "running"

JobInv == TypeOK /\ StatusFollowsWorker /\ RunningIsActive

LEMMA InitJobInv == RestoreAssumption /\ Init => JobInv
BY InitTypeOK DEF Init, JobInv, StatusFollowsWorker, RunningIsActive, Running, Working, AtWork

LEMMA SettleJobInv ==
    ASSUME RestoreAssumption, JobInv, NEW j \in JobIds, Working(j),
           NEW status \in Final, Settle(j, status)
    PROVE  StatusFollowsWorker' /\ RunningIsActive'
<1>1. /\ job'[j].status = status
      /\ \A q \in JobIds \ {j} : job'[q] = job[q]
  BY TypeOKOfJob, SettleWrites DEF JobInv
<1>2. /\ worker'[j] = "over" /\ \A q \in JobIds \ {j} : worker'[q] = worker[q]
      /\ UNCHANGED <<jobs, aborted>>
      /\ active' = (IF active = j THEN None ELSE active)
  BY DEF Settle, JobInv, TypeOK
<1>3. status \notin {"none", "running"}
  BY DEF Final
<1>4. j \in jobs => job[j].status # "none"
  BY DEF JobInv, StatusFollowsWorker
<1> QED
  BY <1>1, <1>2, <1>3, <1>4
     DEF JobInv, StatusFollowsWorker, RunningIsActive, Running, Working, AtWork

\* A step that moves a worker on and leaves the statuses as they are.
LEMMA WorkJobInv ==
    ASSUME JobInv, NEW j \in JobIds, Working(j), Working(j)',
           \A q \in JobIds : job'[q].status = job[q].status,
           \A q \in JobIds \ {j} : worker'[q] = worker[q],
           UNCHANGED <<jobs, active, aborted>>
    PROVE  StatusFollowsWorker' /\ RunningIsActive'
BY DEF JobInv, StatusFollowsWorker, RunningIsActive, Running, Working, AtWork

LEMMA StartJobInv ==
    ASSUME RestoreAssumption, JobInv, NEW j \in JobIds, NEW req, StartRestoreJob(j, req)
    PROVE  StatusFollowsWorker' /\ RunningIsActive'
<1> USE DEF JobInv, Running
<1>1. worker[j] = "none" /\ j \notin jobs /\ j \notin aborted /\ ~Working(j)
  BY DEF StartRestoreJob, StatusFollowsWorker, Working, AtWork
<1>2. \A q \in JobIds : ~Running(q)
  BY DEF StartRestoreJob, MayStart, RunningIsActive
<1>3. j \in jobs' /\ jobs' \subseteq jobs \union {j}
  BY <1>1, PruneKeeps DEF StartRestoreJob
<1>4. /\ job'[j].status = "running" /\ \A q \in JobIds \ {j} : job'[q] = job[q]
      /\ worker'[j] = "listing" /\ \A q \in JobIds \ {j} : worker'[q] = worker[q]
      /\ active' = j /\ aborted' = aborted
  BY DEF StartRestoreJob, TypeOK
<1> QED
  BY <1>1, <1>2, <1>3, <1>4 DEF StatusFollowsWorker, RunningIsActive, Working, AtWork

LEMMA NextJobInv ==
    ASSUME RestoreAssumption, JobInv, [Next]_vars
    PROVE  JobInv'
<1> SUFFICES StatusFollowsWorker' /\ RunningIsActive'
  BY NextTypeOK DEF JobInv
<1>0. TypeOK /\ job \in [JobIds -> JobStates]
  BY TypeOKOfJob DEF JobInv
<1>1. ASSUME NEW j \in JobIds, NEW req \in Asked[j], StartRestoreJob(j, req)
      PROVE  StatusFollowsWorker' /\ RunningIsActive'
  BY <1>1, StartJobInv
<1>2. ASSUME NEW j \in JobIds, CancelRestoreJob(j)
      PROVE  StatusFollowsWorker' /\ RunningIsActive'
  <2>1. job'[j].status = "cancelled" /\ \A q \in JobIds \ {j} : job'[q] = job[q]
    <3>1. "cancelled" \in Statuses /\ "cancelled" \in Phases
      BY DEF Statuses, Phases, Final
    <3>2. job' = [job EXCEPT ![j].status = "cancelled", ![j].phase = "cancelled"]
      BY <1>2 DEF CancelRestoreJob
    <3> QED
      BY <1>0, <3>1, <3>2, JobWritten
  <2>2. aborted' = aborted \union {j} /\ job[j].status = "running"
        /\ UNCHANGED <<jobs, active, worker>>
    BY <1>2 DEF CancelRestoreJob, work, Running
  <2>3. ASSUME NEW q \in JobIds
        PROVE  /\ job'[q].status = IF q = j THEN "cancelled" ELSE job[q].status
               /\ q \in aborted' <=> q \in aborted \/ q = j
    BY <2>1, <2>2
  <2>4. Working(j) /\ worker[j] \notin {"none", "lost"}
    BY <2>2 DEF JobInv, RunningIsActive, Running, Working, AtWork
  <2>5. StatusFollowsWorker'
    BY <2>2, <2>3, <2>4 DEF JobInv, StatusFollowsWorker, Working
  <2>6. RunningIsActive'
    BY <2>2, <2>3, <2>4 DEF JobInv, RunningIsActive, Running, Working
  <2> QED
    BY <2>5, <2>6
<1>3. ASSUME NEW j \in JobIds, List(j)
      PROVE  StatusFollowsWorker' /\ RunningIsActive'
  BY <1>0, <1>3, WorkJobInv, ProgressKeepsStatus DEF List, TypeOK, Working, AtWork
<1>4. ASSUME NEW j \in JobIds, Fail(j)
      PROVE  StatusFollowsWorker' /\ RunningIsActive'
  BY <1>4, SettleJobInv DEF Fail, Final, Working, AtWork
<1>5. ASSUME NEW j \in JobIds, Connect(j)
      PROVE  StatusFollowsWorker' /\ RunningIsActive'
  BY <1>0, <1>5, WorkJobInv DEF Connect, TypeOK, Working, AtWork
<1>6. ASSUME NEW j \in JobIds, NEW f \in Files, PassFile(j, f)
      PROVE  StatusFollowsWorker' /\ RunningIsActive'
  BY <1>0, <1>6, WorkJobInv, ProgressKeepsStatus DEF PassFile, MayTake, Working, AtWork
<1>7. ASSUME NEW j \in JobIds, NEW f \in Files, OpenFile(j, f)
      PROVE  StatusFollowsWorker' /\ RunningIsActive'
  BY <1>0, <1>7, WorkJobInv DEF OpenFile, MayTake, TypeOK, Working, AtWork
<1>8. ASSUME NEW j \in JobIds, CopyFile(j)
      PROVE  StatusFollowsWorker' /\ RunningIsActive'
  BY <1>0, <1>8, WorkJobInv, ProgressKeepsStatus DEF CopyFile, TypeOK, Working, AtWork
<1>9. ASSUME NEW j \in JobIds, Finish(j)
      PROVE  StatusFollowsWorker' /\ RunningIsActive'
  BY <1>9, SettleJobInv, FinalStatusType DEF Finish, Final, Working, AtWork
<1>10. CASE Crash
  BY <1>0, <1>10 DEF Crash, TypeOK, StatusFollowsWorker, RunningIsActive, Running, Working, AtWork
<1>11. CASE UNCHANGED vars
  BY <1>11 DEF vars, work, JobInv, StatusFollowsWorker, RunningIsActive, Running, Working
<1> QED
  BY <1>1, <1>2, <1>3, <1>4, <1>5, <1>6, <1>7, <1>8, <1>9, <1>10, <1>11 DEF Next, WorkerStep

LEMMA JobInvHolds == ASSUME RestoreAssumption PROVE Spec => []JobInv
<1>1. Init => JobInv
  BY InitJobInv
<1>2. JobInv /\ [Next]_vars => JobInv'
  BY NextJobInv
<1> QED
  BY <1>1, <1>2, PTL DEF Spec

\* A job that is shown as running is the active one and the only one, and its
\* worker is at work (startRestoreJob, the last lines of runJob, pruneJobs).
THEOREM OnlyTheActiveJobRuns == ASSUME RestoreAssumption PROVE Spec => []RunningIsActive
<1>1. JobInv => RunningIsActive
  BY DEF JobInv
<1> QED
  BY <1>1, JobInvHolds, PTL
-----------------------------------------------------------------------------
(***************************************************************************)
(* The jobs keep the promise of RestoreLifecycle.                          *)
(***************************************************************************)
\* The job as RestoreLifecycle sees it.
View == [j \in JobIds |-> IF worker[j] = "none" THEN "unknown"
                          ELSE IF j \in jobs THEN job[j].status ELSE "forgotten"]

LEMMA InitKeepsPromise == Init => Life!Init
BY DEF Init, Life!Init

\* A step that moves a worker on, or that settles a job as it was, shows nothing.
LEMMA WorkShowsNothing ==
    ASSUME JobInv, UNCHANGED jobs,
           \A q \in JobIds : job'[q].status = job[q].status,
           \A q \in JobIds : worker'[q] = "none" <=> worker[q] = "none"
    PROVE  View' = View
BY DEF View

LEMMA StartKeepsPromise ==
    ASSUME RestoreAssumption, JobInv, NEW j \in JobIds, NEW req, StartRestoreJob(j, req)
    PROVE  Life!Next
<1> DEFINE forgotten == jobs \ jobs'
<1> USE DEF JobInv
<1>1. worker[j] = "none" /\ j \notin jobs
  BY DEF StartRestoreJob, StatusFollowsWorker
<1>2. \A q \in JobIds : ~Running(q)
  BY DEF StartRestoreJob, MayStart, RunningIsActive
<1>3. j \in jobs' /\ jobs' \subseteq jobs \union {j}
  BY <1>1, PruneKeeps DEF StartRestoreJob
<1>4. /\ job'[j].status = "running" /\ \A q \in JobIds \ {j} : job'[q] = job[q]
      /\ worker'[j] = "listing" /\ \A q \in JobIds \ {j} : worker'[q] = worker[q]
  BY DEF StartRestoreJob, TypeOK
<1>5. forgotten \in SUBSET JobIds
  BY DEF TypeOK
<1>6. View[j] = "unknown" /\ \A q \in JobIds : View[q] # "running"
  BY <1>1, <1>2 DEF View, Running
<1>7. \A q \in forgotten : View[q] \in Life!Final
  <2>1. \A q \in jobs : worker[q] # "none" /\ job[q].status \in Final
    BY <1>2, TypeOKOfJob DEF StatusFollowsWorker, TypeOK, Running, Statuses, JobStates
  <2> QED
    BY <2>1, <1>5 DEF View, Final, Life!Final
<1>8. View' = [q \in JobIds |-> IF q = j THEN "running"
                               ELSE IF q \in forgotten THEN "forgotten" ELSE View[q]]
  <2>1. \A q \in forgotten : worker[q] # "none"
    BY <1>5 DEF StatusFollowsWorker
  <2> QED
    BY <1>1, <1>3, <1>4, <2>1 DEF View
<1> HIDE DEF forgotten
<1> QED
  BY <1>5, <1>6, <1>7, <1>8 DEF Life!Next, Life!Start, View

\* A job that is settled: it was running, or it was cancelled and has failed.
LEMMA SettleKeepsPromise ==
    ASSUME JobInv, NEW j \in JobIds, NEW status \in Final,
           worker[j] # "none", worker'[j] # "none", UNCHANGED jobs,
           job[j].status = "running" \/ (job[j].status = "cancelled" /\ status = "failed"),
           job'[j].status = status,
           \A q \in JobIds \ {j} : job'[q] = job[q] /\ worker'[q] = worker[q]
    PROVE  Life!Next \/ View' = View
<1>1. CASE j \notin jobs
  BY <1>1 DEF View
<1>2. CASE j \in jobs
  <2>1. View[j] = "running" \/ (View[j] = "cancelled" /\ status = "failed")
    BY <1>2 DEF View
  <2>2. View' = [View EXCEPT ![j] = status]
    BY <1>2 DEF View
  <2>3. status \in Life!Final
    BY DEF Final, Life!Final
  <2> QED
    <3>1. Life!Settle(j, status)
      BY <2>1, <2>2 DEF Life!Settle, View
    <3> QED
      BY <2>3, <3>1 DEF Life!Next
<1> QED
  BY <1>1, <1>2

\* The end of a worker: what it settles its job as.
LEMMA EndKeepsPromise ==
    ASSUME JobInv, NEW j \in JobIds, NEW status \in Final, Working(j), Settle(j, status),
           status = "failed" \/ (status = "cancelled" <=> j \in aborted)
    PROVE  Life!Next \/ View' = View
<1> USE DEF JobInv
<1>1. /\ job'[j].status = status
      /\ \A q \in JobIds \ {j} : job'[q] = job[q]
  BY TypeOKOfJob, SettleWrites
<1>2. /\ worker'[j] = "over" /\ \A q \in JobIds \ {j} : worker'[q] = worker[q]
      /\ jobs' = jobs /\ worker[j] # "none"
  BY DEF Settle, TypeOK, Working, AtWork
<1>3. job[j].status = IF j \in aborted THEN "cancelled" ELSE "running"
  BY DEF StatusFollowsWorker
<1>4. CASE j \in aborted /\ status = "cancelled"
  <2>1. \A q \in JobIds : job'[q].status = job[q].status
    BY <1>1, <1>3, <1>4
  <2> QED
    BY <1>2, <2>1, WorkShowsNothing
<1>5. CASE ~(j \in aborted /\ status = "cancelled")
  BY <1>1, <1>2, <1>3, <1>5, SettleKeepsPromise
<1> QED
  BY <1>4, <1>5

LEMMA NextKeepsPromise ==
    ASSUME RestoreAssumption, JobInv, [Next]_vars
    PROVE  Life!Next \/ View' = View
<1>0. TypeOK /\ job \in [JobIds -> JobStates]
  BY TypeOKOfJob DEF JobInv
<1>1. ASSUME NEW j \in JobIds, NEW req \in Asked[j], StartRestoreJob(j, req)
      PROVE  Life!Next \/ View' = View
  BY <1>1, StartKeepsPromise
<1>2. ASSUME NEW j \in JobIds, CancelRestoreJob(j)
      PROVE  Life!Next \/ View' = View
  <2>1. job'[j].status = "cancelled" /\ \A q \in JobIds \ {j} : job'[q] = job[q]
    <3>1. "cancelled" \in Statuses /\ "cancelled" \in Phases
      BY DEF Statuses, Phases, Final
    <3>2. job' = [job EXCEPT ![j].status = "cancelled", ![j].phase = "cancelled"]
      BY <1>2 DEF CancelRestoreJob
    <3> QED
      BY <1>0, <3>1, <3>2, JobWritten
  <2>2. UNCHANGED <<jobs, worker>> /\ worker[j] # "none" /\ job[j].status = "running"
    BY <1>2 DEF CancelRestoreJob, work, Running, JobInv, StatusFollowsWorker
  <2>3. "cancelled" \in Final
    BY DEF Final
  <2> QED
    BY <2>1, <2>2, <2>3, SettleKeepsPromise
<1>3. ASSUME NEW j \in JobIds, List(j)
      PROVE  Life!Next \/ View' = View
  BY <1>0, <1>3, WorkShowsNothing, ProgressKeepsStatus DEF List, TypeOK
<1>4. ASSUME NEW j \in JobIds, Fail(j)
      PROVE  Life!Next \/ View' = View
  BY <1>4, EndKeepsPromise DEF Fail, Final, Working, AtWork
<1>5. ASSUME NEW j \in JobIds, Connect(j)
      PROVE  Life!Next \/ View' = View
  BY <1>0, <1>5, WorkShowsNothing DEF Connect, TypeOK
<1>6. ASSUME NEW j \in JobIds, NEW f \in Files, PassFile(j, f)
      PROVE  Life!Next \/ View' = View
  BY <1>0, <1>6, WorkShowsNothing, ProgressKeepsStatus DEF PassFile
<1>7. ASSUME NEW j \in JobIds, NEW f \in Files, OpenFile(j, f)
      PROVE  Life!Next \/ View' = View
  BY <1>0, <1>7, WorkShowsNothing DEF OpenFile, MayTake, TypeOK
<1>8. ASSUME NEW j \in JobIds, CopyFile(j)
      PROVE  Life!Next \/ View' = View
  BY <1>0, <1>8, WorkShowsNothing, ProgressKeepsStatus DEF CopyFile, TypeOK
<1>9. ASSUME NEW j \in JobIds, Finish(j)
      PROVE  Life!Next \/ View' = View
  <2>1. CASE j \in aborted
    BY <1>9, <2>1, EndKeepsPromise DEF Finish, Final, Working, AtWork
  <2>2. CASE j \notin aborted
    BY <1>9, <2>2, EndKeepsPromise, FinalStatusType DEF Finish, Final, Working, AtWork
  <2> QED
    BY <2>1, <2>2
<1>10. CASE Crash
  <2>1. View' = [j \in JobIds |-> IF View[j] = "unknown" THEN "unknown" ELSE "forgotten"]
    <3>1. \A j \in JobIds : View[j] = "unknown" <=> worker[j] = "none"
      BY <1>0 DEF View, JobInv, StatusFollowsWorker, JobStates, Statuses, Final
    <3>2. \A j \in JobIds : j \notin jobs' /\ (worker'[j] = "none" <=> worker[j] = "none")
      BY <1>10 DEF Crash
    <3> QED
      BY <3>1, <3>2 DEF View
  <2> QED
    BY <2>1 DEF Life!Next, Life!Restart, View
<1>11. CASE UNCHANGED vars
  BY <1>11 DEF vars, work, View
<1> QED
  BY <1>1, <1>2, <1>3, <1>4, <1>5, <1>6, <1>7, <1>8, <1>9, <1>10, <1>11 DEF Next, WorkerStep

\* A job runs until it is settled, a settled one keeps its status, but that a
\* cancelled one may be found to have failed, and no job starts while another
\* runs or comes back when it is forgotten (runJob, startRestoreJob, pruneJobs).
THEOREM JobsKeepTheirPromise == ASSUME RestoreAssumption PROVE Spec => KeepsItsPromise
<1>1. Init => Life!Init
  BY InitKeepsPromise
<1>2. JobInv /\ [Next]_vars => Life!Next \/ View' = View
  BY NextKeepsPromise
<1>3. JobInv /\ [Next]_vars => [Life!Next]_View
  BY <1>2
<1> QED
  BY <1>1, <1>3, JobInvHolds, PTL DEF Spec, KeepsItsPromise, Life!Spec, View
-----------------------------------------------------------------------------
(***************************************************************************)
(* The status of a job tells what became of its files.                     *)
(***************************************************************************)
LEMMA CountFacts ==
    ASSUME RestoreAssumption, NEW j \in JobIds, NEW o
    PROVE  /\ Count(j, o) \in Nat
           /\ Count(j, o) = 0 <=> \A f \in Files : outcome[j][f] # o
<1> DEFINE S == {f \in Files : outcome[j][f] = o}
<1>1. IsFiniteSet(S)
  BY FS_Subset DEF RestoreAssumption
<1>2. Cardinality(S) \in Nat /\ (Cardinality(S) = 0 <=> S = {})
  BY <1>1, FS_CardinalityType, FS_EmptySet
<1> QED
  BY <1>2 DEF Count

\* The listing of a whole snapshot that took too long.
SlowListing(j) ==
    /\ request[j].whole /\ Fails("slow") /\ request[j].dest \in SftpDests
    /\ \A f \in Files : outcome[j][f] = "none"

\* Every file that was asked for has an outcome, or is still to be copied.
Taken(j) == SlowListing(j) \/ \A f \in Wanted(j) : outcome[j][f] # "none"

\* StatusTellsOutcome of one job, without counting.
Told(j) ==
    /\ job[j].status = "success" =>
         SlowListing(j) \/ \A f \in Wanted(j) : outcome[j][f] \in {"restored", "skipped"}
    /\ job[j].status = "partial" =>
         /\ \E f \in Files : outcome[j][f] = "restored"
         /\ \E f \in Files : outcome[j][f] = "failed"
    /\ job[j].status \notin {"success", "partial"} =>
         j \in aborted \/ \A f \in Files : outcome[j][f] # "restored"

OutcomeOf(j) ==
    /\ Working(j) => request[j] \in Requests
    /\ worker[j] \in {"none", "lost", "listing"} => \A f \in Files : outcome[j][f] = "none"
    /\ worker[j] = "connecting" => \A f \in Files : outcome[j][f] # "restored"
    /\ worker[j] = "writing" => outcome[j][at[j]] = "pending" /\ ~request[j].toRoot
    /\ worker[j] = "copying" /\ request[j].toRoot => \A f \in Files : outcome[j][f] # "restored"
    /\ worker[j] \in {"connecting", "copying", "writing"} => Taken(j)
    /\ worker[j] = "over" => Told(j)

OutcomeInv == JobInv /\ \A j \in JobIds : OutcomeOf(j)

LEMMA WantedAreFiles ==
    ASSUME RestoreAssumption, NEW j \in JobIds, request[j] \in Requests
    PROVE  Wanted(j) \subseteq Files
BY DEF RestoreAssumption, Wanted, Requests

LEMMA InitOutcomeInv == RestoreAssumption /\ Init => OutcomeInv
BY InitJobInv DEF OutcomeInv, OutcomeOf, Init, Working, AtWork

\* A job that a step does not concern.
LEMMA OthersKeepOutcome ==
    ASSUME NEW q \in JobIds, OutcomeOf(q),
           worker'[q] = worker[q], request'[q] = request[q], outcome'[q] = outcome[q],
           at'[q] = at[q], job'[q].status = job[q].status, q \in aborted' <=> q \in aborted
    PROVE  OutcomeOf(q)'
BY DEF OutcomeOf, Working, Taken, Told, SlowListing, Wanted

\* A file of a job that gets its outcome.
LEMMA FileKeepsTaken ==
    ASSUME RestoreAssumption, OutcomeInv, NEW j \in JobIds, NEW f \in Files, NEW o \in Outcomes,
           Working(j), Taken(j), outcome[j][f] = "pending", o # "none",
           outcome' = [outcome EXCEPT ![j][f] = o], request' = request
    PROVE  Taken(j)'
<1>1. \A g \in Wanted(j) : outcome[j][g] # "none"
  BY DEF Taken, SlowListing
<1>2. Wanted(j)' = Wanted(j) /\ Wanted(j) \subseteq Files
  BY WantedAreFiles DEF Wanted, OutcomeInv, OutcomeOf
<1>3. \A g \in Files : outcome'[j][g] = IF g = f THEN o ELSE outcome[j][g]
  BY OutcomeWritten DEF OutcomeInv, JobInv, TypeOK
<1> QED
  BY <1>1, <1>2, <1>3 DEF Taken

LEMMA EndTells ==
    ASSUME RestoreAssumption, OutcomeInv, NEW j \in JobIds, NEW status \in Final, Working(j),
           Settle(j, status), UNCHANGED outcome,
           status = "success" => SlowListing(j) \/ \A f \in Wanted(j) : outcome[j][f] \in {"restored", "skipped"},
           status = "partial" => /\ \E f \in Files : outcome[j][f] = "restored"
                                 /\ \E f \in Files : outcome[j][f] = "failed",
           status \notin {"success", "partial"} =>
             j \in aborted \/ \A f \in Files : outcome[j][f] # "restored"
    PROVE  \A q \in JobIds : OutcomeOf(q)'
<1> USE DEF OutcomeInv, JobInv
<1>1. /\ job'[j].status = status
      /\ \A q \in JobIds \ {j} : job'[q] = job[q]
  BY TypeOKOfJob, SettleWrites
<1>2. /\ worker'[j] = "over" /\ \A q \in JobIds \ {j} : worker'[q] = worker[q]
      /\ UNCHANGED <<aborted, request, at>>
  BY DEF Settle, TypeOK
<1>3. \A q \in JobIds \ {j} : OutcomeOf(q)'
  BY <1>1, <1>2, OthersKeepOutcome
<1>4. Told(j)'
  BY <1>1, <1>2 DEF Told, SlowListing, Wanted
<1>5. OutcomeOf(j)'
  BY <1>2, <1>4 DEF OutcomeOf, Working, AtWork
<1> QED
  BY <1>3, <1>5

LEMMA FinishTells ==
    ASSUME RestoreAssumption, OutcomeInv, NEW j \in JobIds, Finish(j)
    PROVE  \A q \in JobIds : OutcomeOf(q)'
<1> DEFINE status == IF j \in aborted THEN "cancelled" ELSE FinalStatus(j)
<1>1. Working(j) /\ Taken(j) /\ request[j] \in Requests
  BY DEF Finish, OutcomeInv, OutcomeOf, Working, AtWork
<1>2. outcome[j] \in [Files -> Outcomes] /\ Wanted(j) \subseteq Files
  BY <1>1, WantedAreFiles DEF OutcomeInv, JobInv, TypeOK
<1>3. status \in Final /\ Settle(j, status) /\ UNCHANGED outcome
  BY FinalStatusType DEF Finish, Final
<1>4. j \notin aborted =>
        /\ \A f \in Files : outcome[j][f] # "pending"
        /\ status = "success" => \A f \in Files : outcome[j][f] # "failed"
        /\ status = "partial" => /\ \E f \in Files : outcome[j][f] = "restored"
                                 /\ \E f \in Files : outcome[j][f] = "failed"
        /\ status = "failed" => \A f \in Files : outcome[j][f] # "restored"
  BY CountFacts DEF Finish, FinalStatus
<1>5. status = "success" => SlowListing(j) \/ \A f \in Wanted(j) : outcome[j][f] \in {"restored", "skipped"}
  <2>1. SUFFICES ASSUME status = "success", ~SlowListing(j), NEW f \in Wanted(j)
                 PROVE  outcome[j][f] \in {"restored", "skipped"}
    OBVIOUS
  <2>2. j \notin aborted
    BY <2>1
  <2>3. outcome[j][f] \in Outcomes /\ outcome[j][f] \notin {"none", "pending", "failed"}
    BY <1>1, <1>2, <1>4, <2>1, <2>2 DEF Taken
  <2> QED
    BY <2>3 DEF Outcomes
<1>6. status = "partial" => /\ \E f \in Files : outcome[j][f] = "restored"
                            /\ \E f \in Files : outcome[j][f] = "failed"
  BY <1>4
<1>7. status \notin {"success", "partial"} => j \in aborted \/ \A f \in Files : outcome[j][f] # "restored"
  BY <1>4, FinalStatusType
<1> HIDE DEF status
<1> QED
  BY <1>1, <1>3, <1>5, <1>6, <1>7, EndTells

LEMMA ListTakes ==
    ASSUME RestoreAssumption, OutcomeInv, NEW j \in JobIds, List(j)
    PROVE  \A q \in JobIds : OutcomeOf(q)'
<1> USE DEF OutcomeInv, JobInv
<1>1. request[j] \in Requests /\ request' = request /\ Working(j)
  BY DEF List, OutcomeOf, Working, AtWork
<1>2. PICK slow \in IF Fails("slow") /\ request[j].dest \in SftpDests THEN BOOLEAN ELSE {FALSE} :
        outcome' = [outcome EXCEPT ![j] =
          Selection(IF slow THEN {} ELSE Holds[request[j].dest][request[j].period], request[j])]
  BY DEF List
<1> DEFINE available == IF slow THEN {} ELSE Holds[request[j].dest][request[j].period]
<1>3. outcome'[j] = Selection(available, request[j])
      /\ \A q \in JobIds \ {j} : outcome'[q] = outcome[q]
  BY <1>2 DEF TypeOK
<1>4. /\ worker'[j] \in {"connecting", "copying"}
      /\ \A q \in JobIds \ {j} : worker'[q] = worker[q]
      /\ UNCHANGED <<aborted, at>>
  BY DEF List, TypeOK
<1>5. \A q \in JobIds : job'[q].status = job[q].status
  BY TypeOKOfJob, ProgressKeepsStatus DEF List
<1>6. \A f \in Files : outcome'[j][f] # "restored"
  BY <1>3, SelectionType
<1>7. Taken(j)'
  <2>1. Wanted(j)' = Wanted(j) /\ Wanted(j) \subseteq Files
    BY <1>1, WantedAreFiles DEF Wanted
  <2>2. CASE ~request[j].whole
    <3>1. \A f \in Wanted(j) : outcome'[j][f] # "none"
      BY <1>3, <2>1, <2>2 DEF Selection, Wanted
    <3> QED
      BY <2>1, <3>1 DEF Taken
  <2>3. CASE request[j].whole /\ ~slow
    <3>1. \A f \in Wanted(j) : outcome'[j][f] # "none"
      BY <1>3, <2>1, <2>3 DEF Selection, Wanted
    <3> QED
      BY <2>1, <3>1 DEF Taken
  <2>4. CASE request[j].whole /\ slow
    <3>1. \A f \in Files : outcome'[j][f] = "none"
      BY <1>3, <2>4 DEF Selection
    <3>2. Fails("slow") /\ request[j].dest \in SftpDests
      BY <1>2, <2>4
    <3> QED
      BY <1>1, <2>4, <3>1, <3>2 DEF Taken, SlowListing, Fails
  <2> QED
    BY <2>2, <2>3, <2>4
<1>8. \A q \in JobIds \ {j} : OutcomeOf(q)'
  BY <1>1, <1>3, <1>4, <1>5, OthersKeepOutcome
<1>9. OutcomeOf(j)'
  BY <1>1, <1>4, <1>6, <1>7 DEF OutcomeOf, Working
<1> QED
  BY <1>8, <1>9

\* A worker that has given the file f an outcome goes on with the next.
LEMMA FileDone ==
    ASSUME RestoreAssumption, OutcomeInv, NEW j \in JobIds, NEW f \in Files,
           NEW o \in {"restored", "skipped", "failed"},
           worker[j] \in {"copying", "writing"}, outcome[j][f] = "pending", ~request[j].toRoot,
           outcome' = [outcome EXCEPT ![j][f] = o], worker'[j] = "copying",
           job' = Progress(j),
           \A q \in JobIds \ {j} : worker'[q] = worker[q] /\ at'[q] = at[q],
           UNCHANGED <<aborted, request>>
    PROVE  \A q \in JobIds : OutcomeOf(q)'
<1> USE DEF OutcomeInv, JobInv
<1>1. o \in Outcomes /\ o # "none"
  BY DEF Outcomes
<1>2. Working(j) /\ Taken(j) /\ request[j] \in Requests
  BY DEF OutcomeOf, Working, AtWork
<1>3. Taken(j)'
  BY <1>1, <1>2, FileKeepsTaken
<1>4. \A q \in JobIds : job'[q].status = job[q].status
  BY TypeOKOfJob, ProgressKeepsStatus
<1>5. \A q \in JobIds \ {j} : outcome'[q] = outcome[q]
  BY DEF TypeOK
<1>6. \A q \in JobIds \ {j} : OutcomeOf(q)'
  BY <1>4, <1>5, OthersKeepOutcome
<1>7. OutcomeOf(j)'
  BY <1>2, <1>3 DEF OutcomeOf, Working
<1> QED
  BY <1>6, <1>7

LEMMA NextOutcomeInv ==
    ASSUME RestoreAssumption, OutcomeInv, [Next]_vars
    PROVE  OutcomeInv'
<1> SUFFICES \A q \in JobIds : OutcomeOf(q)'
  BY NextJobInv DEF OutcomeInv
<1> USE DEF OutcomeInv, JobInv
<1>0. TypeOK /\ job \in [JobIds -> JobStates]
  BY TypeOKOfJob
<1>1. ASSUME NEW j \in JobIds, NEW req \in Asked[j], StartRestoreJob(j, req)
      PROVE  \A q \in JobIds : OutcomeOf(q)'
  <2>1. req \in Requests
    BY DEF RestoreAssumption
  <2>2. /\ worker[j] = "none" /\ worker'[j] = "listing" /\ request'[j] = req
        /\ \A q \in JobIds \ {j} : worker'[q] = worker[q] /\ request'[q] = request[q] /\ job'[q] = job[q]
        /\ UNCHANGED <<aborted, at, outcome>>
    BY <1>0, <1>1 DEF StartRestoreJob, TypeOK
  <2>3. OutcomeOf(j)'
    BY <2>1, <2>2 DEF OutcomeOf, Working
  <2>4. \A q \in JobIds \ {j} : OutcomeOf(q)'
    BY <2>2, OthersKeepOutcome
  <2> QED
    BY <2>3, <2>4
<1>2. ASSUME NEW j \in JobIds, CancelRestoreJob(j)
      PROVE  \A q \in JobIds : OutcomeOf(q)'
  <2>1. Working(j) /\ UNCHANGED <<worker, request, at, outcome>>
    BY <1>2 DEF CancelRestoreJob, RunningIsActive, work
  <2>2. \A q \in JobIds \ {j} : job'[q] = job[q] /\ (q \in aborted' <=> q \in aborted)
    BY <1>0, <1>2 DEF CancelRestoreJob
  <2>3. \A q \in JobIds \ {j} : OutcomeOf(q)'
    BY <2>1, <2>2, OthersKeepOutcome
  <2>4. OutcomeOf(j)'
    BY <2>1 DEF OutcomeOf, Working, AtWork, Taken, SlowListing, Wanted
  <2> QED
    BY <2>3, <2>4
<1>3. ASSUME NEW j \in JobIds, List(j)
      PROVE  \A q \in JobIds : OutcomeOf(q)'
  BY <1>3, ListTakes
<1>4. ASSUME NEW j \in JobIds, Fail(j)
      PROVE  \A q \in JobIds : OutcomeOf(q)'
  <2>1. Working(j) /\ \A f \in Files : outcome[j][f] # "restored"
    BY <1>4 DEF Fail, Escapes, OutcomeOf, Working, AtWork
  <2>2. "failed" \in Final
    BY DEF Final
  <2> QED
    BY <1>4, <2>1, <2>2, EndTells DEF Fail
<1>5. ASSUME NEW j \in JobIds, Connect(j)
      PROVE  \A q \in JobIds : OutcomeOf(q)'
  <2>1. /\ worker[j] = "connecting" /\ worker'[j] = "copying"
        /\ \A q \in JobIds \ {j} : worker'[q] = worker[q]
        /\ UNCHANGED <<aborted, request, at, outcome, job>>
    BY <1>0, <1>5 DEF Connect, TypeOK
  <2>2. OutcomeOf(j)'
    BY <2>1 DEF OutcomeOf, Working, AtWork, Taken, SlowListing, Wanted
  <2> QED
    BY <2>1, <2>2, OthersKeepOutcome
<1>6. ASSUME NEW j \in JobIds, NEW f \in Files, PassFile(j, f)
      PROVE  \A q \in JobIds : OutcomeOf(q)'
  <2>1. PICK o \in {"restored", "skipped", "failed"} : outcome' = [outcome EXCEPT ![j][f] = o]
    BY <1>6, PassFileOutcome
  <2>2. /\ worker[j] = "copying" /\ worker' = worker /\ outcome[j][f] = "pending" /\ ~request[j].toRoot
        /\ job' = Progress(j) /\ UNCHANGED <<aborted, request, at>>
    BY <1>6 DEF PassFile, MayTake
  <2> QED
    BY <2>1, <2>2, FileDone
<1>7. ASSUME NEW j \in JobIds, NEW f \in Files, OpenFile(j, f)
      PROVE  \A q \in JobIds : OutcomeOf(q)'
  <2>1. /\ worker[j] = "copying" /\ worker'[j] = "writing" /\ at'[j] = f
        /\ outcome[j][f] = "pending" /\ ~request[j].toRoot
        /\ \A q \in JobIds \ {j} : worker'[q] = worker[q] /\ at'[q] = at[q]
        /\ UNCHANGED <<aborted, request, outcome, job>>
    BY <1>0, <1>7 DEF OpenFile, MayTake, TypeOK
  <2>2. OutcomeOf(j)'
    BY <2>1 DEF OutcomeOf, Working, AtWork, Taken, SlowListing, Wanted
  <2> QED
    BY <2>1, <2>2, OthersKeepOutcome
<1>8. ASSUME NEW j \in JobIds, CopyFile(j)
      PROVE  \A q \in JobIds : OutcomeOf(q)'
  <2>1. PICK o \in {"restored", "skipped", "failed"} : outcome' = [outcome EXCEPT ![j][at[j]] = o]
    BY <1>8, CopyFileOutcome
  <2>2. /\ worker[j] = "writing" /\ worker'[j] = "copying" /\ job' = Progress(j)
        /\ \A q \in JobIds \ {j} : worker'[q] = worker[q] /\ at'[q] = at[q]
        /\ UNCHANGED <<aborted, request>>
    BY <1>0, <1>8 DEF CopyFile, TypeOK
  <2>3. at[j] \in Files /\ outcome[j][at[j]] = "pending" /\ ~request[j].toRoot
    BY <2>2 DEF TypeOK, OutcomeOf
  <2> QED
    BY <2>1, <2>2, <2>3, FileDone
<1>9. ASSUME NEW j \in JobIds, Finish(j)
      PROVE  \A q \in JobIds : OutcomeOf(q)'
  BY <1>9, FinishTells
<1>10. CASE Crash
  BY <1>10 DEF Crash, OutcomeOf, Working, AtWork
<1>11. CASE UNCHANGED vars
  BY <1>11, OthersKeepOutcome DEF vars, work
<1> QED
  BY <1>1, <1>2, <1>3, <1>4, <1>5, <1>6, <1>7, <1>8, <1>9, <1>10, <1>11 DEF Next, WorkerStep

\* A success has taken care of every file that was asked for, a partial restore
\* has both kinds, and a job that failed with files restored was cancelled; but
\* for the whole snapshot whose listing was too slow (finalStatus,
\* listSnapshotFilesWithTimeout).
THEOREM StatusIsTrue == ASSUME RestoreAssumption PROVE Spec => []StatusTellsOutcome
<1>1. Init => OutcomeInv
  BY InitOutcomeInv
<1>2. OutcomeInv /\ [Next]_vars => OutcomeInv'
  BY NextOutcomeInv
<1>3. OutcomeInv => StatusTellsOutcome
  <2>1. SUFFICES ASSUME OutcomeInv, NEW j \in JobIds, worker[j] = "over"
                 PROVE  CASE job[j].status = "success" ->
                               \/ \A f \in Wanted(j) : outcome[j][f] \in {"restored", "skipped"}
                               \/ SlowListing(j)
                          [] job[j].status = "partial" -> Count(j, "restored") > 0 /\ Count(j, "failed") > 0
                          [] OTHER -> j \in aborted \/ Count(j, "restored") = 0
    BY DEF StatusTellsOutcome, SlowListing
  <2>2. Told(j)
    BY <2>1 DEF OutcomeInv, OutcomeOf
  <2>3. \A o : Count(j, o) \in Nat /\ (Count(j, o) > 0 <=> \E f \in Files : outcome[j][f] = o)
    BY CountFacts
  <2> QED
    BY <2>2, <2>3 DEF Told
<1> QED
  BY <1>1, <1>2, <1>3, PTL DEF Spec
-----------------------------------------------------------------------------
(***************************************************************************)
(* A restored file is whole.                                               *)
(***************************************************************************)
\* The jobs start in the order of their ids; those that are at work together
\* have met, and a job has met those before it that are still at work.
Meeting ==
    /\ \A q, r \in JobIds : worker[q] # "none" /\ worker[r] = "none" => StartedAt[q] < StartedAt[r]
    /\ \A j, k \in JobIds : Working(j) /\ Working(k) /\ j # k => k \in met[j]
    /\ \A j, k \in JobIds : worker[j] # "none" /\ Working(k) /\ StartedAt[k] < StartedAt[j] => k \in met[j]

\* No job that the job j met has to do with the file.
Alone(j, f) == \A k \in met[j] : outcome[k][f] = "none"

\* What such a job writes is its own.
OwnFile(j, f) == worker[j] = "writing" /\ at[j] = f /\ Alone(j, f) => target[f] = "torn"

WrittenLater(j, f) ==
    \E k \in JobIds : /\ StartedAt[k] > StartedAt[j]
                      /\ target[f] = k \/ (target[f] \in {"torn", "mixed"} /\ outcome[k][f] # "none")

WholeFile(j, f) ==
    outcome[j][f] = "restored" /\ ~request[j].dryRun /\ Alone(j, f) => target[f] = j \/ WrittenLater(j, f)

WholeInv ==
    /\ OutcomeInv /\ Meeting
    /\ \A j \in JobIds, f \in Files : OwnFile(j, f) /\ WholeFile(j, f)

LEMMA InitWholeInv == RestoreAssumption /\ Init => WholeInv
<1> SUFFICES ASSUME RestoreAssumption, Init PROVE WholeInv
  OBVIOUS
<1>1. OutcomeInv
  BY InitOutcomeInv
<1>2. Meeting
  BY DEF Meeting, Init, Working, AtWork
<1>3. ASSUME NEW j \in JobIds, NEW f \in Files PROVE OwnFile(j, f) /\ WholeFile(j, f)
  BY DEF Init, OwnFile, WholeFile
<1> QED
  BY <1>1, <1>2, <1>3 DEF WholeInv

\* No job starts or is lost.
LEMMA WorkKeepsMeeting ==
    ASSUME Meeting, met' = met,
           \A q \in JobIds : Working(q)' => Working(q),
           \A q \in JobIds : worker'[q] = "none" <=> worker[q] = "none"
    PROVE  Meeting'
BY DEF Meeting

\* A step that does not write the file, and gives it up for no job.
LEMMA FileIsLeft ==
    ASSUME OutcomeInv, NEW j \in JobIds, NEW f \in Files, OwnFile(j, f), WholeFile(j, f),
           target'[f] = target[f], met[j] \subseteq met'[j],
           \A k \in JobIds : outcome[k][f] # "none" => outcome'[k][f] # "none",
           worker'[j] = "writing" /\ at'[j] = f => worker[j] = "writing" /\ at[j] = f,
           outcome'[j][f] = "restored" /\ ~request'[j].dryRun =>
             outcome[j][f] = "restored" /\ ~request[j].dryRun
    PROVE  OwnFile(j, f)' /\ WholeFile(j, f)'
<1>1. met[j] \subseteq JobIds
  BY DEF OutcomeInv, JobInv, TypeOK
<1>2. Alone(j, f)' => Alone(j, f)
  BY <1>1 DEF Alone
<1>3. WrittenLater(j, f) => WrittenLater(j, f)'
  BY DEF WrittenLater
<1> QED
  BY <1>2, <1>3 DEF OwnFile, WholeFile

\* A job at work on a file that another one has restored started after it, or
\* they have met.
LEMMA StartedLater ==
    ASSUME RestoreAssumption, WholeInv, NEW q \in JobIds, NEW j \in JobIds, NEW f \in Files,
           Working(j), q # j, outcome[j][f] # "none", outcome[q][f] = "restored", Alone(q, f)
    PROVE  StartedAt[j] > StartedAt[q]
<1>1. j \notin met[q]
  BY DEF Alone
<1>2. worker[q] # "none"
  BY DEF WholeInv, OutcomeInv, OutcomeOf
<1>3. ~(StartedAt[j] < StartedAt[q])
  BY <1>1, <1>2 DEF WholeInv, Meeting
<1>4. StartedAt[j] # StartedAt[q] /\ StartedAt[j] \in Nat /\ StartedAt[q] \in Nat
  BY DEF RestoreAssumption
<1> QED
  BY <1>3, <1>4

LEMMA StartKeepsWhole ==
    ASSUME RestoreAssumption, WholeInv, OutcomeInv', NEW j \in JobIds, NEW req, StartRestoreJob(j, req)
    PROVE  WholeInv'
<1>0. TypeOK
  BY DEF WholeInv, OutcomeInv, JobInv
<1>1. /\ worker[j] = "none" /\ worker'[j] = "listing" /\ met'[j] = {k \in JobIds : Working(k)}
      /\ \A q \in JobIds \ {j} : worker'[q] = worker[q] /\ request'[q] = request[q]
      /\ \A q \in JobIds \ {j} : met'[q] = IF Working(q) THEN met[q] \union {j} ELSE met[q]
      /\ \A q \in JobIds : StartedAt[q] < StartedAt[j] => worker[q] # "none"
      /\ UNCHANGED <<at, outcome, target>>
  BY <1>0 DEF StartRestoreJob, TypeOK
<1>2. \A q, r \in JobIds : StartedAt[q] \in Nat /\ (q # r => StartedAt[q] # StartedAt[r])
  BY DEF RestoreAssumption
<1>3. ~Working(j) /\ \A q \in JobIds \ {j} : Working(q)' <=> Working(q)
  BY <1>1 DEF Working, AtWork
<1>4. Meeting'
  <2>1. ASSUME NEW q \in JobIds, NEW r \in JobIds, worker'[q] # "none", worker'[r] = "none"
        PROVE  StartedAt[q] < StartedAt[r]
    <3>1. r # j /\ worker[r] = "none"
      BY <1>1, <2>1
    <3>2. CASE q = j
      BY <1>1, <1>2, <3>1, <3>2
    <3>3. CASE q # j
      BY <1>1, <2>1, <3>1, <3>3 DEF WholeInv, Meeting
    <3> QED
      BY <3>2, <3>3
  <2>2. ASSUME NEW a \in JobIds, NEW k \in JobIds, Working(a)', Working(k)', a # k PROVE k \in met'[a]
    <3>1. CASE a = j
      BY <1>1, <1>3, <2>2, <3>1
    <3>2. CASE k = j
      BY <1>1, <1>3, <2>2, <3>2
    <3>3. CASE a # j /\ k # j
      BY <1>1, <1>3, <2>2, <3>3 DEF WholeInv, Meeting
    <3> QED
      BY <3>1, <3>2, <3>3
  <2>3. ASSUME NEW a \in JobIds, NEW k \in JobIds, worker'[a] # "none", Working(k)', StartedAt[k] < StartedAt[a]
        PROVE  k \in met'[a]
    <3>0. a # k
      BY <1>2, <2>3
    <3>1. CASE k = j
      <4>1. StartedAt[a] < StartedAt[j]
        BY <1>1, <2>3, <3>0, <3>1 DEF WholeInv, Meeting
      <4> QED
        BY <1>2, <2>3, <3>1, <4>1
    <3>2. CASE k # j /\ a = j
      BY <1>1, <1>3, <2>3, <3>2
    <3>3. CASE k # j /\ a # j
      BY <1>1, <1>3, <2>3, <3>3 DEF WholeInv, Meeting
    <3> QED
      BY <3>1, <3>2, <3>3
  <2> QED
    BY <2>1, <2>2, <2>3 DEF Meeting
<1>5. ASSUME NEW q \in JobIds, NEW f \in Files PROVE OwnFile(q, f)' /\ WholeFile(q, f)'
  <2>1. CASE q = j
    <3>1. outcome'[j][f] = "none"
      BY <1>1 DEF WholeInv, OutcomeInv, OutcomeOf
    <3> QED
      BY <1>1, <2>1, <3>1 DEF OwnFile, WholeFile
  <2>2. CASE q # j
    <3>1. OutcomeInv /\ OwnFile(q, f) /\ WholeFile(q, f)
      BY DEF WholeInv
    <3>2. met[q] \subseteq met'[q] /\ worker'[q] = worker[q] /\ request'[q] = request[q]
      BY <1>1, <2>2
    <3> QED
      BY <1>1, <3>1, <3>2, FileIsLeft
  <2> QED
    BY <2>1, <2>2
<1> QED
  BY <1>4, <1>5 DEF WholeInv

LEMMA OpenKeepsWhole ==
    ASSUME RestoreAssumption, WholeInv, OutcomeInv', NEW j \in JobIds, NEW g \in Files, OpenFile(j, g)
    PROVE  WholeInv'
<1>0. TypeOK
  BY DEF WholeInv, OutcomeInv, JobInv
<1>1. /\ worker[j] = "copying" /\ worker'[j] = "writing" /\ at'[j] = g /\ outcome[j][g] = "pending"
      /\ \A q \in JobIds \ {j} : worker'[q] = worker[q] /\ at'[q] = at[q]
      /\ \A f \in Files \ {g} : target'[f] = target[f]
      /\ target'[g] = IF Writers(g) = {} THEN "torn" ELSE "mixed"
      /\ UNCHANGED <<outcome, request, met>>
  BY <1>0 DEF OpenFile, MayTake, TypeOK
<1>2. Working(j) /\ \A q \in JobIds : Working(q)' => Working(q)
  BY <1>1 DEF Working, AtWork
<1>3. Meeting'
  BY <1>1, <1>2, WorkKeepsMeeting DEF WholeInv
<1>4. ASSUME NEW q \in JobIds, NEW f \in Files \ {g} PROVE OwnFile(q, f)' /\ WholeFile(q, f)'
  BY <1>1, FileIsLeft DEF WholeInv
<1>5. ASSUME NEW q \in JobIds, worker'[q] = "writing", at'[q] = g, Alone(q, g) PROVE target'[g] = "torn"
  <2>1. CASE q = j
    <3>1. ASSUME NEW k \in Writers(g) PROVE FALSE
      <4>1. k \in JobIds /\ worker[k] = "writing" /\ at[k] = g /\ k # j /\ Working(k)
        BY <1>1 DEF Writers, Working, AtWork
      <4>2. k \in met[j]
        BY <1>2, <4>1 DEF WholeInv, Meeting
      <4>3. outcome[k][g] = "pending"
        BY <4>1 DEF WholeInv, OutcomeInv, OutcomeOf
      <4> QED
        BY <1>5, <2>1, <4>2, <4>3 DEF Alone
    <3> QED
      BY <1>1, <3>1
  <2>2. CASE q # j
    <3>1. worker[q] = "writing" /\ Working(q)
      BY <1>1, <1>5, <2>2 DEF Working, AtWork
    <3>2. j \in met[q]
      BY <1>2, <2>2, <3>1 DEF WholeInv, Meeting
    <3> QED
      BY <1>1, <1>5, <3>2 DEF Alone
  <2> QED
    BY <2>1, <2>2
<1>6. ASSUME NEW q \in JobIds, outcome[q][g] = "restored", Alone(q, g) PROVE WrittenLater(q, g)'
  <2>1. q # j
    BY <1>1, <1>6
  <2>2. StartedAt[j] > StartedAt[q]
    BY <1>1, <1>2, <1>6, <2>1, StartedLater
  <2> QED
    BY <1>1, <2>2 DEF WrittenLater
<1>7. \A q \in JobIds : Alone(q, g)' <=> Alone(q, g)
  BY <1>1 DEF Alone
<1>8. ASSUME NEW q \in JobIds PROVE OwnFile(q, g)' /\ WholeFile(q, g)'
  BY <1>1, <1>5, <1>6, <1>7 DEF OwnFile, WholeFile
<1> QED
  BY <1>3, <1>4, <1>8 DEF WholeInv

LEMMA CopyKeepsWhole ==
    ASSUME RestoreAssumption, WholeInv, OutcomeInv', NEW j \in JobIds, CopyFile(j)
    PROVE  WholeInv'
<1>0. TypeOK
  BY DEF WholeInv, OutcomeInv, JobInv
<1>a. worker[j] = "writing" /\ at[j] \in Files
  BY <1>0 DEF CopyFile, TypeOK
<1>b. PICK g \in Files : g = at[j]
  BY <1>a
<1>1. /\ worker[j] = "writing" /\ worker'[j] = "copying" /\ at[j] = g
      /\ \A q \in JobIds \ {j} : worker'[q] = worker[q] /\ at'[q] = at[q]
      /\ UNCHANGED <<request, met>>
  BY <1>0, <1>b DEF CopyFile, TypeOK
<1>2. outcome[j][g] = "pending"
  BY <1>1 DEF WholeInv, OutcomeInv, OutcomeOf
<1>3. PICK o \in {"restored", "failed"} :
        /\ outcome' = [outcome EXCEPT ![j][g] = o]
        /\ \/ o = "restored" /\ \E c \in {j} \union ({target[g]} \ {"torn"}) : target' = [target EXCEPT ![g] = c]
           \/ o = "failed" /\ target' = target
  BY <1>b, CopyFileOutcome
<1>4. /\ outcome'[j][g] = o
      /\ \A f \in Files \ {g} : outcome'[j][f] = outcome[j][f]
      /\ \A q \in JobIds \ {j} : outcome'[q] = outcome[q]
  BY <1>0, <1>1, <1>3 DEF TypeOK
<1>5. /\ \A f \in Files \ {g} : target'[f] = target[f]
      /\ o = "restored" => target'[g] = j \/ (target'[g] = target[g] /\ target[g] # "torn")
      /\ o = "failed" => target'[g] = target[g]
  BY <1>0, <1>1, <1>3 DEF TypeOK
<1>6. Working(j) /\ \A q \in JobIds : Working(q)' => Working(q)
  BY <1>1 DEF Working, AtWork
<1>7. Meeting'
  BY <1>1, <1>6, WorkKeepsMeeting DEF WholeInv
<1>8. ASSUME NEW q \in JobIds, NEW f \in Files \ {g} PROVE OwnFile(q, f)' /\ WholeFile(q, f)'
  <2>1. \A k \in JobIds : outcome'[k][f] = outcome[k][f]
    BY <1>4
  <2>2. worker'[q] = "writing" /\ at'[q] = f => worker[q] = "writing" /\ at[q] = f
    BY <1>1
  <2> QED
    BY <1>1, <1>5, <2>1, <2>2, FileIsLeft DEF WholeInv
<1>9. ASSUME NEW q \in JobIds, Alone(q, g)' PROVE Alone(q, g)
  <2>1. met[q] \subseteq JobIds
    BY <1>0 DEF TypeOK
  <2>2. ASSUME NEW k \in met[q] PROVE outcome[k][g] = "none"
    <3>1. outcome'[k][g] = "none"
      BY <1>1, <1>9, <2>2 DEF Alone
    <3> QED
      BY <1>4, <2>1, <3>1
  <2> QED
    BY <2>2 DEF Alone
<1>10. ASSUME NEW q \in JobIds, worker'[q] = "writing", Alone(q, g)' PROVE FALSE
  <2>1. q # j /\ worker[q] = "writing" /\ Working(q)
    BY <1>1, <1>10 DEF Working, AtWork
  <2>2. j \in met[q]
    BY <1>6, <2>1 DEF WholeInv, Meeting
  <2> QED
    BY <1>1, <1>4, <1>10, <2>2 DEF Alone
<1>11. ASSUME NEW q \in JobIds, outcome'[q][g] = "restored", ~request'[q].dryRun, Alone(q, g)'
       PROVE  target'[g] = q \/ WrittenLater(q, g)'
  <2>1. CASE q = j
    <3>1. o = "restored"
      BY <1>4, <1>11, <2>1
    <3>2. target[g] = "torn"
      BY <1>1, <1>9, <1>11, <2>1 DEF WholeInv, OwnFile
    <3> QED
      BY <1>5, <2>1, <3>1, <3>2
  <2>2. CASE q # j
    <3>1. outcome[q][g] = "restored" /\ ~request[q].dryRun /\ Alone(q, g)
      BY <1>1, <1>4, <1>9, <1>11, <2>2
    <3>2. StartedAt[j] > StartedAt[q]
      BY <1>1, <1>2, <1>6, <2>2, <3>1, StartedLater
    <3>3. CASE target'[g] = j
      BY <3>2, <3>3 DEF WrittenLater
    <3>4. CASE target'[g] = target[g]
      <4>1. target[g] = q \/ WrittenLater(q, g)
        BY <1>1, <3>1 DEF WholeInv, WholeFile
      <4>2. \A k \in JobIds : outcome[k][g] # "none" => outcome'[k][g] # "none"
        BY <1>4
      <4>3. WrittenLater(q, g) => WrittenLater(q, g)'
        BY <3>4, <4>2 DEF WrittenLater
      <4> QED
        BY <3>4, <4>1, <4>3
    <3> QED
      BY <1>5, <3>3, <3>4
  <2> QED
    BY <2>1, <2>2
<1>12. ASSUME NEW q \in JobIds PROVE OwnFile(q, g)' /\ WholeFile(q, g)'
  BY <1>10, <1>11 DEF OwnFile, WholeFile
<1> QED
  BY <1>7, <1>8, <1>12 DEF WholeInv

LEMMA NextWholeInv ==
    ASSUME RestoreAssumption, WholeInv, [Next]_vars
    PROVE  WholeInv'
<1>0. OutcomeInv' /\ TypeOK
  BY NextOutcomeInv DEF WholeInv, OutcomeInv, JobInv
<1>1. ASSUME NEW j \in JobIds, NEW req \in Asked[j], StartRestoreJob(j, req) PROVE WholeInv'
  BY <1>0, <1>1, StartKeepsWhole
<1>2. ASSUME NEW j \in JobIds, NEW f \in Files, OpenFile(j, f) PROVE WholeInv'
  BY <1>0, <1>2, OpenKeepsWhole
<1>3. ASSUME NEW j \in JobIds, CopyFile(j) PROVE WholeInv'
  BY <1>0, <1>3, CopyKeepsWhole
<1>4. ASSUME NEW j \in JobIds, NEW f \in Files, PassFile(j, f) PROVE WholeInv'
  <2>1. /\ worker' = worker /\ UNCHANGED <<request, at, target, met>> /\ outcome[j][f] = "pending"
        /\ \E o \in {"restored", "skipped", "failed"} :
             outcome' = [outcome EXCEPT ![j][f] = o] /\ (o = "restored" => request[j].dryRun)
    BY <1>4 DEF PassFile, MayTake
  <2>2. PICK o \in {"restored", "skipped", "failed"} :
             outcome' = [outcome EXCEPT ![j][f] = o] /\ (o = "restored" => request[j].dryRun)
    BY <2>1
  <2>3. \A q \in JobIds, g \in Files : outcome'[q][g] = IF q = j /\ g = f THEN o ELSE outcome[q][g]
    BY <1>0, <2>2 DEF TypeOK
  <2>4. Meeting'
    BY <2>1, WorkKeepsMeeting DEF WholeInv, Working
  <2>5. ASSUME NEW q \in JobIds, NEW g \in Files PROVE OwnFile(q, g)' /\ WholeFile(q, g)'
    BY <2>1, <2>2, <2>3, FileIsLeft DEF WholeInv
  <2> QED
    BY <1>0, <2>4, <2>5 DEF WholeInv
<1>5. ASSUME NEW j \in JobIds, List(j) PROVE WholeInv'
  <2>1. /\ worker[j] = "listing" /\ worker'[j] \in {"connecting", "copying"}
        /\ \A q \in JobIds \ {j} : worker'[q] = worker[q]
        /\ UNCHANGED <<request, at, target, met>>
    BY <1>0, <1>5 DEF List, TypeOK
  <2>2. PICK s \in [Files -> {"none", "pending", "failed"}] : outcome' = [outcome EXCEPT ![j] = s]
    BY <1>5, SelectionType DEF List
  <2>3. /\ \A q \in JobIds \ {j} : outcome'[q] = outcome[q]
        /\ \A g \in Files : outcome'[j][g] # "restored" /\ outcome[j][g] = "none"
    <3>1. outcome'[j] = s /\ \A q \in JobIds \ {j} : outcome'[q] = outcome[q]
      BY <1>0, <2>2 DEF TypeOK
    <3>2. \A g \in Files : s[g] # "restored"
      BY <2>2
    <3>3. \A g \in Files : outcome[j][g] = "none"
      BY <2>1 DEF WholeInv, OutcomeInv, OutcomeOf
    <3> QED
      BY <3>1, <3>2, <3>3
  <2>4. Meeting'
    BY <2>1, WorkKeepsMeeting DEF WholeInv, Working, AtWork
  <2>5. ASSUME NEW q \in JobIds, NEW g \in Files PROVE OwnFile(q, g)' /\ WholeFile(q, g)'
    <3>1. \A k \in JobIds : outcome[k][g] # "none" => outcome'[k][g] # "none"
      BY <2>3
    <3>2. outcome'[q][g] = "restored" => outcome[q][g] = "restored"
      BY <2>3
    <3>3. worker'[q] = "writing" => worker[q] = "writing"
      BY <2>1
    <3> QED
      BY <2>1, <3>1, <3>2, <3>3, FileIsLeft DEF WholeInv
  <2> QED
    BY <1>0, <2>4, <2>5 DEF WholeInv
<1>6. ASSUME NEW j \in JobIds, Fail(j) \/ Connect(j) \/ Finish(j) \/ CancelRestoreJob(j) PROVE WholeInv'
  <2>1. /\ worker' = worker \/ (Working(j) /\ \E w \in {"over", "copying"} : worker' = [worker EXCEPT ![j] = w])
        /\ UNCHANGED <<request, at, target, met, outcome>>
    BY <1>6 DEF Fail, Connect, Finish, CancelRestoreJob, Settle, work, Working, AtWork
  <2>2. /\ \A q \in JobIds : worker'[q] # worker[q] => q = j /\ Working(j) /\ worker'[j] \in {"over", "copying"}
        /\ worker \in [JobIds -> Stages]
    BY <1>0, <2>1 DEF TypeOK
  <2>3. Meeting'
    BY <2>1, <2>2, WorkKeepsMeeting DEF WholeInv, Working, AtWork
  <2>4. ASSUME NEW q \in JobIds, NEW g \in Files PROVE OwnFile(q, g)' /\ WholeFile(q, g)'
    BY <2>1, <2>2, FileIsLeft DEF WholeInv
  <2> QED
    BY <1>0, <2>3, <2>4 DEF WholeInv
<1>7. CASE Crash
  <2>1. \A q \in JobIds : /\ worker'[q] = IF worker[q] = "none" THEN "none" ELSE "lost"
                          /\ \A g \in Files : outcome'[q][g] = "none"
    BY <1>7 DEF Crash
  <2>2. Meeting'
    BY <2>1 DEF WholeInv, Meeting, Working, AtWork
  <2>3. ASSUME NEW q \in JobIds, NEW g \in Files PROVE OwnFile(q, g)' /\ WholeFile(q, g)'
    BY <2>1 DEF OwnFile, WholeFile
  <2> QED
    BY <1>0, <2>2, <2>3 DEF WholeInv
<1>8. CASE UNCHANGED vars
  <2>1. UNCHANGED <<worker, request, at, target, met, outcome>>
    BY <1>8 DEF vars, work
  <2>2. Meeting'
    BY <2>1, WorkKeepsMeeting DEF WholeInv, Working
  <2>3. ASSUME NEW q \in JobIds, NEW g \in Files PROVE OwnFile(q, g)' /\ WholeFile(q, g)'
    BY <2>1, FileIsLeft DEF WholeInv
  <2> QED
    BY <1>0, <2>2, <2>3 DEF WholeInv
<1> QED
  BY <1>1, <1>2, <1>3, <1>4, <1>5, <1>6, <1>7, <1>8 DEF Next, WorkerStep

\* A file that a job counts as restored holds what the snapshot holds, unless a
\* later job has opened it, or one that was at work at the same time had to do
\* with it (copyLocalFile, fetchSftpFile, processFiles).
THEOREM RestoredFilesHold == ASSUME RestoreAssumption PROVE Spec => []RestoredFilesAreWhole
<1>1. Init => WholeInv
  BY InitWholeInv
<1>2. WholeInv /\ [Next]_vars => WholeInv'
  BY NextWholeInv
<1>3. WholeInv => RestoredFilesAreWhole
  BY DEF WholeInv, WholeFile, Alone, WrittenLater, RestoredFilesAreWhole
<1> QED
  BY <1>1, <1>2, <1>3, PTL DEF Spec
=============================================================================
