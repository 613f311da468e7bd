------------------------------ MODULE SourceScan ------------------------------
(***************************************************************************)
(* What a run does before it stores anything: it sweeps the temp           *)
(* directory, stops the containers of its volume sources, scans the        *)
(* sources and dumps the databases, and starts the containers again        *)
(* (core/src/backup/orchestrator.ts, sources.ts and temp-sweep.ts,         *)
(* docker/manager.ts, database/*.ts).                                      *)
(*                                                                         *)
(* A step runs from one await to the next.  Two runs may be in progress:   *)
(* a scheduled one and a manual one.                                       *)
(***************************************************************************)
EXTENDS Naturals, Sequences, FiniteSets

CONSTANTS
    Runs,        \* the runs that may be in progress together
    Containers, Databases,
    Kind,        \* Kind[s]: 1 postgres, 2 postgres-container, 3 sqlite, 4 sqlite-container
    Holder,      \* Holder[s]: the container that s is dumped from, or None
    DumpName,    \* DumpName[s]: the file that s is dumped to
    Swept,       \* the names that isTempArtifact recognizes
    Plans,       \* the sources a config may list
    Switched,    \* the containers that their user stops and starts
    Faults, None

FaultKinds == {"stop", "scan", "dump", "start", "unlink", "crash"}

Names == {DumpName[s] : s \in Databases}

ASSUME ScanAssumption ==
    /\ Kind \in [Databases -> 1..4]
    /\ Holder \in [Databases -> Containers \union {None}]
    /\ \A s \in Databases : Holder[s] = None <=> Kind[s] \in {1, 3}
    /\ Swept \subseteq Names
    /\ \A p \in Plans : p.volumes \in Seq(Containers) /\ p.databases \subseteq Databases
    /\ Faults \subseteq FaultKinds /\ Switched \subseteq Containers

VARIABLES
    up,       \* the containers that run
    stage,    \* the stage of each run
    at,       \* the container, or the kind of database, that a run has got to
    plan,     \* the sources of each run
    dumping,  \* the dumps that are under way
    begun,    \* those that were begun: tempFiles
    dumped,   \* those that ended well: their files are among the run's paths
    temp,     \* the content of each file in the temp directory
    old,      \* the files that are older than MAX_AGE_HOURS
    \* History, to state the properties:
    wanted,   \* the containers that the user last left running
    stuck,    \* those that a run did not start again
    alone,    \* the runs that no other run was in progress next to
    left      \* the files that a crash, or a removal that failed, left behind

scan == <<up, stage, at, plan, dumping, begun, dumped, temp, old, wanted, stuck, alone, left>>

Fails(kind) == kind \in Faults
Volumes(r) == plan[r].volumes
Rest(list, i) == {list[k] : k \in i..Len(list)}

\* The files that cannot be removed, of those that are to be: cleanupTempFile and
\* removeArtifact log the error and go on to the next.
Refused(files) == IF Fails("unlink") THEN SUBSET files ELSE {{}}

ScanInit ==
    /\ up = Containers /\ wanted = Containers /\ stuck = {}
    /\ stage = [r \in Runs |-> "none"]
    /\ at = [r \in Runs |-> 0]
    /\ plan = [r \in Runs |-> [volumes |-> <<>>, databases |-> {}]]
    /\ dumping = [r \in Runs |-> {}]
    /\ begun = [r \in Runs |-> {}]
    /\ dumped = [r \in Runs |-> {}]
    /\ temp = [n \in Names |-> None] /\ old = {} /\ left = {}
    /\ alone = {}
-----------------------------------------------------------------------------
\* executeBackup up to its first await: sweepStaleTempFiles.
BeginRun(r, p) ==
    LET stale == {n \in old \intersect Swept : temp[n] # None} IN
    \E kept \in Refused(stale) :
    LET gone == stale \ kept IN
    /\ stage[r] = "none"
    /\ stage' = [stage EXCEPT ![r] = IF p.volumes = <<>> THEN "dumping" ELSE "stopping"]
    /\ at' = [at EXCEPT ![r] = IF p.volumes = <<>> THEN 0 ELSE 1]
    /\ plan' = [plan EXCEPT ![r] = p]
    /\ temp' = [n \in Names |-> IF n \in gone THEN None ELSE temp[n]]
    /\ old' = old \ gone /\ left' = left \ gone
    /\ alone' = IF \A q \in Runs : stage[q] = "none" THEN {r} ELSE {}
    /\ UNCHANGED <<up, dumping, begun, dumped, wanted, stuck>>

\* Mutation: when a container cannot be stopped, none is started again.
StopNextAlone(r) ==
    /\ stage[r] = "stopping"
    /\ \/ /\ up' = up \ {Volumes(r)[at[r]]}
          /\ IF at[r] < Len(Volumes(r))
               THEN at' = [at EXCEPT ![r] = @ + 1] /\ UNCHANGED <<stage, plan>>
               ELSE /\ stage' = [stage EXCEPT ![r] = "dumping"] /\ at' = [at EXCEPT ![r] = 0]
                    /\ UNCHANGED plan
       \/ /\ Fails("stop")
          /\ stage' = [stage EXCEPT ![r] = "dumping"]
          /\ at' = [at EXCEPT ![r] = 0]
          /\ plan' = [plan EXCEPT ![r].volumes = <<>>]
          /\ UNCHANGED up
    /\ UNCHANGED <<dumping, begun, dumped, temp, old, wanted, stuck, alone, left>>

\* stopBackupContainers: the first container that cannot be stopped leaves those
\* after it running, and the run goes on.
StopNext(r) ==
    /\ stage[r] = "stopping"
    /\ \/ /\ up' = up \ {Volumes(r)[at[r]]}
          /\ IF at[r] < Len(Volumes(r))
               THEN at' = [at EXCEPT ![r] = @ + 1] /\ UNCHANGED stage
               ELSE stage' = [stage EXCEPT ![r] = "dumping"] /\ at' = [at EXCEPT ![r] = 0]
       \/ /\ Fails("stop")
          /\ stage' = [stage EXCEPT ![r] = "dumping"]
          /\ at' = [at EXCEPT ![r] = 0]
          /\ UNCHANGED up
    /\ UNCHANGED <<plan, dumping, begun, dumped, temp, old, wanted, stuck, alone, left>>

\* The end of resolveSources, well or not: the finally of resolveBackupFiles.
Resolved(r) ==
    /\ stage' = [stage EXCEPT ![r] = IF Volumes(r) = <<>> THEN "storing" ELSE "starting"]
    /\ at' = [at EXCEPT ![r] = 1]

\* resolvePaths throws: a directory that cannot be read.
ScanThrows(r) ==
    /\ stage[r] = "dumping" /\ at[r] = 0 /\ Fails("scan")
    /\ Resolved(r)
    /\ UNCHANGED <<up, plan, dumping, begun, dumped, temp, old, wanted, stuck, alone, left>>

\* The dumps of all runs that write to the file n in the temp directory.  A dump
\* from a container is made inside it and copied out at its end.
Writers(n) ==
    {s \in UNION {dumping[q] : q \in Runs} : DumpName[s] = n /\ Holder[s] = None}
Kinds(r) == {k \in 1..4 : k > at[r] /\ \E s \in plan[r].databases : Kind[s] = k}

\* resolveSources takes the kinds of databases one after the other, and begins
\* all dumps of a kind at once (Promise.all); then it is done.
NextDumps(r) ==
    /\ stage[r] = "dumping" /\ dumping[r] = {}
    /\ \/ /\ Kinds(r) = {}
          /\ Resolved(r)
          /\ UNCHANGED <<dumping, begun, temp, old>>
       \/ \E k \in Kinds(r) : \E next \in SUBSET plan[r].databases :
            LET host(n) == {s \in next : DumpName[s] = n /\ Holder[s] = None} IN
            /\ \A j \in Kinds(r) : k <= j
            /\ next = {s \in plan[r].databases : Kind[s] = k}
            /\ at' = [at EXCEPT ![r] = k]
            /\ dumping' = [dumping EXCEPT ![r] = next]
            /\ begun' = [begun EXCEPT ![r] = @ \union next]
            /\ temp' = [n \in Names |->
                          IF host(n) = {} THEN temp[n]
                          ELSE IF Writers(n) = {} /\ Cardinality(host(n)) = 1 THEN "torn" ELSE "mixed"]
            /\ old' = {n \in old : host(n) = {}}
            /\ UNCHANGED stage
    /\ UNCHANGED <<up, plan, dumped, wanted, stuck, alone, left>>

Dumped(s) == IF temp[DumpName[s]] = "mixed" THEN "mixed" ELSE s

\* Mutation: the path of a dump is returned however it ended.
DumpEndsAnyhow(r, s) ==
    /\ s \in dumping[r]
    /\ dumping' = [dumping EXCEPT ![r] = @ \ {s}]
    /\ \/ /\ Holder[s] \in up \union {None}
          /\ temp' = [temp EXCEPT ![DumpName[s]] = IF Holder[s] = None THEN Dumped(s) ELSE s]
          /\ old' = old \ {DumpName[s]}
       \/ /\ Fails("dump") \/ Holder[s] \notin up \union {None}
          /\ UNCHANGED <<temp, old>>
    /\ dumped' = [dumped EXCEPT ![r] = @ \union {s}]
    /\ UNCHANGED <<up, stage, at, plan, begun, wanted, stuck, alone, left>>

\* A dump ends, well or with an error of the run and no path.  From a container
\* that does not run there is no dump.
DumpEnds(r, s) ==
    /\ s \in dumping[r]
    /\ dumping' = [dumping EXCEPT ![r] = @ \ {s}]
    /\ \/ /\ Holder[s] \in up \union {None}
          /\ temp' = [temp EXCEPT ![DumpName[s]] = IF Holder[s] = None THEN Dumped(s) ELSE s]
          /\ old' = old \ {DumpName[s]}
          /\ dumped' = [dumped EXCEPT ![r] = @ \union {s}]
       \/ /\ Fails("dump") \/ Holder[s] \notin up \union {None}
          /\ UNCHANGED <<temp, old, dumped>>
    /\ UNCHANGED <<up, stage, at, plan, begun, wanted, stuck, alone, left>>

\* startBackupContainers: the first container that cannot be started leaves
\* those after it as they are.
StartNext(r) ==
    LET c == Volumes(r)[at[r]] IN
    /\ stage[r] = "starting"
    /\ \/ /\ up' = up \union {c} /\ stuck' = stuck \ {c}
          /\ IF at[r] < Len(Volumes(r))
               THEN at' = [at EXCEPT ![r] = @ + 1] /\ UNCHANGED stage
               ELSE stage' = [stage EXCEPT ![r] = "storing"] /\ UNCHANGED at
       \/ /\ Fails("start")
          /\ stage' = [stage EXCEPT ![r] = "storing"]
          /\ stuck' = stuck \union (Rest(Volumes(r), at[r]) \ up)
          /\ UNCHANGED <<up, at>>
    /\ UNCHANGED <<plan, dumping, begun, dumped, temp, old, wanted, alone, left>>

\* Mutation: only the files of dumps that ended well are removed.
EndRunRemovingDumped(r) ==
    LET files == {DumpName[s] : s \in dumped[r]} IN
    /\ stage[r] = "storing"
    /\ stage' = [stage EXCEPT ![r] = "none"]
    /\ at' = [at EXCEPT ![r] = 0]
    /\ begun' = [begun EXCEPT ![r] = {}]
    /\ dumped' = [dumped EXCEPT ![r] = {}]
    /\ temp' = [n \in Names |-> IF n \in files THEN None ELSE temp[n]]
    /\ old' = old \ files /\ left' = left \ files
    /\ UNCHANGED <<up, plan, dumping, wanted, stuck, alone>>

\* The destinations are served, or the run has failed before: the finally of
\* executeRun, which removes the files of all dumps that were begun, as far as it can.
EndRun(r) ==
    LET files == {DumpName[s] : s \in begun[r]} IN
    \E kept \in Refused({n \in files : temp[n] # None}) :
    LET gone == files \ kept IN
    /\ stage[r] = "storing"
    /\ stage' = [stage EXCEPT ![r] = "none"]
    /\ at' = [at EXCEPT ![r] = 0]
    /\ begun' = [begun EXCEPT ![r] = {}]
    /\ dumped' = [dumped EXCEPT ![r] = {}]
    /\ temp' = [n \in Names |-> IF n \in gone THEN None ELSE temp[n]]
    /\ old' = old \ gone /\ left' = (left \ gone) \union kept
    /\ UNCHANGED <<up, plan, dumping, wanted, stuck, alone>>

ScanStep(r) ==
    \/ StopNext(r) \/ ScanThrows(r) \/ NextDumps(r) \/ StartNext(r)
    \/ \E s \in Databases : DumpEnds(r, s)
-----------------------------------------------------------------------------
\* The process ends, by a signal or a crash, and its runs with it.
ScanLost ==
    /\ stage' = [r \in Runs |-> "none"]
    /\ at' = [r \in Runs |-> 0]
    /\ dumping' = [r \in Runs |-> {}]
    /\ begun' = [r \in Runs |-> {}]
    /\ dumped' = [r \in Runs |-> {}]
    /\ stuck' = stuck \union {c \in Containers \ up :
                  \E r \in Runs : stage[r] # "none" /\ c \in Rest(Volumes(r), 1)}
    /\ left' = {n \in Names : temp[n] # None}
    /\ alone' = {}
    /\ UNCHANGED <<up, plan, temp, old, wanted>>

\* External: the user stops or starts a container.
UserSwitches(c) ==
    /\ IF c \in up THEN up' = up \ {c} /\ wanted' = wanted \ {c}
                   ELSE up' = up \union {c} /\ wanted' = wanted \union {c}
    /\ stuck' = stuck \ {c}
    /\ UNCHANGED <<stage, at, plan, dumping, begun, dumped, temp, old, alone, left>>

\* External: MAX_AGE_HOURS pass.  No run takes that long.
Ages(n) ==
    /\ n \in left \ old /\ \A r \in Runs : \A s \in begun[r] : DumpName[s] # n
    /\ old' = old \union {n}
    /\ UNCHANGED <<up, stage, at, plan, dumping, begun, dumped, temp, wanted, stuck, alone, left>>
-----------------------------------------------------------------------------
ScanTypeOK ==
    /\ up \subseteq Containers /\ wanted \subseteq Containers /\ stuck \subseteq Containers
    /\ stage \in [Runs -> {"none", "stopping", "dumping", "starting", "storing"}]
    /\ \A r \in Runs : /\ at[r] \in Nat /\ dumping[r] \subseteq begun[r]
                       /\ begun[r] \subseteq Databases /\ dumped[r] \subseteq begun[r]
    /\ temp \in [Names -> Databases \union {None, "torn", "mixed"}]
    /\ old \subseteq Names /\ left \subseteq Names /\ alone \subseteq Runs

\* A container that its user left running is down only while a run has stopped
\* it and is not past starting it again, or after a run could not start it, or
\* was lost before it could (resolveBackupFiles, startContainers).
ContainersComeBack ==
    \A c \in wanted \ up :
      \/ c \in stuck
      \/ \E r \in Runs : /\ stage[r] \in {"stopping", "dumping", "starting"}
                         /\ c \in Rest(Volumes(r), 1)

\* What a run that is alone backs up as the dump of a database is a whole dump
\* of it, unless another source of the run is dumped to a file of the same name
\* (dumpName, hostDumpName), and it lasts until the destinations are served.
DumpsAreTheirs ==
    \A r \in alone : \A s \in dumped[r] :
      \/ temp[DumpName[s]] = s
      \/ \E q \in begun[r] \ {s} : DumpName[q] = DumpName[s]

\* The temp directory holds the dumps of runs in progress, what a crash left behind and
\* the files that could not be removed when their run ended, and nothing else: a dump
\* that failed and a run that failed leave none of their files without trying to remove
\* each of them (tempFiles, cleanupTempFile).
NothingIsLeft ==
    \A n \in Names : temp[n] # None =>
      n \in left \/ \E r \in Runs : \E s \in begun[r] : DumpName[s] = n
=============================================================================
