# Verification of chest-backup

chest-backup stores files and database dumps at local and SFTP destinations on
a schedule or on request, keeps one folder per month or week at each
destination, restores from them, and shows all of it in a web interface through
an HTTP API. This directory holds TLA+ models of it, the TLC runs that check
them on small instances, and proofs checked by TLAPS.

Paths below are relative to the repository; `core/` is `packages/core/src/`,
`api/` is `packages/api/src/`, `web/` is `packages/web/src/`.

## 1. Inventory

| Component | State | Operations | Talks to |
|---|---|---|---|
| Run orchestration, `core/backup/orchestrator.ts` | locals of a run: errors, temp files, outcomes | `runBackup`: resolve, sequential then parallel destinations, notification, cleanup | everything below |
| Incremental mirror, `core/backup/incremental.ts`, `manifest.ts`, `core/destinations/*` | manifest file per destination and period; the mirror folder | stat, load, diff, digest, copy, delete, persist | file system, SFTP |
| Periods and retention, `core/backup/periods.ts`, `retention.ts`, `core/destinations/sftp-retention.ts` | period folders | key of a date, expired keys, removal | file system, SFTP |
| Sources and dumps, `core/backup/sources.ts`, `temp-sweep.ts`, `core/database/*`, `core/docker/manager.ts` | dumps in the temp directory; running containers | sweep, stop, scan, dump, start, remove | docker, databases |
| Scheduler and daemon, `core/scheduler/cron.ts`, `core/daemon.ts` | timer, the config read at the start | tick, run, next | clock, orchestration |
| Run registry, `api/lib/progress.ts`, `run-events.ts` | map of snapshots, order of the recent ones | start, event, complete, fail, active run | orchestration (callbacks), event bus |
| Run history, `api/lib/store/backups.ts` | `backup-history.json`, cache by mtime | add, read, compact, cap, seed | file system, config |
| Config, `core/config/loader.ts`, `api/lib/api-config.ts`, `api/lib/store/{config,sources,destinations,settings,exclusions}.ts` | the JSON file, its caches, the summary of exclusions, the daemon's copy | load, edit, reload | file system |
| Restore, `api/lib/store/restore.ts`, `core/restore/*` | jobs, abort controllers, the active job | start, cancel, progress, finish | SFTP, file system |
| Logs, `api/lib/store/logs.ts` | ring of entries, pending lines, timer, two files | add, flush, rotate, clear | file system |
| Event stream, `api/lib/event-bus.ts`, `api/routes/events.ts`, `web/hooks/*` | subscribers; the client's last run and progress | publish, connect, reconnect, poll | browser |
| Forms, `web/app/(dashboard)/*`, `web/hooks/use-new-source.tsx` | fields, the queries behind them, requests under way | edit, fetch, save | API |

Only one thread runs in the server, and one in the browser. Handlers interleave
at their `await`s; the file system, the destinations, docker, the clock and
edits by hand move at any time. The process may be killed at any time and is
started again by systemd (`chest-backup.service`, `Restart=on-failure`). There
are no unit tests, and the one end-to-end test (`e2e-ui/tests/ui.spec.ts`)
drives the dashboard through the good cases.

What makes each part correct, and what is hard about it:

- *Mirror.* The manifest is the only memory of what a destination holds, and a
  run trusts it without looking. It is written last, so every failure, crash or
  change of a source between stat and copy can put the two out of step.
- *Periods and retention.* Keys are sorted as strings, the ISO year is not the
  calendar year, and the current folder counts. A mistake deletes a snapshot.
- *Orchestration and registry.* Runs overlap (a manual one next to a scheduled
  one); destinations run in parallel; one that throws ends the run and leaves
  the others going; events arrive for runs that are settled or evicted.
- *Containers and dumps.* Each step may fail half way and the run goes on; two
  runs share the containers and the temp directory.
- *Scheduler.* Whatever a run does, there must be a next one.
- *History, log and config.* Files rewritten in place, caches edited before the
  write, timers that outlive what they were set for.
- *Restore.* Cancelling does not wait for the worker.
- *Client.* Answers come late, twice or not at all; the stream breaks.

`PROJECT.json` lists every component with its status, and every hazard with its
line.

## 2. The modules

| Module | Models | Uses |
|---|---|---|
| `Periods` | `periods.ts`, and the choice of folders in `retention.ts`, `sftp-retention.ts` | |
| `RetentionCalendar`, `MCRetentionCalendar`, `RetentionCalendarProofs` | the folders of one destination as days and settings change | `Periods` |
| `Incremental`, `MCIncremental`, `IncrementalProofs` | one destination's mirror and its runs | `Periods` |
| `RunRegistry` | the registry as a value, and its operations | |
| `RunLifecycle` | abstract: what a client may see of one run | |
| `BackupRuns`, `MCBackupRuns`, `BackupRunsProofs` | runs of the server over registry, history, dumps | `RunRegistry`; refines `RunLifecycle` |
| `SourceScan` | what a run does to containers and the temp directory | |
| `Daemon`, `MCDaemon`, `DaemonProofs` | the scheduler, manual runs, the process | `SourceScan` |
| `LogStore` | the log of the API server | |
| `HistoryStore` | the run history and its cache | |
| `ConfigStore`, `ConfigStoreProofs` | the config file, its editors and its readers | |
| `DataFiles`, `MCDataFiles`, `DataFilesProofs` | the three stores together | instances of the three |
| `RestoreLifecycle` | abstract: what a client may see of a restore job | |
| `RestoreJobs`, `RestoreJobsProofs` | the jobs and their workers | refines `RestoreLifecycle` |
| `RestorePage` | the restore page before the API's promise | `RestoreLifecycle` |
| `RunFeed` | the client's view of the runs: stream and polled progress | `RunLifecycle` |
| `EditForm` | the settings cards and the edit pages | |
| `SourceForm` | the form of a new source | |
| `WebClient`, `MCWebClient`, `WebClientProofs` | restore jobs and client together | instances of the five |

`DataFiles` and `WebClient` put components beside each other that share no
state; a behaviour is one of one of them, named by the variable `part`, so that
checking them costs the sum of their states and not the product. Where two do
meet, the meeting point is in the component: `HistoryStore` has
`configReadable`, for records that are hydrated from the config, and
`RestorePage` runs against `RestoreLifecycle`, which `RestoreJobs` is shown to
refine in the same run.

The assumptions on the constants of a component that is instantiated are a
definition (`RestoreAssumption`, `ConfigAssumption`, ...), which `WebClient` and
`DataFiles` assume, so that TLC evaluates it. `ConfigStoreProofs` and
`RestoreJobsProofs` prove their theorems about the component alone, with that
assumption as a hypothesis; `DataFilesProofs` and `WebClientProofs` show that a
behaviour of the composition is one of the component (`ConfigAlone`,
`JobsAlone`) and so carry them over, and prove the rest about the composition
itself.

### Incremental

| State | Code |
|---|---|
| `source`, `now`, `exclude` | the source files, the clock, the patterns in the config |
| `mirror`, `folders`, `manifest` | `<dest>/<period>/...`; `<tempDir>/.chest-manifests/<dest>/<period>.json` |
| `pc`, `outcome`, `period`, `ignored` | where the run is; skipped, success or failed; `periodKey`; its config's `exclude` |
| `seen`, `loaded`, `digest` | `current` and `manifest` in `prepareIncremental`; the digests read |
| `toUpload`, `toDelete`, `uploaded`, `deleted`, `failed`, `vanished` | the diff, and the result of the store |
| `unsynced`, `dropped`, `raced` | history variables, for the properties only |

A version of a source has a content, a size and an mtime (constants); a digest
is the content. `Resolve`, `Prepare`, `Diff`, `Open`, `Upload`, `Delete`,
`Close`, `Retain`, `Persist` and `Return` are the stages of
`processDestination` from one `await` to the next; each stage that can fail has
its failing action. `WriteSource`, `PeriodEnds` and `EditExclude` may come
between any two of them. The kinds of failure are a constant, `Faults`:

| Fault | In the code |
|---|---|
| `race` | a source changes between its stat and its copy |
| `dump` | a dump throws; its path is left out (`postgres.ts:97`) |
| `digest` | `digestFile` returns null |
| `open`, `close` | connecting or creating the folder throws; `sftp.end()` throws |
| `copy`, `tear` | a copy fails and the old copy stays, or is left half written |
| `delete` | a deletion is refused |
| `retention` | a folder is removed only in part |
| `persist` | `saveManifest` throws, before or after it truncated the file |
| `crash` | the process is killed |

`FingerprintAssumption` says that equal size and mtime mean equal content. The
code assumes this in `computeDiff` when it takes the mtime's word without the
digest, and it is what a file system gives unless an mtime is set by hand.

### RunRegistry, BackupRuns

| State | Code |
|---|---|
| `config`, `daemonConfig` | the destinations in the file now; `DaemonState.config` |
| `Place`, `Parallel`, `Name`, `Path` (constants) | the order of the destinations in the config, their `parallel`, names and paths |
| `pc`, `targets`, `job`, `troubled`, `result` | where a run is in `executeRun`; its destinations; where each is; `errors` not empty; how `executeBackup` ended |
| `registry` | `runs` and `recentOrder` of `progress.ts` |
| `ticking` | a timer is set and the previous scheduled run is over |
| `history` | the records in `backup-history.json` |
| `dump` | whose dump lies under the one name in the temp directory |
| `alone`, `lost` | history variables: runs that nothing overlapped; runs that were over when the history file was last lost |

`StartManual` is `POST /api/backups/run`, `StartScheduled` a tick of the
scheduler with the callbacks of `api-config.ts`. `Throws` is a
`persistManifest` that throws: it ends the run, and the other parallel
destinations go on (`CanBegin`). `SettleUnrecorded` is a history file that
cannot be written. `Record` reads the file before it writes it, and a file that
cannot be read, or whose records cannot be hydrated (fault `read`), is rewritten
with the one new record. `Crash` keeps only the files, and may cut off the
history that was being written, which then reads as empty.

An event is taken for the destination of the snapshot that has its id, else its
name, else its path (`FindDestination`); at the end each destination of the
snapshot gets the first result whose id, name or path matches its own
(`SettleDestinations`). Ids are unique, names and paths are not: of two
destinations with one name both get the first's outcome. A destination without
a name has its path for one (`Label`). `SettledRunTellsWhatHappened` says what
holds nevertheless.

`RunLifecycle` says that a run is unknown, then running, then has one final
status, and that once forgotten it does not come back. `BackupRuns` refines it
with `life` read off the registry (`LifeOf`).

Left out of `BackupRuns`: what a destination does with files (`Incremental`),
what resolving does with containers (`SourceScan`), and Discord messages.

### RetentionCalendar

`folders` are the period folders of one destination, `keep` and `mode` the
settings of the running configuration, `today` the day. `BackUp` is a store that
succeeded with the retention after it. Every error of retention is swallowed in
the code, so any expired folder may stay (`refused`): a removal is logged and
the loop goes on, a listing that fails reads as no folders, and what else is
thrown becomes an error of the run. `StoreFails` is a store that failed after it
made the folder, which returns before retention. `RetentionHolds` and
`OnlyTheOldestGo` speak of the folders but those refused: what failures let pile
up goes with the next retention that works.

### SourceScan, Daemon

| State | Code |
|---|---|
| `up` | the containers docker runs (external) |
| `stage`, `at`, `plan` | where a run is in `resolveBackupFiles`; the container or kind of database it has got to; the sources of the config it was given |
| `dumping`, `begun`, `dumped` | dumps under way; `tempFiles`; those whose path was returned |
| `temp`, `old` | `db-dump-*` and `sqlite-backup-*` in the temp directory; those past `MAX_AGE_HOURS` |
| `file`, `config` | the config file; `state.config` |
| `running`, `timer`, `day` | the process; the days until `setTimeout` fires; the clock |
| `wanted`, `stuck`, `alone`, `left` | history variables |

`BeginRun` sweeps the temp directory; `StopNext` and `StartNext` are one
container of the loops in `docker/manager.ts`; the sweep and `EndRun` may fail
to remove any of their files (fault `unlink`), which then stay in `left`; `NextDumps` begins all dumps of
one kind, as `Promise.all` does; `DumpEnds` is one of them; `EndRun` is the
`finally` of `executeRun`. The dumps of a kind that share a file name leave a
mixed file. Three details of the code that the model shows:

- The copies of container volumes are made after the containers have been
  started again, since `finally` is in `resolveBackupFiles` and the copying is
  not; a database whose container is also a volume source is dumped while that
  container is stopped, and so never.
- `startContainers` starts every listed container, one that its user had
  stopped before the run too.
- A dump whose file name has no extension that `isTempArtifact` knows is never
  swept after a crash (`Swept` is a constant).

`onTick`'s test of `running` and `isBackupRunning` with `runBackupNow` are not
in `Daemon`: the timer is set when a run is over, so a tick never meets a
scheduled run, and nothing calls `runBackupNow`. An edit of the schedule has
effect only at the next start (`config` and `file` are two variables), though
`contrib/aur/README.md:85` sends users to the web interface to manage it.

### LogStore, HistoryStore, ConfigStore

| State | Code |
|---|---|
| `logBuffer`, `pendingWrites`, `flushTimer`, `timers` | the variables of those names; the timers node holds, which `clearLogs` does not cancel |
| `logFile`, `logArchive`, `tornLine` | `logs.jsonl`, `logs.jsonl.1`; a write cut short |
| `historyFile`, `historyCache`, `fresh` | `backup-history.json`; `backupCache`; whether `backupCacheMtimeMs` is its mtime |
| `configReadable`, `settled` | whether hydrating a record throws; the runs that are over |
| `configFile`, `cached`, `cachedFresh` | the config; `cachedConfig`; whether its `mtime` is the file's |
| `server`, `active`, `activeFresh` | the state of `api-config.ts` |
| `exclusions` | the cached summary of `exclusions.ts` |
| `written`, `cleared`, `unsaved`, `dirty`, `elsewhere` | history variables |

A request to a store is one action, because its code is synchronous from the
reading to the write. `DiskFails` lets every write fail, before or after part
of it is in the file. `dirty` names the fields that an edit has changed in the
cached object when its write then failed; the code sends them with the next
edit. `EditByHand` writes any file, broken ones too. Reading the history
rewrites it (`Compact`).

### RestoreJobs, RestorePage

| State | Code |
|---|---|
| `jobs`, `active`, `job`, `aborted` | the map, `activeJobId`, status and phase of each job, its `AbortController` |
| `request` | what was asked for; `toRoot` if the target directory is "/" |
| `worker`, `at`, `outcome` | where `runRestore` is, the file it copies, its lists of results |
| `target` | the files at the target directory |
| `destId`, `periodKey`, `selected`, `dialog` | the state of `restore/page.tsx` |
| `pageSending`, `cancelling`, `shown`, `stale` | mutations under way; `activeJob` and whether its query is invalidated |
| `met` | history variable |

`List`, `Connect`, `OpenFile`, `CopyFile` and `Finish` are the worker from one
`await` to the next. `CancelRestoreJob` settles the job at once and leaves the
worker to notice it before the next file; a new job may start meanwhile, and
both may write the same file. A listing that is too slow is an empty listing.
`Asked` gives each job its possible requests.

An error of one file is that file's failure, unless it is that its target
escapes from the target directory: `toFailure`, which reports it, resolves the
target again and throws as well, and that ends the job (`Escapes`, `Fail`).
`targetPathFor` compares with the directory and a separator behind it, which is
"//" for "/", so that every file is taken to escape. The default of the page and
of the API is "/", and the page says of it "Leave as / to restore each file to
its original location." (`web/locales/en/translation.json:321`): such a job
fails at its first file and restores nothing. A relative path that is unsafe in
itself is not resolved again and is the file's own failure.

`RestoreLifecycle` says that one job runs at a time, that a settled job keeps
its status, except that one cancelled may turn out to have failed, and that a
forgotten job does not come back. The page sees the jobs only through it.

### RunFeed, EditForm, SourceForm

| State | Code |
|---|---|
| `wire`, `connected`, `streamRun`, `settledRunId`, `listed` | frames on the stream; state of `use-event-stream.ts`; the list of the activity page |
| `revived` | the failed runs whose phase a late destination has set back to "uploading" |
| `progress`, `lastSeen`, `progressStale`, `triggering` | the polled query of `hooks/queries/backups.ts` |
| `kind`, `saved`, `news`, `answer`, `cached`, `form`, `saving` | a settings card or an edit page: the values at the API, its other data, the query's answer under way, its data, the fields, the save under way |
| `type`, `value`, `dbTimer`, `dbAsked`, `databases`, ... | the state of `NewSourceFormProvider` and the hooks it uses |
| `missed`, `edited`, `meant`, `fetched`, `under` | history variables |

The client judges a run by its phase, and so does `RunFeed`: a run is in
progress (`Active`) while it runs, and again when it failed while other
destinations were at work and one of them starts late (`LateDestination`). Such
a run is shown in progress by the server and by every client, which is what
`active_run_after_throw` is about; `StreamIsTrue` says that the client shows
what the server does.

A card is filled by an effect each time its data change and can be saved before
it was filled; a page is shown when its data are there. The notifications may be
missing from the configuration (`DropNotifications`, an edit by hand): the
answer then has no `discord`, and the effect leaves the card as it was
(`settings/page.tsx:76`). After such an answer a save brings back the webhook
whose removal was fetched; `SavesWhatItShows` excepts this by name. A page leaves
an emptied `include` out of what it sends, and the API then keeps the old
patterns (`LeftOut`). A page whose type of source is changed is a new form and
not modelled. In `SourceForm` a
listing that is under way is not given up when the fields it was asked for
change: its answer is what the form then offers.

## 3. Runs

| Run | Instance | Properties |
|---|---|---|
| `mirror_all_faults` | one file, two versions of one size and different content and mtime, two periods, retention 1, SFTP, every fault | `TypeOK`, `ManifestSound`, `ReportedMeansStored`, `NeverInADroppedPeriod` |
| `mirror_converges` | a file and a dump, one period, eight faults that may end (not `digest`, `retention`, `race`) | `OnlyUnlistedCopiesGo`, `Converges` |
| `retention_calendar` | the days around a change of year, several retention values, three modes, failing stores, listings and removals | `WeekKeysFollowTheWeeks`, `RetentionHolds`, `OnlyTheOldestGo` |
| `run_of_many_destinations` | one manual run, two sequential and two parallel destinations, the latter unnamed with one path, every fault | `SettledRunTellsWhatHappened`, `OneAfterTheOther`, `LifecycleHolds`, `RunsSettle` |
| `overlapping_runs` | a manual and a scheduled run, a sequential and a parallel destination of one name, one snapshot and two records kept, crashes, failing stores, a history that cannot be read or written | `SettledRunTellsWhatHappened`, `ActiveRunShown`, `HistoryAgrees`, `DumpsStay`, `ScheduleGoesOn` |
| `daemon_runs` | a manual and a scheduled run, two containers, two databases with one dump name, three configs, every fault | `ContainersComeBack`, `DumpsAreTheirs`, `NothingIsLeft`, `ScheduleIsKept` |
| `data_files` | five log entries with room for three in memory and two per file, a history of two, two source paths, a disk that may fail | `NewestAreKept`, `MemoryIsTheTail`, `PendingIsWritten`, `RecordsGoByAge`, `ReadsShowTheFile`, `OnlyTheEditIsSaved`, `SourcesAreUnique`, `SummaryFollows` |
| `web_client` | three jobs, a local and an SFTP destination, two files, every fault, a target of "/"; the page with one job, the feed with two runs, two fields, four types of sources | `RunningIsActive`, `StatusTellsOutcome`, `RestoredFilesAreWhole`, `KeepsItsPromise`, `WorkersEnd`, `AsksForWhatIsListed`, `PageFollows`, `StreamIsTrue`, `SavesWhatItShows`, `SentAsChosen` |
| `skipped_means_latest` | violated, see below | `SkippedMeansLatest` |
| `active_run_after_throw` | violated, see below | `ActiveRunIsWorking` |
| `history_lost_by_reading` | violated, see below | `ReadsOnlyTrim` |
| `progress_never_ends` | violated, see below | `ProgressEnds` |

What each property says stands before it, in the module that states it.

### Bounds

- *Mirror.* Entries of different paths never meet in `computeDiff`,
  `NextManifest` or the copies, so one path shows what can happen to a path;
  the second path of `mirror_converges` is the other kind, a dump, and shows
  that one path's failure leaves the other alone. With it a file can be
  excluded while the run still has something to do, which is when a wrong
  deletion would happen. Its faults leave out `digest` (as if the content had
  changed), `retention` (one period) and `race` for the size of the instance.
  Two versions are what a stale entry needs; they have
  equal size so that mtime and digest are what tells them apart. Two periods
  with retention 1 make the first expire while its manifest stays.
- *Calendar.* `WeekKeysFollowTheWeeks` looks at ten years for each day, in which
  1 January falls on every weekday. The theorem is about every day from the
  second week of the epoch, 2024, on.
- *Runs.* Two sequential and two parallel destinations are what order,
  `Promise.all` and a late start need. A registry of one entry makes eviction
  happen with two runs, and a history of two lets a record be lost beside one
  that is new; the cap happens in `data_files`. A run id is used once, as in
  the code, so the number of runs bounds the behaviours and deadlock is not
  checked: when all runs are over the model stops.
- *Daemon.* Days count modulo `Cycle` = 4, and schedules of two and four days
  with `MaxDelay` = 2 have one on each side of the range of `setTimeout`. Files
  age (`Ages`) only when a crash has left them and no run writes them: no run
  lasts the 48 hours of the sweep. One container is switched by its user.
- *Stores.* Five entries overflow the memory and rotate the file twice;
  `MaxEdits` = 3 is one edit by hand between two of the server. When entries and
  edits are used up the model stops.
- *Jobs and client.* Three jobs are two that run together after a cancel and one
  that prunes another (`MaxJobs` = 2). The second writes the first's file or
  another that is there already, or asks for the root and for a file that its
  snapshot lacks. The page has one job, which it may start,
  cancel and lose; the promise that no two jobs run together is on the side of
  the jobs. `MaxWire` = 2 frames may be under way, a run ends in one way
  (`Ends`), since the client treats the others alike, and the data of a form
  change once without its values (`MaxNews`). Each server's listing is under
  way at most once in `SourceForm`.

Each module states its type invariant. Only `mirror_all_faults` lists it among
its properties; those of the other modules hold on the instances above and are
theorems, but for the two compositions.

### Exceptions

Some properties except by name what the code is known to get wrong, and show
that the damage stays there; that it happens at all they do not catch. The
hazards in `PROJECT.json` say which.

| Excepted | In | What the code does |
|---|---|---|
| `unsynced`, `raced`, `vanished` paths | `ManifestSound`, `ReportedMeansStored`, `Converges` | a path whose last touch went unrecorded, that changed or that went while it was copied |
| refused removals | `RetentionHolds`, `OnlyTheOldestGo` | logs them and goes on |
| results of another destination | `SettledRunTellsWhatHappened` | matches by id, name or path |
| `lost` runs | `HistoryAgrees` | rewrites a history it could not read, or that was cut off |
| runs not `alone` | `DumpsStay`, `DumpsAreTheirs` | gives the dumps of all runs the same names |
| `stuck` containers, those of a lost run | `ContainersComeBack` | stops at the first that does not start; starts none after a crash |
| `left` files | `NothingIsLeft` | logs a removal that failed; leaves all at a crash |
| schedules beyond `MaxDelay` | `ScheduleIsKept` | gives `setTimeout` a delay it cannot take |
| jobs that `met` | `RestoredFilesAreWhole` | lets a new job start beside a cancelled worker |
| a slow listing | `StatusTellsOutcome` | takes it for an empty one |
| `cleared` logs | `PendingIsWritten` | loses the timer |
| `unsaved` records, broken files | `ReadsShowTheFile`, `RecordsGoByAge` | keeps in the cache what could not be written; reads them as empty |
| `dirty` fields | `OnlyTheEditIsSaved` | edits the cached config before it is written |
| `missed` ends | `StreamIsTrue` | sends a client that reconnects nothing of a run that ended |
| an answer without `discord` | `SavesWhatItShows` | leaves the card as it was |

### Fairness

`FairSpec` of `Incremental` is weak fairness of the steps of a run, which
includes starting the next one (the schedule or a user does). `FairSpec` of
`BackupRuns` is weak fairness of the steps of each started run. Both say that
every `await` ends, by a result or an error. `FairSpec` of `WebClient` says it
of the workers of restore jobs, and that jobs are settled (which the workers
do) and the page polls; `FairFeedSpec`, for `progress_never_ends`, that runs
end, that the client polls and that a frame on an open stream arrives. `FairSpec` of
`DataFiles` says that a timer that was set fires. Starting a run or a job,
failures, the clock, writers, editors and the network are not fair. `Converges`
is conditional on the trouble ending (`TroubleEnds`): from some time on no
source, clock or pattern changes and nothing fails.

### Violations

- `skipped_means_latest`: an overwrite fails half way; the manifest keeps the
  entry of the copy that was there before; the source returns to that version;
  from then on every run skips the destination and says it has the latest
  backup (`core/daemon.ts:106`, `core/destinations/dispatcher.ts:109`), while
  its copy is torn. `ReportedMeansStored`, which holds, excepts such paths.
- `active_run_after_throw`: one parallel destination cannot write its manifest,
  `Promise.all` rejects, the run is settled; another destination is still
  computing its diff, and its `destination-start` then makes the settled run
  "uploading" for good. `GET /api/backups/active` is "The active run, or `null`"
  (README.md:86). `ActiveRunShown` in `overlapping_runs`, without that fault,
  holds.
- `history_lost_by_reading`: a history that does not parse, or whose records
  cannot be hydrated because the config is unreadable, reads as an empty list;
  `compactHistoryFile`, which "Rewrites the history file when trimming removed a
  meaningful amount of data" (`api/lib/store/backups.ts:97`), finds that list
  far shorter than the file and writes it. The disk does not fail in this run.
  `RecordsGoByAge`, which holds, is about files that can be read.
- `progress_never_ends`: `GET /api/backups/progress` is "The active (or last
  finished) run" (README.md:85), but answers null when no run is active, and
  the client keeps what it had. A run that ends between two polls is shown in
  progress until the next run, or the next load of the page.

## 4. Proofs

| Module | Theorem | Property |
|---|---|---|
| `IncrementalProofs` | `TypeCorrect` | `[]TypeOK` |
| | `NoRunInADroppedPeriod` | `[]NeverInADroppedPeriod` |
| | `ManifestTellsTheTruth` | `[]ManifestSound` |
| | `ReportsAreTrue` | `[]ReportedMeansStored` |
| | `NoCopyGoesUnasked` | `OnlyUnlistedCopiesGo` |
| `RetentionCalendarProofs` | `CalendarTypeCorrect` | `[]TypeOK` |
| | `WeeksHaveTheirKeys` | `[]WeekKeysFollowTheWeeks` |
| | `RetentionIsKept` | `RetentionHolds` |
| | `TheOldestFoldersGo` | `OnlyTheOldestGo` |
| `BackupRunsProofs` | `RunsTypeCorrect` | `[]TypeOK` |
| | `DestinationsTakeTurns` | `[]OneAfterTheOther` |
| | `LoneRunsKeepTheirDumps` | `[]DumpsStay` |
| | `SettledRunsAreTold` | `[]SettledRunTellsWhatHappened` |
| | `ActiveRunIsShown` | `[]ActiveRunShown` |
| | `HistoryAndRegistryAgree` | `[]HistoryAgrees` |
| | `RunsHaveTheirLifecycle` | `LifecycleHolds`, the refinement of `RunLifecycle` |
| `DaemonProofs` | `DaemonTypeCorrect` | `[]TypeOK` |
| | `EveryContainerComesBack` | `[]ContainersComeBack` |
| | `LoneRunsDumpWhole` | `[]DumpsAreTheirs` |
| | `TempIsAccountedFor` | `[]NothingIsLeft` |
| | `TheScheduleIsKept` | `ScheduleIsKept` |
| `RestoreJobsProofs` | `JobsTypeCorrect` | `[]TypeOK` |
| | `OnlyTheActiveJobRuns` | `[]RunningIsActive` |
| | `StatusIsTrue` | `[]StatusTellsOutcome` |
| | `RestoredFilesHold` | `[]RestoredFilesAreWhole` |
| | `JobsKeepTheirPromise` | `KeepsItsPromise`, the refinement of `RestoreLifecycle` |
| `WebClientProofs` | `ActiveJobRuns` | `[]RunningIsActive` |
| | `StatusTells` | `[]StatusTellsOutcome` |
| | `RestoredFilesAreOfTheSnapshot` | `[]RestoredFilesAreWhole` |
| | `JobsKeepWhatIsPromised` | `KeepsItsPromise` |
| | `PageAsksForWhatIsListed` | `[]AsksForWhatIsListed` |
| | `StreamShowsTheRuns` | `[]StreamIsTrue` |
| | `SavesOnlyWhatWasSeen` | `SavesWhatItShows` |
| | `NothingOfAnotherType` | `[]SentAsChosen` |
| `ConfigStoreProofs` | `NoPathTwice` | `[]SourcesAreUnique` |
| | `SummaryIsOfTheFile` | `[]SummaryFollows` |
| | `OnlyEditsAreSaved` | `OnlyTheEditIsSaved` |
| `DataFilesProofs` | `PathsAreListedOnce` | `[]SourcesAreUnique` |
| | `SummaryIsOfTheConfig` | `[]SummaryFollows` |
| | `RequestsSaveTheirEdit` | `OnlyTheEditIsSaved` |
| | `RotationDropsTheOldest` | `[]NewestAreKept` |
| | `MemoryHasTheTail` | `[]MemoryIsTheTail` |
| | `RecordsGoByTheirAge` | `RecordsGoByAge` |
| | `ReadsAreOfTheFile` | `ReadsShowTheFile` |
| | `HistoryHolds` | `[]HistoryInv`, on which the last two rest |

Each holds for every value of the constants that satisfies the assumptions of
its module: those stated with `ASSUME`, or, in `ConfigStoreProofs` and
`RestoreJobsProofs`, the hypothesis of the theorem. Two hypotheses are more than
that:

- `NoPathTwice` and `PathsAreListedOnce` are about a file that lists no path
  twice at the start (`ListedOnce`); the program does not repair one that does;
- `ActiveRunIsShown` is about destinations whose manifests can be written (no
  fault `throw`); `active_run_after_throw` shows that it is false without that.

Each proof is of an inductive invariant, one step per action, and the temporal
theorems combine that with the initial states.

- *Mirror.* `ManifestSound` is not inductive: at `Persist` one must know that
  what is recorded as uploaded was stored as it was seen, that a deleted path
  is gone, and that what the run did not touch is as `loaded` says. `IInv` adds
  `TypeInv`; `PeriodsInOrder`: no folder is later than the clock, every dropped
  folder is earlier, and while a run works the same holds for its period; and
  `RunInv`, eight facts about the run in progress: `LoadedNow` (the manifest
  file is still what was loaded), `FreshSeen` (unless raced, a listed source is
  as its stat said until it is copied), `DigestsRead`, `UploadedStored`,
  `DeletedGone`, `OncePerFile` (nothing is both waiting and done, and nothing
  excluded waits for deletion), `LeftAlone` (a listed file that is on no list
  was found unchanged), `OutcomeFits`.
- *Calendar.* `CalendarInv` says that no folder is later than the day's own, in
  its kind; otherwise retention could remove the folder just written. It
  needs keys that never go back: a year is 365 or 366 days (`LengthOfYear`,
  from the leap years counted as a set), every day has one year (`YearOfDay`; a
  least year exists because finite sets of numbers have a least element,
  `Smallest`), and the week of a day is named by its Thursday
  (`KeyOfItsThursday`, `NextThursday`), which is what holds at a change of
  year. `KeptAreNewer` and `KeptAreCounted` are what `SelectExpiredPeriodKeys`
  leaves: the newest, and as many as it is asked for or all.
- *Runs.* `RunsInv` says that no destination is begun before its run stores
  (`NoneYet`), and that one is begun only when those before it have ended
  (`InOrder`). `DumpInv` adds that no other run works beside a run that is
  alone, and that the dump is its own while it stores. `EndInv` is what the
  result of a run says of its destinations: all have ended if it was built, and
  one is still served only if it failed. `RegistryInv`: the runs of the registry
  are those of its list, and one is shown as running while it works, and not
  after. From these, `TellInv`: what the registry tells of a run stays true of
  it, also when a late event of a destination reaches a settled run.
  `PhaseInv` is `ActiveRunShown` run by run. `HistoryInv` adds to
  `HistoryAgrees` that only runs that are over have records, and how many.
  `RunsHaveTheirLifecycle` shows that each step starts, settles or forgets runs
  of `RunLifecycle`, or leaves them as they are.
- *Daemon.* `TypeInv` with `AtOK` and `DumpsFollow` (`DaemonInv`) says what `at`,
  `begun`, `dumping` and `dumped` are at each stage of a run. `BackInv` sharpens
  the property: while a run starts containers, those it will still start are
  the rest of its list from `at` on. `AloneInv` adds to the property the dumps
  still under way, which have not been mixed with another's. `ClockInv` says
  that a timer that is set fires on a day of the schedule: the day and the
  delay add up to a multiple of `every` (`Due`), which survives `DayPasses`
  because `every` divides `Cycle`; the lemmas on `%` give the products the
  solver does not find.
- *Jobs.* `JobInv` ties the job as shown to its worker (`StatusFollowsWorker`):
  while the worker is at work the job is running, or cancelled if it was
  aborted, and a job without a worker is not known. `OutcomeInv` adds what the
  outcomes are at each stage of the worker and for each final status. The
  refinement needs only `JobInv`: each action starts, settles, forgets or leaves
  alone a job of `RestoreLifecycle`. `WholeInv` is for the files: jobs that are
  at work together have met (`Meeting`), so that a job which met no other at a
  file finds there what it wrote (`OwnFile`), until a later job opens it
  (`WholeFile`).
- *Page and forms.* `SelectionIsListed`: what is selected is in the chosen
  snapshot, unless the destination is the preselected one. `FormInv`: a field of
  the form that was not edited shows the data, if these have values, and what is
  being sent was such a form. `ChosenForType`: a field of a type holds what was chosen for this type.
- *Feed.* `FeedInv`: a run that is shown in progress is so at the server, or its
  end was missed while the stream was down, or its end is among the frames
  behind; ends on the wire are of runs that are over; and the client's list has
  no settled run as running. `StreamIsTrue` is what that says of an empty wire.
- *Config.* `StoreInv`: the file and the cache are sound; a cache with the mtime
  of the file has the fields of the file, but for those whose edit failed to be
  written (`dirty`); and the summary is about the file's patterns.
- *Log.* `LogInv`: archive, file, batch and memory are in the order of the
  entries, each after the one before; rotation and a write cut anywhere keep
  that (`RotateKeeps`, `AppendLinesKeeps`). `MemoryInv`: what memory lacks of
  the files or the batch is older than what it has, and it is full then.
- *History.* `HistoryInv`: file and cache are newest first, and a cache that is
  fresh differs from the file only by records that could not be saved.

TLC checks each property on its run as well. Only model-checked:

- liveness, which is out of the prover's reach: `Converges`, `RunsSettle`,
  `ScheduleGoesOn`, `WorkersEnd`, `PageFollows`, `PendingIsWritten`. Every
  invariant and every action property of the passing runs is proved;
- the type invariants of `DataFiles` and `WebClient` as a whole, of which the
  invariants above have the parts they need.

## 5. Not modelled

- Runs that overlap at one destination, with one manifest between them:
  `Incremental` has one run at a time. `BackupRuns` and `Daemon` have overlapping
  runs, but not their mirrors.
- Glob matching, digests' masking of volatile bytes, byte counts and durations,
  time zones.
- An edit of the config between the load and the stat of `api-config.ts` is in
  `ConfigStore`, but no property says that it is seen: the code does not promise
  it.
- `cron-parser`, docker, `pg_dump`, SFTP and the file system are external, and
  modelled by what the code expects of them. Retries of a single SFTP upload are
  one failing action: nothing is recorded between them.
- Discord messages, disk usage, system information, the command line,
  packaging: output or wiring that no state depends on. Archive verification
  (`core/backup/verify.ts`) is called from nowhere.
- Lists, tables, filters and layout of the web interface, and the page of a new
  destination, which asks for nothing and sends what was typed.

## 6. What could come next

`OverlappingMirrors`, two runs at one destination with load and persist as the
shared steps and retention at a change of period; and the type invariants of the
two compositions as theorems, whose own invariants now carry only the part of it
they need.
