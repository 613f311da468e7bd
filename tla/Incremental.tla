----------------------------- MODULE Incremental -----------------------------
(***************************************************************************)
(* The incremental mirror of one destination: processDestination of        *)
(* packages/core/src/backup/orchestrator.ts with incremental.ts,           *)
(* manifest.ts, destinations/dispatcher.ts, local.ts and sftp.ts.          *)
(*                                                                         *)
(* Each period has a folder at the destination (the mirror) and, in the    *)
(* temp directory, a manifest of what was stored there.  A run resolves    *)
(* the source files, compares their size, mtime and digest with the        *)
(* manifest, copies and deletes the differences, applies retention and     *)
(* only then writes the manifest back.  Sources change at any moment.      *)
(*                                                                         *)
(* Data abstraction.  A source file is in one of a set of Versions; a      *)
(* version has a content, a size and an mtime.  Two contents are equal if  *)
(* they are equal up to the volatile bytes that digest.ts leaves out, so   *)
(* the digest of a file is its content.                                    *)
(*                                                                         *)
(* One run at a time: what two overlapping runs do to the manifest is not  *)
(* the subject of this module.                                             *)
(***************************************************************************)
EXTENDS Periods

CONSTANTS
    Paths,          \* the source paths, database dumps included
    Dumps,          \* the paths that are dumps a run makes in the temp directory
    Versions, Contents,
    ContentOf, SizeOf, MtimeOf,  \* functions on Versions
    LastPeriod,     \* bounds the clock: periods are 1..LastPeriod
    Retention, Mode,             \* config.retention and config.retentionMode
    Excludable,     \* the paths the exclude patterns of an edited config may match
    Sftp,           \* TRUE for an SFTP destination, FALSE for a local one
    Faults,         \* the kinds of failure the environment may cause
    Absent, Torn, NoEntry, NoDigest

FaultKinds ==
    { "race"       \* a source is written between its stat and its copy
    , "dump"       \* a database dump fails
    , "digest"     \* a file cannot be read for its digest
    , "open"       \* connecting, or creating the period folder, fails
    , "copy"       \* a copy fails and leaves the old copy
    , "tear"       \* a copy fails, or a crash interrupts it, half written
    , "delete"     \* a deletion is refused
    , "close"      \* closing the SFTP connection fails
    , "retention"  \* an expired folder is removed only in part
    , "persist"    \* writing the manifest fails
    , "crash" }    \* the process is killed

ASSUME IncrementalAssumption ==
    /\ Dumps \subseteq Paths /\ Excludable \subseteq Paths
    /\ ContentOf \in [Versions -> Contents]
    /\ SizeOf \in [Versions -> Nat]
    /\ MtimeOf \in [Versions -> Nat]
    /\ LastPeriod \in Nat \ {0}
    /\ Retention \in Nat
    /\ Sftp \in BOOLEAN
    /\ Faults \subseteq FaultKinds
    /\ Absent \notin Versions \union Contents
    /\ Torn \notin Contents /\ Torn # Absent
    /\ NoDigest \notin Contents

\* What computeDiff trusts: an equal size and mtime mean an equal content, and
\* contents of equal digest have equal size.
ASSUME FingerprintAssumption ==
    \A v, w \in Versions :
      SizeOf[v] = SizeOf[w] /\ MtimeOf[v] = MtimeOf[w] => ContentOf[v] = ContentOf[w]

Periods == 1..LastPeriod
Copies  == Contents \union {Absent, Torn}
\* { size, mtimeMs, digest } of a manifest: the version whose stat was taken
\* stands for the first two.
Entries == [stat : Versions, digest : Contents \union {NoDigest}]
ASSUME NoEntryAssumption == NoEntry \notin Entries

VARIABLES
    source,     \* the version of each source path now, or Absent
    now,        \* the current period
    exclude,    \* the excluded paths in the config file now
    mirror,     \* the copies in each period's folder
    folders,    \* the period folders that exist
    manifest,   \* the manifest file of each period
    \* The run in progress:
    pc, outcome, period, ignored, seen, loaded, digest,
    toUpload, toDelete, uploaded, deleted, failed, vanished,
    \* History, to state the properties:
    unsynced,   \* per period: paths whose copy was touched after their entry was last written
    dropped,    \* the period folders retention has removed
    raced       \* the paths whose source was written between stat and copy in this run

world  == <<source, now, exclude>>
disk   == <<mirror, folders, manifest>>
diff   == <<ignored, seen, loaded, digest>>
todo   == <<toUpload, toDelete>>
result == <<uploaded, deleted, failed, vanished>>
ghosts == <<unsynced, dropped, raced>>
run    == <<pc, outcome, period, diff, todo, result>>
vars   == <<world, disk, run, ghosts>>

NoFiles == [p \in Paths |-> Absent]
Blank   == [p \in Paths |-> NoEntry]

\* The local variables of a run that is not there.
NoRun ==
    /\ pc = "idle" /\ outcome = "none" /\ period = 1 /\ ignored = {}
    /\ seen = NoFiles /\ loaded = Blank /\ digest = [p \in Paths |-> NoDigest]
    /\ toUpload = {} /\ toDelete = {}
    /\ uploaded = {} /\ deleted = {} /\ failed = {} /\ vanished = {}
    /\ raced = {}

Init ==
    /\ source \in [Paths -> Versions \union {Absent}]
    /\ now = 1
    /\ exclude \in SUBSET Excludable
    /\ mirror = [k \in Periods |-> NoFiles]
    /\ folders = {}
    /\ manifest = [k \in Periods |-> Blank]
    /\ NoRun
    /\ unsynced = [k \in Periods |-> {}]
    /\ dropped = {}

Fails(kind) == kind \in Faults
-----------------------------------------------------------------------------
(***************************************************************************)
(* The surroundings.                                                       *)
(***************************************************************************)
\* The paths of which the run has taken the stat but not made the copy.
Exposed ==
    IF pc = "diffing" THEN {p \in Paths \ Dumps : seen[p] # Absent}
    ELSE IF pc \in {"opening", "storing"} THEN toUpload \ Dumps ELSE {}

\* A file, or the database behind a dump, is written, restored or removed.
WriteSource(p, v) ==
    /\ source[p] # v
    /\ p \in Exposed => Fails("race")
    /\ source' = [source EXCEPT ![p] = v]
    /\ raced' = IF p \in Exposed THEN raced \union {p} ELSE raced
    /\ UNCHANGED <<now, exclude, disk, run, unsynced, dropped>>

PeriodEnds ==
    /\ now < LastPeriod
    /\ now' = now + 1
    /\ UNCHANGED <<source, exclude, disk, run, ghosts>>

EditExclude(p) ==
    /\ exclude' = IF p \in exclude THEN exclude \ {p} ELSE exclude \union {p}
    /\ UNCHANGED <<source, now, disk, run, ghosts>>
-----------------------------------------------------------------------------
(***************************************************************************)
(* The run.                                                                *)
(***************************************************************************)
\* What a read of path p finds: a dump no longer changes once it is made.
FileNow(p) == IF p \in Dumps THEN seen[p] ELSE source[p]
Files == {p \in Paths : seen[p] # Absent}

\* digestFile: the content, less the bytes that change with every dump (the
\* headers it skips, the nonces it masks), or none where there is no file.
DigestOf(p) == IF FileNow(p) # Absent THEN ContentOf[FileNow(p)] ELSE NoDigest

\* executeBackup up to resolveBackupFiles.  The exclude patterns are applied to
\* the files found, and the dumps are added after; a dump that fails is left
\* out.  Without any file the run ends here (buildEmptyResult).
Resolve ==
    /\ pc = "idle"
    /\ \E failing \in IF Fails("dump") THEN SUBSET Dumps ELSE {{}} :
         seen' = [p \in Paths |-> IF p \in (exclude \ Dumps) \union failing
                                    THEN Absent ELSE source[p]]
    /\ period' = now
    /\ ignored' = exclude
    /\ IF seen' = NoFiles THEN pc' = "done" /\ outcome' = "failed"
                          ELSE pc' = "resolved" /\ outcome' = "none"
    /\ UNCHANGED <<world, disk, loaded, digest, todo, result, ghosts>>

\* prepareIncremental up to its first await: buildFileStats and loadManifest.
Prepare ==
    /\ pc = "resolved"
    /\ seen' = [p \in Paths |-> IF p \in Files THEN FileNow(p) ELSE Absent]
    /\ loaded' = manifest[period]
    /\ pc' = "diffing"
    /\ UNCHANGED <<world, disk, outcome, period, ignored, digest, todo, result, ghosts>>

\* A dump is made anew by each run, so its mtime is always new.
SameMtime(p, v, w) == p \notin Dumps /\ MtimeOf[v] = MtimeOf[w]

\* Mutation: an equal size is enough.
UnchangedBySize(p, entry, d) == entry # NoEntry /\ SizeOf[entry.stat] = SizeOf[seen[p]]

\* computeDiff for one file: the size, then the mtime or the digest.
Unchanged(p, entry, d) ==
    /\ entry # NoEntry
    /\ SizeOf[entry.stat] = SizeOf[seen[p]]
    /\ \/ SameMtime(p, entry.stat, seen[p])
       \/ entry.digest # NoDigest /\ d = entry.digest

\* Mutations: files the run listed, or excluded files, are deleted too.
AllEntries == {p \in Paths : loaded[p] # NoEntry /\ p \notin ignored}
StaleEntriesExcludedToo == {p \in Paths \ Files : loaded[p] # NoEntry}

\* The paths computeDiff finds in the manifest only, less the excluded ones.
StaleEntries == {p \in Paths \ Files : loaded[p] # NoEntry /\ p \notin ignored}

\* computeDiff and stampDigests, then the test with which storeToDestination
\* skips the destination.  All digests are read in one step: no property
\* relates the digests of two files.
Diff ==
    /\ pc = "diffing"
    /\ \E unread \in IF Fails("digest") THEN SUBSET Paths ELSE {{}} :
         digest' = [p \in Paths |-> IF p \in Files \ unread THEN DigestOf(p) ELSE NoDigest]
    /\ toUpload' = {p \in Files : ~Unchanged(p, loaded[p], digest'[p])}
    /\ toDelete' = StaleEntries
    /\ IF toUpload' = {} /\ toDelete' = {}
         THEN pc' = "done" /\ outcome' = "skipped"
         ELSE pc' = "opening" /\ outcome' = "none"
    /\ UNCHANGED <<world, disk, period, ignored, seen, loaded, result, ghosts>>

\* storeLocalIncremental and storeSftpIncremental create the period folder.
Open ==
    /\ pc = "opening"
    /\ folders' = folders \union {period}
    /\ pc' = "storing"
    /\ UNCHANGED <<world, mirror, manifest, outcome, period, diff, todo, result, ghosts>>

\* The connection or the folder fails: handleDestination reports a failure
\* without any uploaded or deleted path.
OpenFails ==
    /\ pc = "opening" /\ Fails("open")
    /\ pc' = "persisting" /\ outcome' = "failed"
    /\ toUpload' = {} /\ toDelete' = {}
    /\ UNCHANGED <<world, disk, period, diff, result, ghosts>>

SetCopy(p, c) ==
    /\ mirror' = [mirror EXCEPT ![period][p] = c]
    /\ unsynced' = [unsynced EXCEPT ![period] = @ \union {p}]

\* One file of uploadFiles; the local copies run side by side, and no property
\* depends on the order of the SFTP ones.
Upload(p) ==
    /\ pc = "storing" /\ p \in toUpload
    /\ FileNow(p) # Absent
    /\ SetCopy(p, ContentOf[FileNow(p)])
    /\ toUpload' = toUpload \ {p}
    /\ uploaded' = uploaded \union {p}
    /\ UNCHANGED <<world, folders, manifest, pc, outcome, period, diff, toDelete, deleted, failed,
                   vanished, dropped, raced>>

\* ENOENT: the source is gone.  Not a failure of the destination.
UploadVanished(p) ==
    /\ pc = "storing" /\ p \in toUpload
    /\ FileNow(p) = Absent
    /\ toUpload' = toUpload \ {p}
    /\ vanished' = vanished \union {p}
    /\ UNCHANGED <<world, disk, pc, outcome, period, diff, toDelete, uploaded, deleted, failed, ghosts>>

\* The copy fails; over SFTP after MAX_UPLOAD_ATTEMPTS attempts.  Whether the
\* source is still there does not matter then.
UploadFails(p) ==
    /\ pc = "storing" /\ p \in toUpload
    /\ \/ Fails("copy") /\ UNCHANGED <<mirror, unsynced>>
       \/ Fails("tear") /\ SetCopy(p, Torn)
    /\ toUpload' = toUpload \ {p}
    /\ failed' = failed \union {p}
    /\ UNCHANGED <<world, folders, manifest, pc, outcome, period, diff, toDelete, uploaded, deleted,
                   vanished, dropped, raced>>

\* One file of deleteFiles, which starts when every upload has ended.
Delete(p) ==
    /\ pc = "storing" /\ toUpload = {} /\ p \in toDelete
    /\ mirror[period][p] # Absent
    /\ SetCopy(p, Absent)
    /\ toDelete' = toDelete \ {p}
    /\ deleted' = deleted \union {p}
    /\ UNCHANGED <<world, folders, manifest, pc, outcome, period, diff, toUpload, uploaded, failed,
                   vanished, dropped, raced>>

\* deleteFileSafe and deleteRemoteFile return null on any error, "not found"
\* included: the path is not among the deleted ones and stays in the manifest.
DeleteFails(p) ==
    /\ pc = "storing" /\ toUpload = {} /\ p \in toDelete
    /\ mirror[period][p] = Absent \/ Fails("delete")
    /\ toDelete' = toDelete \ {p}
    /\ UNCHANGED <<world, disk, pc, outcome, period, diff, toUpload, result, ghosts>>

\* The store result: a success iff no upload failed.  Retention follows a success.
Close ==
    /\ pc = "storing" /\ toUpload = {} /\ toDelete = {}
    /\ IF failed = {} THEN pc' = "retaining" /\ outcome' = "success"
                      ELSE pc' = "persisting" /\ outcome' = "failed"
    /\ UNCHANGED <<world, disk, period, diff, todo, result, ghosts>>

\* sftp.end() throws in the finally block: the result is lost, and
\* handleDestination reports a failure without any uploaded or deleted path.
CloseFails ==
    /\ pc = "storing" /\ toUpload = {} /\ toDelete = {}
    /\ Sftp /\ Fails("close")
    /\ uploaded' = {} /\ deleted' = {}
    /\ pc' = "persisting" /\ outcome' = "failed"
    /\ UNCHANGED <<world, disk, period, diff, todo, failed, vanished, ghosts>>

\* applyRetention: a folder that cannot be removed whole stays, with any part
\* of its files gone.
Retain ==
    /\ pc = "retaining"
    /\ LET expired == ExpiredFolders(Mode, folders, Retention, period)
       IN  \E stuck \in IF Fails("retention") THEN SUBSET expired ELSE {{}},
              gone \in IF Fails("retention") THEN SUBSET Paths ELSE {{}} :
             /\ folders' = folders \ (expired \ stuck)
             /\ mirror' = [k \in Periods |->
                             [p \in Paths |->
                                IF k \in expired \ stuck \/ (k \in stuck /\ p \in gone)
                                  THEN Absent ELSE mirror[k][p]]]
             /\ dropped' = dropped \union expired
    /\ pc' = "persisting"
    /\ UNCHANGED <<world, manifest, outcome, period, diff, todo, result, unsynced, raced>>

\* Mutations: the deleted paths stay; every file of the run is recorded.
NextManifestKeepingDeleted ==
    [p \in Paths |->
       IF p \in uploaded THEN [stat |-> seen[p], digest |-> digest[p]] ELSE loaded[p]]
NextManifestOfAllFiles ==
    [p \in Paths |->
       IF p \in deleted THEN NoEntry
       ELSE IF p \in Files THEN [stat |-> seen[p], digest |-> digest[p]]
       ELSE loaded[p]]

\* persistManifest: updateManifest, then removeDeletedFromManifest, on the
\* manifest that was loaded before the upload.
NextManifest ==
    [p \in Paths |->
       IF p \in deleted THEN NoEntry
       ELSE IF p \in uploaded THEN [stat |-> seen[p], digest |-> digest[p]]
       ELSE loaded[p]]

Persist ==
    /\ pc = "persisting"
    /\ manifest' = [manifest EXCEPT ![period] = NextManifest]
    /\ unsynced' = [unsynced EXCEPT ![period] =
                      (@ \ (uploaded \union deleted)) \union (uploaded \intersect raced)]
    /\ pc' = "done"
    /\ UNCHANGED <<world, mirror, folders, outcome, period, diff, todo, result, dropped, raced>>

\* A manifest file that is missing a part does not parse, and loadManifest then
\* returns an empty one.
TruncateManifest ==
    /\ manifest' = [manifest EXCEPT ![period] = Blank]
    /\ unsynced' = [unsynced EXCEPT ![period] = Paths]

\* saveManifest throws (a full disk), before or after it truncated the file.
PersistFails ==
    /\ pc = "persisting" /\ Fails("persist")
    /\ TruncateManifest \/ UNCHANGED <<manifest, unsynced>>
    /\ pc' = "done" /\ outcome' = "failed"
    /\ UNCHANGED <<world, mirror, folders, period, diff, todo, result, dropped, raced>>

EndOfRun ==
    /\ pc' = "idle" /\ outcome' = "none" /\ period' = 1 /\ ignored' = {}
    /\ seen' = NoFiles /\ loaded' = Blank /\ digest' = [p \in Paths |-> NoDigest]
    /\ toUpload' = {} /\ toDelete' = {}
    /\ uploaded' = {} /\ deleted' = {} /\ failed' = {} /\ vanished' = {}
    /\ raced' = {}

Return ==
    /\ pc = "done"
    /\ EndOfRun
    /\ UNCHANGED <<world, disk, unsynced, dropped>>

\* The process is killed; systemd starts it again.  The copies in flight are
\* torn: any of the local ones, at most one over SFTP.  A manifest that was
\* being written is truncated.  A retention that was interrupted is a Retain
\* that leaves folders in part, with the crash after it.
Crash ==
    /\ pc \notin {"idle", "done"} /\ Fails("crash")
    /\ \/ /\ pc = "persisting"
          /\ TruncateManifest
          /\ UNCHANGED mirror
       \/ \E torn \in SUBSET (IF pc = "storing" /\ Fails("tear") THEN toUpload ELSE {}) :
            /\ Sftp => \A p, q \in torn : p = q
            /\ mirror' = [mirror EXCEPT ![period] =
                            [p \in Paths |-> IF p \in torn THEN Torn ELSE @[p]]]
            /\ unsynced' = [unsynced EXCEPT ![period] = @ \union torn]
            /\ UNCHANGED manifest
    /\ EndOfRun
    /\ UNCHANGED <<world, folders, dropped>>
-----------------------------------------------------------------------------
Environment ==
    \/ \E p \in Paths, v \in Versions \union {Absent} : WriteSource(p, v)
    \/ PeriodEnds
    \/ \E p \in Excludable : EditExclude(p)

\* The steps of a run that meets no failure.
Progress ==
    \/ Resolve \/ Prepare \/ Diff \/ Open
    \/ \E p \in Paths : Upload(p) \/ UploadVanished(p) \/ Delete(p)
    \/ \E p \in Paths : DeleteFails(p)
    \/ Close \/ Retain \/ Persist \/ Return

Failure ==
    \/ OpenFails \/ CloseFails \/ PersistFails \/ Crash
    \/ \E p \in Paths : UploadFails(p)

Next == Environment \/ Progress \/ Failure

Spec == Init /\ [][Next]_vars

\* Nothing promises that the clock moves on, that a source settles or that a
\* failure ends; the event loop does promise that a run goes on.
FairSpec == Spec /\ WF_vars(Progress)
-----------------------------------------------------------------------------
TypeOK ==
    /\ source \in [Paths -> Versions \union {Absent}]
    /\ now \in Periods
    /\ exclude \subseteq Excludable
    /\ mirror \in [Periods -> [Paths -> Copies]]
    /\ folders \subseteq Periods
    /\ manifest \in [Periods -> [Paths -> Entries \union {NoEntry}]]
    /\ pc \in {"idle", "resolved", "diffing", "opening", "storing", "retaining", "persisting", "done"}
    /\ outcome \in {"none", "skipped", "success", "failed"}
    /\ period \in Periods
    /\ ignored \subseteq Excludable
    /\ seen \in [Paths -> Versions \union {Absent}]
    /\ loaded \in [Paths -> Entries \union {NoEntry}]
    /\ digest \in [Paths -> Contents \union {NoDigest}]
    /\ toUpload \subseteq Files
    /\ toDelete \subseteq Paths \ Files
    /\ uploaded \subseteq Files /\ deleted \subseteq Paths \ Files
    /\ failed \subseteq Files /\ vanished \subseteq Files
    /\ unsynced \in [Periods -> SUBSET Paths]
    /\ dropped \subseteq Periods
    /\ raced \subseteq Paths

\* Outside the paths whose last touch went unrecorded, a manifest says exactly
\* what the folder holds: an entry stands for a whole copy of the version it
\* describes, and a path without one has no copy.  computeDiff relies on it to
\* leave a file alone (manifest.ts) and to find what to delete.
Describes(entry, copy) ==
    IF entry = NoEntry THEN copy = Absent
    ELSE copy = ContentOf[entry.stat] /\ entry.digest \in {NoDigest, copy}

ManifestSound ==
    \A k \in Periods \ dropped :
      \A p \in Paths \ unsynced[k] : Describes(manifest[k][p], mirror[k][p])

\* What a destination reported as skipped or successful stands for: each file
\* the run saw is stored as the run saw it, and a copy of a file that is gone
\* is gone too or still has the entry by which the next run will delete it.
\* Excepted are files written or removed while they were being copied, and
\* paths left unsynced by an earlier run (storeToDestination, uploadFiles).
UpToDateAt(p) ==
    /\ seen[p] # Absent => mirror[period][p] = ContentOf[seen[p]]
    /\ seen[p] = Absent /\ p \notin ignored =>
         mirror[period][p] = Absent \/ manifest[period][p] # NoEntry

ReportedMeansStored ==
    pc = "done" /\ outcome \in {"skipped", "success"} =>
      \A p \in Paths \ (unsynced[period] \union raced \union vanished) : UpToDateAt(p)

\* No run works in a period whose folder retention has removed: the manifest of
\* that period is still there and would vouch for files that are not
\* (retention.ts leaves the manifests alone).
NeverInADroppedPeriod == pc # "idle" => period \notin dropped

\* Except for retention, a copy goes only when the run did not list its file
\* and the exclude patterns do not match it: a file excluded after it was
\* backed up stays (computeDiff; README.md, "never uploaded or deleted").
OnlyUnlistedCopiesGo ==
    [][\A k \in Periods \ dropped', p \in Paths :
         mirror[k][p] # Absent /\ mirror'[k][p] = Absent =>
           k = period /\ p \notin Files /\ p \notin ignored]_vars

\* Once the sources rest and nothing fails any more, the runs bring the mirror
\* of the current period to the sources, whatever failed before: it is tried again
\* (computeDiff against a manifest that only records successes).  Excepted are the
\* paths whose last touch went unrecorded: an old entry may vouch for them for ever.
\* When no file is left at all a run ends early and deletes nothing (buildEmptyResult).
TroubleEnds ==
    <>[][/\ UNCHANGED world
         /\ ~Failure
         /\ Resolve => \A p \in Dumps : seen'[p] = source[p]
         /\ \A p \in Paths : DeleteFails(p) => mirror[period][p] = Absent]_vars

Mirrored ==
    (\E p \in Paths \ exclude : source[p] # Absent) =>
      \A p \in Paths \ (exclude \union unsynced[now]) :
        mirror[now][p] = IF source[p] = Absent THEN Absent ELSE ContentOf[source[p]]

Converges == TroubleEnds => <>[]Mirrored

\* daemon.ts:106 tells the user of a skipped run that "All destinations already
\* have the latest backup", and dispatcher.ts:109 logs "destination already up
\* to date": every file the run saw is stored as the run saw it.
SkippedMeansLatest ==
    pc = "done" /\ outcome = "skipped" =>
      \A p \in Files \ raced : mirror[period][p] = ContentOf[seen[p]]
=============================================================================
