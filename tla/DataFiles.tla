------------------------------- MODULE DataFiles ------------------------------
(***************************************************************************)
(* The files that the API server keeps: its log (LogStore), the run        *)
(* history (HistoryStore) and the config (ConfigStore).  They meet in one  *)
(* point, which HistoryStore has as `configReadable`; apart from it no two *)
(* share state, and a behaviour is one of one of them, named by `part`.    *)
(***************************************************************************)
EXTENDS Naturals, Sequences

CONSTANTS
    MaxEntries, MemoryEntries, FileEntries, BatchSize,
    MaxRecords, OldRecords, MaxHistory, Seeds, Legacy, FirstHistories,
    Keys, DestIds, Settings, FirstConfig, MaxEdits,
    DiskFails, None

VARIABLES
    part,
    added, logBuffer, pendingWrites, flushTimer, timers, logFile, logArchive, tornLine,
    written, cleared,
    historyFile, historyCache, fresh, configReadable, settled, unsaved,
    configFile, cached, cachedFresh, server, active, activeFresh, exclusions, edits,
    dirty, elsewhere

Log     == INSTANCE LogStore
History == INSTANCE HistoryStore WITH file <- historyFile, cache <- historyCache
Config  == INSTANCE ConfigStore WITH file <- configFile

ASSUME DataFilesAssumption ==
    Log!LogAssumption /\ History!HistoryAssumption /\ Config!ConfigAssumption

logVars     == <<added, logBuffer, pendingWrites, flushTimer, timers, logFile, logArchive, tornLine,
                 written, cleared>>
historyVars == <<historyFile, historyCache, fresh, configReadable, settled, unsaved>>
configVars  == <<configFile, cached, cachedFresh, dirty, server, active, activeFresh, exclusions,
                 edits, elsewhere>>
vars == <<part, logVars, historyVars, configVars>>

Init ==
    /\ Log!Init /\ History!Init /\ Config!Init
    /\ part \in {"log", "history", "config"}
    /\ part # "history" => historyFile = History!Absent

Next ==
    \/ part = "log"     /\ Log!Next     /\ UNCHANGED <<part, historyVars, configVars>>
    \/ part = "history" /\ History!Next /\ UNCHANGED <<part, logVars, configVars>>
    \/ part = "config"  /\ Config!Next  /\ UNCHANGED <<part, logVars, historyVars>>

Spec == Init /\ [][Next]_vars

\* A timer that was set fires.  What requests, writers and the disk do is not fair.
FairSpec == Spec /\ WF_vars(part = "log" /\ Log!TimerFires /\ UNCHANGED <<part, historyVars, configVars>>)
-----------------------------------------------------------------------------
\* The properties of the three, where they are stated and explained.
TypeOK == Log!TypeOK /\ History!TypeOK /\ Config!TypeOK

\* Rotation drops only what is older than all it keeps (logs.ts, rotateIfNeeded).
NewestAreKept      == Log!NewestAreKept
\* Memory has the tail of the log, in order (logs.ts, loadFromDisk, addLogEntry).
MemoryIsTheTail    == Log!MemoryIsTheTail
\* Pending lines reach the file unless the log was cleared (logs.ts, scheduleFlush).
PendingIsWritten   == Log!PendingIsWritten
\* Records leave the history for newer ones, or with an unreadable file
\* (backups.ts, addBackupRecord).
RecordsGoByAge     == History!RecordsGoByAge
\* A reader sees the file and at most the records that could not be written
\* (backups.ts, loadBackupHistory).
ReadsShowTheFile   == History!ReadsShowTheFile
\* Reading loses no records: violated (backups.ts, compactHistoryFile).
ReadsOnlyTrim      == History!ReadsOnlyTrim
\* A request changes its own field of the config and no other (config.ts).
OnlyTheEditIsSaved == Config!OnlyTheEditIsSaved
\* No path is in its list twice (sources.ts, isDuplicate).
SourcesAreUnique   == Config!SourcesAreUnique
\* The summary of excluded files is about the patterns of the file (exclusions.ts).
SummaryFollows     == Config!SummaryFollows
=============================================================================
