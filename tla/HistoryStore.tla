----------------------------- MODULE HistoryStore -----------------------------
(***************************************************************************)
(* The run history: api/src/lib/store/backups.ts, a file of records, the   *)
(* newest first, and a cache of it in memory that is good as long as the   *)
(* file's mtime is the one it was read at.                                 *)
(*                                                                         *)
(* A record is the number of its run.  Some records need the config when   *)
(* they are read (fillDestinationMeta, seedFromArchiveDir).  A call is     *)
(* synchronous, and an action is one call.  The file is written in place:  *)
(* a write that fails leaves it as it was, or cut short.                   *)
(***************************************************************************)
EXTENDS Naturals, FiniteSets, Sequences, SequencesExt

CONSTANTS
    MaxRecords,  \* bound: the number of the last run
    OldRecords,  \* the number of the last run before
    MaxHistory,  \* MAX_HISTORY_RECORDS
    Seeds,       \* the records made of the archives that are found, newest first
    Legacy,      \* the records whose destinations have no name or path
    FirstHistories, \* what the file may hold at first, newest first
    DiskFails,
    None

HistoryAssumption ==
    /\ MaxRecords \in Nat /\ OldRecords \in 0..MaxRecords /\ MaxHistory \in Nat \ {0}
    /\ Legacy \subseteq 1..MaxRecords
    /\ \A s \in FirstHistories \union {Seeds} :
         s \in Seq(1..OldRecords) /\ \A i, j \in 1..Len(s) : i < j => s[i] > s[j]
    /\ DiskFails \in BOOLEAN
    /\ None \notin Seq(1..MaxRecords)

VARIABLES
    file,     \* absent, whole or broken; the records its text holds; whether it is
              \* fat, with lists of paths that trimResult cuts
    cache,    \* backupCache, or None
    fresh,    \* backupCacheMtimeMs is the file's mtime
    configReadable, \* chest-backup.json can be read and parsed
    settled,  \* the runs that are over
    \* History, to state the properties:
    unsaved   \* the runs whose record could not be written

vars == <<file, cache, fresh, configReadable, settled, unsaved>>

Whole(records)  == [state |-> "whole", records |-> records, fat |-> FALSE]
Broken(records) == [state |-> "broken", records |-> records, fat |-> FALSE]
Absent          == [state |-> "absent", records |-> <<>>, fat |-> FALSE]

Init ==
    /\ file \in {Absent} \union {[state |-> "whole", records |-> l, fat |-> b] : l \in FirstHistories, b \in BOOLEAN}
    /\ cache = None /\ fresh = FALSE
    /\ configReadable = TRUE
    /\ settled = OldRecords /\ unsaved = {}
-----------------------------------------------------------------------------
\* The store between two calls of the file system: what is in the file, the
\* cache, and whether the call has thrown so far.
StoreNow == [file |-> file, cache |-> cache, fresh |-> fresh, threw |-> FALSE]

\* writeFileSync: the file after it, and whether it threw.
Writes(s, records) ==
    {[s EXCEPT !.file = Whole(records), !.fresh = TRUE]}
      \union (IF DiskFails
              THEN {[s EXCEPT !.threw = TRUE]}
                   \union {[s EXCEPT !.file = Broken(SubSeq(records, 1, n)), !.fresh = FALSE, !.threw = TRUE] :
                             n \in 0..Len(records)}
              ELSE {})

\* persistHistory: the cache is set when the file is written.
Persist(s, records) == {IF t.threw THEN t ELSE [t EXCEPT !.cache = records] : t \in Writes(s, records)}

\* compactHistoryFile: the file is written again when what was read of it is
\* much shorter than it is; an error is caught.  What a text of no record has
\* is anything up to a few bytes.
Compact(s, records) ==
    LET rewritten == {[t EXCEPT !.threw = FALSE] : t \in Writes(s, records)}
    IN  IF records # s.file.records \/ s.file.fat THEN rewritten
        ELSE IF s.file.state = "broken" THEN {s} \union rewritten
        ELSE {s}

\* readHistoryFile: whatever fails, in the parsing or in the names that the
\* config is asked for, makes the history an empty one.
ReadHistoryFile ==
    IF file.state = "whole" /\ (configReadable \/ ToSet(file.records) \intersect Legacy = {})
    THEN file.records ELSE <<>>

\* Mutation: the file's mtime is taken over, and the cache kept.
ReadMtimeOnly(s) ==
    IF s.file.state = "absent"
    THEN IF configReadable THEN Persist(s, Seeds) ELSE {[s EXCEPT !.threw = TRUE]}
    ELSE IF s.cache # None THEN {[s EXCEPT !.fresh = TRUE]}
    ELSE Compact([s EXCEPT !.cache = ReadHistoryFile, !.fresh = TRUE], ReadHistoryFile)

\* readBackupHistory: the records are the cache after it, unless it threw.
Read(s) ==
    IF s.file.state = "absent"
    THEN IF configReadable THEN Persist(s, Seeds) ELSE {[s EXCEPT !.threw = TRUE]}
    ELSE IF s.cache # None /\ s.fresh THEN {s}
    ELSE Compact([s EXCEPT !.cache = ReadHistoryFile, !.fresh = TRUE], ReadHistoryFile)

Take(s) == file' = s.file /\ cache' = s.cache /\ fresh' = s.fresh

\* Mutation: the cut is one too short.
AddCutShort(s, r) ==
    IF s.threw \/ (r \in Legacy /\ ~configReadable) THEN {[s EXCEPT !.threw = TRUE]}
    ELSE LET records == <<r>> \o s.cache
         IN  Persist([s EXCEPT !.cache = records],
                     SubSeq(records, 1, IF Len(records) >= MaxHistory THEN MaxHistory - 1 ELSE Len(records)))

\* addBackupRecord after the read.  The record is put into the cached array
\* itself, before it is cut and written.
Add(s, r) ==
    IF s.threw \/ (r \in Legacy /\ ~configReadable) THEN {[s EXCEPT !.threw = TRUE]}
    ELSE LET records == <<r>> \o s.cache
         IN  Persist([s EXCEPT !.cache = records],
                     SubSeq(records, 1, IF Len(records) > MaxHistory THEN MaxHistory ELSE Len(records)))
-----------------------------------------------------------------------------
\* GET /api/backups, /api/backups/stats, /api/backups/:id, /api/schedule, a
\* destination's usage.
ReadBackupHistory ==
    /\ \E s \in Read(StoreNow) : Take(s)
    /\ UNCHANGED <<configReadable, settled, unsaved>>

\* A run is over: invalidateBackupCache and persistBackupResult, one after the
\* other for scheduled and manual runs.
PersistBackupResult ==
    /\ settled < MaxRecords /\ settled' = settled + 1
    /\ \E s \in Read([StoreNow EXCEPT !.cache = None]) : \E t \in Add(s, settled') :
         /\ Take(t)
         /\ unsaved' = IF t.threw THEN unsaved \union {settled'} ELSE unsaved
    /\ UNCHANGED configReadable

\* Someone breaks or repairs the config.
EditConfig ==
    /\ configReadable' = ~configReadable
    /\ UNCHANGED <<file, cache, fresh, settled, unsaved>>

\* Someone takes a record out of the file, or removes the file.
EditHistory ==
    /\ \/ file.state = "whole" /\ file.records # <<>> /\ file' = Whole(Tail(file.records))
       \/ file.state # "absent" /\ file' = Absent
    /\ fresh' = FALSE
    /\ UNCHANGED <<cache, configReadable, settled, unsaved>>

\* A server does not start without a config (loadConfigForApi).
Restart ==
    /\ configReadable
    /\ cache' = None /\ fresh' = FALSE
    /\ UNCHANGED <<file, configReadable, settled, unsaved>>

Next == ReadBackupHistory \/ PersistBackupResult \/ EditConfig \/ EditHistory \/ Restart

Spec == Init /\ [][Next]_vars
-----------------------------------------------------------------------------
Records == 1..MaxRecords

TypeOK ==
    /\ file \in [state : {"absent", "whole", "broken"}, records : Seq(Records), fat : BOOLEAN]
    /\ cache \in Seq(Records) \union {None} /\ fresh \in BOOLEAN
    /\ configReadable \in BOOLEAN
    /\ settled \in OldRecords..MaxRecords /\ unsaved \subseteq 1..settled

\* A record leaves the file for newer ones, as many as the history keeps, when
\* a write is cut short, or when the file or the config cannot be read
\* (addBackupRecord, writeBackupHistory, readHistoryFile).
RecordsGoByAge ==
    [][~EditHistory /\ ReadHistoryFile = file.records =>
         \A r \in ToSet(file.records) \ ToSet(file'.records) :
           \/ file'.state = "broken"
           \/ Cardinality({q \in ToSet(file'.records) : q > r}) >= MaxHistory]_vars

\* What a reader is shown is what the file has, but for the records that could
\* not be written and are still in the cached array (loadBackupHistory,
\* addBackupRecord, persistHistory).
ReadsShowTheFile ==
    [][ReadBackupHistory /\ cache' # None /\ file'.state = "whole" =>
         /\ ToSet(cache') \ ToSet(file'.records) \subseteq unsaved
         /\ ToSet(file'.records) \subseteq ToSet(cache') \/ ToSet(cache') \subseteq unsaved]_vars

\* Reading the history does not lose records: "Rewrites the history file when
\* trimming removed a meaningful amount of data" (backups.ts:97), and trimming
\* cuts lists of paths.  The code breaks it: an error of the parsing, or of the
\* config, is an empty history, which is written over the file.
ReadsOnlyTrim ==
    [][ReadBackupHistory => ToSet(file.records) \subseteq ToSet(file'.records)]_vars
=============================================================================
