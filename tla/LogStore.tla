------------------------------- MODULE LogStore -------------------------------
(***************************************************************************)
(* The log of the API server: api/src/lib/store/logs.ts.  The newest       *)
(* entries are in memory; they reach the file in batches, by a timer or    *)
(* when a batch is full; a file that is too long becomes the archive and   *)
(* takes the place of the one before.                                      *)
(*                                                                         *)
(* An entry is the number of its addition.  All of it is synchronous: an   *)
(* action is one call, or one timer.                                       *)
(***************************************************************************)
EXTENDS Naturals, Sequences, SequencesExt

CONSTANTS
    MaxEntries,     \* bound: how many entries are added
    MemoryEntries,  \* MAX_MEMORY_ENTRIES
    FileEntries,    \* MAX_LOG_FILE_BYTES
    BatchSize,      \* FLUSH_BATCH_SIZE
    DiskFails       \* whether a call to the file system may fail

LogAssumption ==
    /\ MaxEntries \in Nat
    /\ {MemoryEntries, FileEntries, BatchSize} \subseteq Nat \ {0}
    /\ DiskFails \in BOOLEAN

VARIABLES
    added,          \* how many entries there were so far
    logBuffer, pendingWrites,
    flushTimer,     \* whether the handle of the timer is set
    timers,         \* the timers that have not fired
    logFile, logArchive, \* the lines of logs.jsonl and logs.jsonl.1 that parse
    tornLine,       \* logs.jsonl ends in the middle of a line
    \* History, to state the properties:
    written,        \* the entries that reached the file since the log was cleared
    cleared         \* the log was cleared by this process

disk == <<logFile, logArchive, tornLine, written>>
vars == <<added, logBuffer, pendingWrites, flushTimer, timers, disk, cleared>>

Init ==
    /\ added = 0 /\ logBuffer = <<>> /\ pendingWrites = <<>>
    /\ flushTimer = FALSE /\ timers = 0
    /\ logFile = <<>> /\ logArchive = <<>> /\ tornLine = FALSE
    /\ written = {} /\ cleared = FALSE

Newest(s, n) == SubSeq(s, IF Len(s) > n THEN Len(s) - n + 1 ELSE 1, Len(s))
-----------------------------------------------------------------------------
FileNow == [file |-> logFile, archive |-> logArchive, torn |-> tornLine]

\* Mutation: an archive stays when there is one.
RotateOnce ==
    IF Len(logFile) < FileEntries THEN {FileNow}
    ELSE {[file |-> <<>>, archive |-> IF logArchive = <<>> THEN logFile ELSE logArchive, torn |-> FALSE]}

\* rotateIfNeeded.  It may fail to remove the archive, or to rename the file after
\* that; the batch is appended all the same.
Rotate ==
    IF Len(logFile) < FileEntries THEN {FileNow}
    ELSE {[file |-> <<>>, archive |-> logFile, torn |-> FALSE]}
         \union (IF DiskFails THEN {FileNow, [FileNow EXCEPT !.archive = <<>>]} ELSE {})

\* appendFileSync: all of the batch, or its first n entries and maybe a part of
\* the next.  A line that follows a torn one is lost with it.
AppendLines(old, batch, n, part) ==
    LET whole == SubSeq(batch, IF old.torn THEN 2 ELSE 1, n)
    IN  /\ logFile' = old.file \o whole
        /\ logArchive' = old.archive
        /\ written' = written \union ToSet(whole)
        /\ tornLine' = (part \/ (old.torn /\ n = 0))

\* flushToDisk, when something is pending.
WriteBatch(batch) ==
    \E old \in Rotate :
      \/ AppendLines(old, batch, Len(batch), FALSE)
      \/ DiskFails /\ \E n \in 0..Len(batch) - 1, part \in BOOLEAN : AppendLines(old, batch, n, part)

\* Mutation: writing a full batch keeps the timer's handle.
AddLogEntryKeepingHandle ==
    LET batch == Append(pendingWrites, added + 1) IN
    /\ added < MaxEntries /\ added' = added + 1
    /\ logBuffer' = Newest(Append(logBuffer, added'), MemoryEntries)
    /\ IF Len(batch) >= BatchSize
       THEN WriteBatch(batch) /\ pendingWrites' = <<>> /\ UNCHANGED <<flushTimer, timers>>
       ELSE /\ pendingWrites' = batch /\ flushTimer' = TRUE
            /\ timers' = IF flushTimer THEN timers ELSE timers + 1
            /\ UNCHANGED disk
    /\ UNCHANGED cleared

\* addLogEntry, with scheduleFlush.
AddLogEntry ==
    LET batch == Append(pendingWrites, added + 1) IN
    /\ added < MaxEntries /\ added' = added + 1
    /\ logBuffer' = Newest(Append(logBuffer, added'), MemoryEntries)
    /\ IF Len(batch) >= BatchSize
       THEN WriteBatch(batch) /\ pendingWrites' = <<>> /\ flushTimer' = FALSE /\ UNCHANGED timers
       ELSE /\ pendingWrites' = batch /\ flushTimer' = TRUE
            /\ timers' = IF flushTimer THEN timers ELSE timers + 1
            /\ UNCHANGED disk
    /\ UNCHANGED cleared

\* A timer fires.  With nothing pending it leaves the handle as it is, also when
\* it is its own.
TimerFires ==
    /\ timers > 0 /\ timers' = timers - 1
    /\ IF pendingWrites = <<>> THEN UNCHANGED <<pendingWrites, flushTimer, disk>>
       ELSE WriteBatch(pendingWrites) /\ pendingWrites' = <<>> /\ flushTimer' = FALSE
    /\ UNCHANGED <<added, logBuffer, cleared>>

\* clearLogs.  The files are removed one after the other; what of them cannot be
\* removed comes back with the next start.
ClearLogs ==
    /\ logBuffer' = <<>> /\ pendingWrites' = <<>>
    /\ \/ logFile' = <<>> /\ logArchive' = <<>> /\ tornLine' = FALSE
       \/ DiskFails /\ logFile' = <<>> /\ tornLine' = FALSE /\ UNCHANGED logArchive
       \/ DiskFails /\ UNCHANGED <<logFile, tornLine, logArchive>>
    /\ written' = {} /\ cleared' = TRUE
    /\ UNCHANGED <<added, flushTimer, timers>>

\* Mutation: the file is read before the archive.
LoadFromDiskSwapped == Newest(logFile' \o logArchive', MemoryEntries)
\* loadFromDisk, of what the process before has left.
LoadFromDisk == Newest(logArchive' \o logFile', MemoryEntries)

\* The process ends and is started again: it was killed, or it writes what is
\* pending on its exit (flushLogs).
Restart ==
    /\ \/ UNCHANGED disk
       \/ pendingWrites # <<>> /\ WriteBatch(pendingWrites)
    /\ logBuffer' = LoadFromDisk
    /\ pendingWrites' = <<>> /\ flushTimer' = FALSE /\ timers' = 0
    /\ cleared' = FALSE
    /\ UNCHANGED added
-----------------------------------------------------------------------------
Next == AddLogEntry \/ TimerFires \/ ClearLogs \/ Restart

Spec == Init /\ [][Next]_vars
FairSpec == Spec /\ WF_vars(TimerFires)
-----------------------------------------------------------------------------
Entries == 1..MaxEntries

TypeOK ==
    /\ added \in 0..MaxEntries
    /\ logBuffer \in Seq(Entries) /\ Len(logBuffer) <= MemoryEntries
    /\ pendingWrites \in Seq(Entries) /\ Len(pendingWrites) < BatchSize
    /\ flushTimer \in BOOLEAN /\ timers \in Nat
    /\ logFile \in Seq(Entries) /\ logArchive \in Seq(Entries) /\ tornLine \in BOOLEAN
    /\ written \subseteq Entries /\ cleared \in BOOLEAN

Stored == ToSet(logArchive) \union ToSet(logFile)

\* Of the entries that were written since the log was cleared, the files keep the
\* newest: whatever rotation drops, and however it fails, what is dropped is older
\* than what is kept (rotateIfNeeded, flushToDisk).
NewestAreKept ==
    \A e, f \in written : e < f /\ e \in Stored => f \in Stored

Increasing(s) == \A i, j \in 1..Len(s) : i < j => s[i] < s[j]

\* The log is shown in the order of its entries, without a double, and an entry
\* that is in the files is left out of memory only for newer ones (loadFromDisk,
\* addLogEntry).
MemoryIsTheTail ==
    /\ Increasing(logBuffer)
    /\ \A e \in written \intersect Stored :
         e \in ToSet(logBuffer) \/ (Len(logBuffer) = MemoryEntries /\ e < Head(logBuffer))

\* What is pending is written, unless the log was cleared: clearLogs leaves a
\* timer that may end with its handle set, and no other is then started
\* (scheduleFlush, flushToDisk, clearLogs).
PendingIsWritten == pendingWrites # <<>> ~> pendingWrites = <<>> \/ cleared
=============================================================================
