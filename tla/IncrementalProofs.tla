-------------------------- MODULE IncrementalProofs --------------------------
(***************************************************************************)
(* The invariants of Incremental hold for every set of paths and versions, *)
(* every number of periods, retention setting and set of faults.           *)
(***************************************************************************)
EXTENDS Incremental, TLAPS

\* The lists of a run are empty until computeDiff, and its results until the
\* first copy.
NothingYet ==
    /\ pc \in {"idle", "resolved", "diffing"} => toUpload = {} /\ toDelete = {}
    /\ pc \in {"idle", "resolved", "diffing", "opening"} =>
         uploaded = {} /\ deleted = {} /\ failed = {} /\ vanished = {}

TypeInv == TypeOK /\ NothingYet

LEMMA InitTypeInv == Init => TypeInv
BY IncrementalAssumption, NoEntryAssumption
   DEF Init, TypeInv, TypeOK, NothingYet, NoRun, NoFiles, Blank, Files, Periods, Copies

LEMMA EnvironmentTypeInv == TypeInv /\ Environment => TypeInv'
<1> SUFFICES ASSUME TypeInv, Environment PROVE TypeInv'
  OBVIOUS
<1> USE DEF TypeInv, TypeOK, NothingYet, Files
<1>1. ASSUME NEW p \in Paths, NEW v \in Versions \union {Absent}, WriteSource(p, v)
      PROVE  TypeInv'
  BY <1>1 DEF WriteSource, disk, run, diff, todo, result
<1>2. CASE PeriodEnds
  BY <1>2, IncrementalAssumption DEF PeriodEnds, disk, run, diff, todo, result, ghosts, Periods
<1>3. ASSUME NEW p \in Excludable, EditExclude(p)
      PROVE  TypeInv'
  BY <1>3 DEF EditExclude, disk, run, diff, todo, result, ghosts
<1> QED
  BY <1>1, <1>2, <1>3 DEF Environment

LEMMA NextManifestType ==
    ASSUME TypeOK
    PROVE  NextManifest \in [Paths -> Entries \union {NoEntry}]
BY DEF TypeOK, NextManifest, Entries, Files

LEMMA SetCopyType ==
    ASSUME TypeOK, NEW p \in Paths, NEW c \in Copies, SetCopy(p, c)
    PROVE  /\ mirror' \in [Periods -> [Paths -> Copies]]
           /\ unsynced' \in [Periods -> SUBSET Paths]
BY DEF TypeOK, SetCopy

LEMMA ContentIsCopy ==
    ASSUME TypeOK, NEW p \in Paths, FileNow(p) # Absent
    PROVE  ContentOf[FileNow(p)] \in Contents
BY IncrementalAssumption DEF TypeOK, FileNow

LEMMA EndOfRunTypeInv ==
    ASSUME TypeInv, EndOfRun,
           UNCHANGED <<world, folders, dropped>>,
           mirror' \in [Periods -> [Paths -> Copies]],
           manifest' \in [Periods -> [Paths -> Entries \union {NoEntry}]],
           unsynced' \in [Periods -> SUBSET Paths]
    PROVE  TypeInv'
BY IncrementalAssumption, NoEntryAssumption
   DEF TypeInv, TypeOK, NothingYet, EndOfRun, NoFiles, Blank, Files, world, Periods

LEMMA ProgressTypeInv == TypeInv /\ Progress => TypeInv'
<1> SUFFICES ASSUME TypeInv, Progress PROVE TypeInv'
  OBVIOUS
<1> USE DEF TypeInv, TypeOK, NothingYet, world, disk, diff, todo, result, ghosts
<1>1. CASE Resolve
  BY <1>1 DEF Resolve, Files
<1>2. CASE Prepare
  BY <1>2 DEF Prepare, FileNow, Files
<1>3. CASE Diff
  <2>1. \A p \in Paths : FileNow(p) # Absent => ContentOf[FileNow(p)] \in Contents
    BY ContentIsCopy
  <2>2. digest' \in [Paths -> Contents \union {NoDigest}]
    BY <1>3, <2>1 DEF Diff, DigestOf
  <2>3. toUpload' \subseteq Files /\ toDelete' \subseteq Paths \ Files /\ Files' = Files
    BY <1>3 DEF Diff, StaleEntries, Files
  <2> QED
    BY <1>3, <2>2, <2>3 DEF Diff
<1>4. CASE Open
  BY <1>4 DEF Open, Files
<1>5. ASSUME NEW p \in Paths, Upload(p)
      PROVE  TypeInv'
  <2>1. ContentOf[FileNow(p)] \in Copies
    BY <1>5, ContentIsCopy DEF Upload, Copies
  <2>2. /\ mirror' \in [Periods -> [Paths -> Copies]]
        /\ unsynced' \in [Periods -> SUBSET Paths]
    BY <1>5, <2>1, SetCopyType DEF Upload
  <2> QED
    BY <1>5, <2>2 DEF Upload, Files
<1>6. ASSUME NEW p \in Paths, UploadVanished(p)
      PROVE  TypeInv'
  BY <1>6 DEF UploadVanished, Files
<1>7. ASSUME NEW p \in Paths, Delete(p)
      PROVE  TypeInv'
  <2>1. /\ mirror' \in [Periods -> [Paths -> Copies]]
        /\ unsynced' \in [Periods -> SUBSET Paths]
    BY <1>7, SetCopyType DEF Delete, Copies
  <2> QED
    BY <1>7, <2>1 DEF Delete, Files
<1>8. ASSUME NEW p \in Paths, DeleteFails(p)
      PROVE  TypeInv'
  BY <1>8 DEF DeleteFails, Files
<1>9. CASE Close
  BY <1>9 DEF Close, Files
<1>10. CASE Retain
  <2>1. mirror' \in [Periods -> [Paths -> Copies]]
    BY <1>10 DEF Retain, Copies
  <2>2. ExpiredFolders(Mode, folders, Retention, period) \subseteq folders
    BY DEF ExpiredFolders, SelectExpiredPeriodKeys
  <2>3. folders' \subseteq Periods /\ dropped' \subseteq Periods
    BY <1>10, <2>2 DEF Retain
  <2> QED
    BY <1>10, <2>1, <2>3 DEF Retain, Files
<1>11. CASE Persist
  <2>1. manifest' \in [Periods -> [Paths -> Entries \union {NoEntry}]]
    BY <1>11, NextManifestType DEF Persist
  <2> QED
    BY <1>11, <2>1 DEF Persist, Files
<1>12. CASE Return
  BY <1>12, EndOfRunTypeInv DEF Return
<1> QED
  BY <1>1, <1>2, <1>3, <1>4, <1>5, <1>6, <1>7, <1>8, <1>9, <1>10, <1>11, <1>12 DEF Progress

LEMMA TruncateManifestType ==
    ASSUME TypeOK, TruncateManifest
    PROVE  /\ manifest' \in [Periods -> [Paths -> Entries \union {NoEntry}]]
           /\ unsynced' \in [Periods -> SUBSET Paths]
BY DEF TypeOK, TruncateManifest, Blank

LEMMA FailureTypeInv == TypeInv /\ Failure => TypeInv'
<1> SUFFICES ASSUME TypeInv, Failure PROVE TypeInv'
  OBVIOUS
<1> USE DEF TypeInv, TypeOK, NothingYet, world, disk, diff, todo, result, ghosts
<1>1. CASE OpenFails
  BY <1>1 DEF OpenFails, Files
<1>2. CASE CloseFails
  BY <1>2 DEF CloseFails, Files
<1>3. CASE PersistFails
  BY <1>3, TruncateManifestType DEF PersistFails, Files
<1>4. CASE Crash
  <2>1. /\ mirror' \in [Periods -> [Paths -> Copies]]
        /\ manifest' \in [Periods -> [Paths -> Entries \union {NoEntry}]]
        /\ unsynced' \in [Periods -> SUBSET Paths]
    <3>1. CASE TruncateManifest /\ UNCHANGED mirror
      BY <3>1, TruncateManifestType
    <3>2. CASE ~(TruncateManifest /\ UNCHANGED mirror)
      <4>1. PICK torn \in SUBSET toUpload :
              /\ mirror' = [mirror EXCEPT ![period] =
                              [p \in Paths |-> IF p \in torn THEN Torn ELSE @[p]]]
              /\ unsynced' = [unsynced EXCEPT ![period] = @ \union torn]
              /\ UNCHANGED manifest
        BY <1>4, <3>2 DEF Crash
      <4>2. torn \in SUBSET Paths
        BY DEF Files
      <4> QED
        BY <4>1, <4>2 DEF Copies
    <3> QED
      BY <3>1, <3>2
  <2> QED
    BY <1>4, <2>1, EndOfRunTypeInv DEF Crash
<1>5. ASSUME NEW p \in Paths, UploadFails(p)
      PROVE  TypeInv'
  <2>1. /\ mirror' \in [Periods -> [Paths -> Copies]]
        /\ unsynced' \in [Periods -> SUBSET Paths]
    BY <1>5, SetCopyType DEF UploadFails, Copies
  <2> QED
    BY <1>5, <2>1 DEF UploadFails, Files
<1> QED
  BY <1>1, <1>2, <1>3, <1>4, <1>5 DEF Failure

LEMMA TypeInvStep == TypeInv /\ [Next]_vars => TypeInv'
<1>1. TypeInv /\ UNCHANGED vars => TypeInv'
  BY DEF TypeInv, TypeOK, NothingYet, Files, vars, world, disk, run, diff, todo, result, ghosts
<1> QED
  BY <1>1, EnvironmentTypeInv, ProgressTypeInv, FailureTypeInv DEF Next

\* Every variable of the run keeps its type, and what a run uploads, skips or
\* deletes stays within what it listed.
THEOREM TypeCorrect == Spec => []TypeOK
<1>1. TypeInv => TypeOK
  BY DEF TypeInv
<1> QED
  BY <1>1, InitTypeInv, TypeInvStep, PTL DEF Spec

-----------------------------------------------------------------------------
(***************************************************************************)
(* The inductive invariant behind ManifestSound, NeverInADroppedPeriod and *)
(* ReportedMeansStored.                                                    *)
(***************************************************************************)
\* Folders and dropped folders are never ahead of the run that works now.
PeriodsInOrder ==
    /\ \A k \in folders : k <= now
    /\ \A k \in dropped : k < now
    /\ pc # "idle" => /\ period <= now
                      /\ \A k \in folders : k <= period
                      /\ \A k \in dropped : k < period

Stored == {"storing", "retaining", "persisting"}

\* The manifest in memory is the one on disk until it is written back.
LoadedNow == pc \in {"diffing", "opening"} \union Stored => loaded = manifest[period]

\* Except for a race, a file that waits for its copy is as the run saw it, and
\* so is its digest.
FreshSeen == \A p \in Exposed \ raced : source[p] = seen[p]
DigestsRead ==
    pc \in {"opening"} \union Stored =>
      \A p \in Files \ raced : digest[p] \in {NoDigest, ContentOf[seen[p]]}

\* What a run did to the folder so far.
UploadedStored ==
    pc \in Stored => \A p \in uploaded \ raced : mirror[period][p] = ContentOf[seen[p]]
DeletedGone == pc \in Stored => \A p \in deleted : mirror[period][p] = Absent
OncePerFile == toUpload \intersect uploaded = {} /\ toDelete \intersect ignored = {}

\* A file that is on no list was found unchanged.
LeftAlone ==
    pc \in {"opening"} \union Stored /\ outcome # "failed" =>
      \A p \in Files \ (toUpload \union uploaded \union failed \union vanished) :
        Unchanged(p, loaded[p], digest[p])

OutcomeFits ==
    /\ outcome = "success" =>
         pc \in {"retaining", "persisting", "done"} /\ failed = {} /\ toUpload = {}
    /\ outcome = "skipped" => pc = "done"
    /\ pc \in {"opening", "storing"} => outcome = "none"

RunInv ==
    /\ LoadedNow /\ FreshSeen /\ DigestsRead /\ UploadedStored /\ DeletedGone
    /\ OncePerFile /\ LeftAlone /\ OutcomeFits

IInv == TypeInv /\ PeriodsInOrder /\ RunInv /\ ManifestSound /\ ReportedMeansStored

\* Retention never takes the folder of the run.
LEMMA ExpiredAreOthers ==
    ExpiredFolders(Mode, folders, Retention, period) \subseteq folders \ {period}
BY DEF ExpiredFolders, SelectExpiredPeriodKeys

LEMMA OrderStep == TypeInv /\ PeriodsInOrder /\ [Next]_vars => PeriodsInOrder'
<1> SUFFICES ASSUME TypeInv, PeriodsInOrder, [Next]_vars PROVE PeriodsInOrder'
  OBVIOUS
<1>1. /\ now \in Int /\ period \in Int /\ folders \subseteq Int /\ dropped \subseteq Int
      /\ 1 <= now
  BY IncrementalAssumption DEF TypeInv, TypeOK, Periods
<1> USE <1>1 DEF PeriodsInOrder, world, disk, diff, todo, result, ghosts, run
<1>2. CASE Resolve
  BY <1>2 DEF Resolve
<1>3. CASE PeriodEnds
  BY <1>3 DEF PeriodEnds
<1>4. CASE Open
  BY <1>4 DEF Open
<1>5. CASE Retain
  <2>1. folders' \subseteq folders /\ dropped' \subseteq dropped \union (folders \ {period})
    BY <1>5, ExpiredAreOthers DEF Retain
  <2>2. pc # "idle" /\ UNCHANGED <<now, period>>
    BY <1>5 DEF Retain
  <2> QED
    BY <2>1, <2>2
<1>6. CASE Return \/ Crash
  BY <1>6 DEF Return, Crash, EndOfRun
<1>7. CASE \/ \E p \in Paths, v \in Versions \union {Absent} : WriteSource(p, v)
           \/ \E p \in Excludable : EditExclude(p)
           \/ UNCHANGED vars
  BY <1>7 DEF WriteSource, EditExclude, vars
<1>8. CASE Prepare \/ Diff \/ Close \/ Persist \/ OpenFails \/ CloseFails \/ PersistFails
  BY <1>8 DEF Prepare, Diff, Close, Persist, OpenFails, CloseFails, PersistFails
<1>9. CASE \E p \in Paths : Upload(p) \/ UploadVanished(p) \/ Delete(p) \/ DeleteFails(p)
                              \/ UploadFails(p)
  BY <1>9 DEF Upload, UploadVanished, Delete, DeleteFails, UploadFails
<1> QED
  BY <1>2, <1>3, <1>4, <1>5, <1>6, <1>7, <1>8, <1>9 DEF Next, Environment, Progress, Failure

LEMMA InitIInv == Init => IInv
BY InitTypeInv, IncrementalAssumption
   DEF Init, IInv, PeriodsInOrder, RunInv, LoadedNow, FreshSeen, DigestsRead, UploadedStored,
       DeletedGone, OncePerFile, LeftAlone, OutcomeFits, Stored, Exposed, NoRun, ManifestSound,
       Describes, ReportedMeansStored, NoFiles, Blank, Periods

\* No run, however the clock and retention moved before it, works in a period
\* whose folder has been removed.
THEOREM NoRunInADroppedPeriod == Spec => []NeverInADroppedPeriod
<1>1. Init => PeriodsInOrder
  BY InitIInv DEF IInv
<1>2. TypeInv /\ PeriodsInOrder => NeverInADroppedPeriod
  BY DEF TypeInv, TypeOK, PeriodsInOrder, NeverInADroppedPeriod, Periods
<1>3. Spec => []TypeInv
  BY InitTypeInv, TypeInvStep, PTL DEF Spec
<1> QED
  BY <1>1, <1>2, <1>3, OrderStep, PTL DEF Spec

\* RunInv through the surroundings: a write to a file that waits for its copy
\* makes it raced.
LEMMA EnvironmentRunInv == TypeInv /\ RunInv /\ (Environment \/ UNCHANGED vars) => RunInv'
<1> SUFFICES ASSUME TypeInv, RunInv, Environment \/ UNCHANGED vars PROVE RunInv'
  OBVIOUS
<1> USE DEF RunInv, LoadedNow, DigestsRead, UploadedStored, DeletedGone, OncePerFile, LeftAlone,
            OutcomeFits, FreshSeen, Exposed, Files, Unchanged, SameMtime,
            world, disk, run, diff, todo, result, ghosts
<1>1. ASSUME NEW p \in Paths, NEW v \in Versions \union {Absent}, WriteSource(p, v)
      PROVE  RunInv'
  <2>1. /\ UNCHANGED <<mirror, folders, manifest, pc, outcome, period, ignored, seen, loaded, digest,
                       toUpload, toDelete, uploaded, deleted, failed, vanished>>
        /\ raced \subseteq raced' /\ Exposed' = Exposed
    BY <1>1 DEF WriteSource
  <2>2. FreshSeen'
    <3>1. \A q \in Paths : q # p => source'[q] = source[q]
      BY <1>1 DEF WriteSource, TypeInv, TypeOK
    <3>2. p \in Exposed => p \in raced'
      BY <1>1 DEF WriteSource
    <3>3. Exposed \subseteq Paths
      BY DEF TypeInv, TypeOK
    <3> QED
      BY <2>1, <3>1, <3>2, <3>3
  <2> QED
    BY <2>1, <2>2
<1>2. CASE PeriodEnds \/ (\E p \in Excludable : EditExclude(p)) \/ UNCHANGED vars
  <2>1. UNCHANGED <<source, disk, run, ghosts>>
    BY <1>2 DEF PeriodEnds, EditExclude, vars
  <2> QED
    BY <2>1
<1> QED
  BY <1>1, <1>2 DEF Environment

\* What a read of a file finds, unless it raced.
LEMMA FreshFile ==
    ASSUME TypeInv, FreshSeen, NEW p \in Files \ raced,
           pc = "diffing" \/ (pc \in {"opening", "storing"} /\ p \in toUpload)
    PROVE  FileNow(p) = seen[p] /\ seen[p] \in Versions
BY DEF TypeInv, TypeOK, FreshSeen, FileNow, Exposed, Files

LEMMA EndOfRunRunInv == EndOfRun => RunInv'
BY DEF EndOfRun, RunInv, LoadedNow, DigestsRead, UploadedStored, DeletedGone, OncePerFile, LeftAlone,
       OutcomeFits, FreshSeen, Exposed, Stored

LEMMA DiffRunInv == TypeInv /\ RunInv /\ Diff => RunInv'
<1> SUFFICES ASSUME TypeInv, RunInv, Diff PROVE RunInv'
  OBVIOUS
<1>1. /\ UNCHANGED <<source, mirror, folders, manifest, period, ignored, seen, loaded, uploaded,
                     deleted, failed, vanished, raced>>
      /\ pc = "diffing" /\ pc' \in {"done", "opening"}
      /\ outcome' = IF pc' = "done" THEN "skipped" ELSE "none"
      /\ toUpload' = {p \in Files : ~Unchanged(p, loaded[p], digest'[p])}
      /\ toDelete' = StaleEntries
  BY DEF Diff, world, disk, result, ghosts
<1>2. Files' = Files /\ uploaded = {}
  BY <1>1 DEF Files, TypeInv, NothingYet
<1>3. \A p \in Files \ raced : digest'[p] \in {NoDigest, ContentOf[seen[p]]}
  <2>1. SUFFICES ASSUME NEW p \in Files \ raced PROVE digest'[p] \in {NoDigest, ContentOf[seen[p]]}
    OBVIOUS
  <2>2. FileNow(p) = seen[p]
    BY <1>1, FreshFile DEF RunInv
  <2> QED
    BY <2>2 DEF Diff, DigestOf, Files
<1>4. FreshSeen'
  BY <1>1 DEF RunInv, FreshSeen, Exposed, Files, TypeInv, TypeOK
<1>5. LeftAlone'
  BY <1>1, <1>2 DEF LeftAlone, Unchanged, SameMtime
<1>6. OncePerFile' /\ LoadedNow' /\ DigestsRead'
  BY <1>1, <1>2, <1>3 DEF RunInv, OncePerFile, StaleEntries, LoadedNow, DigestsRead, Stored
<1> QED
  BY <1>1, <1>4, <1>5, <1>6 DEF RunInv, UploadedStored, DeletedGone, OutcomeFits, Stored

LEMMA UploadRunInv == ASSUME TypeInv, RunInv, NEW p \in Paths, Upload(p) PROVE RunInv'
<1>1. /\ UNCHANGED <<source, folders, manifest, pc, outcome, period, ignored, seen, loaded, digest,
                     toDelete, deleted, failed, vanished, raced>>
      /\ pc = "storing" /\ p \in toUpload /\ p \in Files
      /\ toUpload' = toUpload \ {p} /\ uploaded' = uploaded \union {p}
      /\ FileNow(p) # Absent
  BY DEF Upload, world, diff, TypeInv, TypeOK
<1>2. Files' = Files
  BY <1>1 DEF Files
<1>3. /\ mirror'[period][p] = ContentOf[FileNow(p)]
      /\ \A q \in Paths \ {p} : mirror'[period][q] = mirror[period][q]
  BY DEF Upload, SetCopy, TypeInv, TypeOK
<1>4. p \notin raced => FileNow(p) = seen[p]
  BY <1>1, FreshFile DEF RunInv
<1>5. UploadedStored' /\ DeletedGone'
  <2>1. UploadedStored'
    <3> SUFFICES ASSUME NEW q \in uploaded' \ raced' PROVE mirror'[period][q] = ContentOf[seen[q]]
      BY <1>1 DEF UploadedStored
    <3>1. CASE q = p
      BY <1>1, <1>3, <1>4, <3>1
    <3>2. CASE q # p
      BY <1>1, <1>3, <3>2 DEF RunInv, UploadedStored, Stored, TypeInv, TypeOK, Files
    <3> QED
      BY <3>1, <3>2
  <2>2. DeletedGone'
    BY <1>1, <1>3 DEF RunInv, DeletedGone, Stored, TypeInv, TypeOK
  <2> QED
    BY <2>1, <2>2
<1>6. FreshSeen' /\ LeftAlone'
  BY <1>1, <1>2 DEF RunInv, FreshSeen, Exposed, LeftAlone, Unchanged, SameMtime, Stored
<1> QED
  BY <1>1, <1>2, <1>5, <1>6 DEF RunInv, OncePerFile, OutcomeFits, LoadedNow, DigestsRead

\* A torn or a deleted copy is not one of an uploaded file.
LEMMA SpoilRunInv ==
    ASSUME TypeInv, RunInv, NEW p \in Paths, UploadFails(p) \/ Delete(p)
    PROVE  RunInv'
<1>1. /\ UNCHANGED <<source, folders, manifest, pc, outcome, period, ignored, seen, loaded, digest,
                     uploaded, vanished, raced>>
      /\ pc = "storing" /\ toUpload' \subseteq toUpload
      /\ toDelete' \subseteq toDelete
  BY DEF UploadFails, Delete, world, diff
<1>2. Files' = Files
  BY <1>1 DEF Files
<1>3. \A q \in Paths \ {p} : mirror'[period][q] = mirror[period][q]
  BY DEF UploadFails, Delete, SetCopy, TypeInv, TypeOK
<1>4. p \notin uploaded /\ (p \in deleted' => mirror'[period][p] = Absent)
      /\ deleted' \subseteq deleted \union {p}
  BY DEF UploadFails, Delete, SetCopy, TypeInv, TypeOK, RunInv, OncePerFile
<1>5. UploadedStored' /\ DeletedGone'
  BY <1>1, <1>2, <1>3, <1>4 DEF RunInv, UploadedStored, DeletedGone, Stored, TypeInv, TypeOK, Files
<1>6. toUpload \union failed \subseteq toUpload' \union failed'
  BY DEF UploadFails, Delete
<1>7. LeftAlone' /\ FreshSeen'
  BY <1>1, <1>2, <1>6 DEF RunInv, LeftAlone, FreshSeen, Exposed, Unchanged, SameMtime, Stored
<1> QED
  BY <1>1, <1>2, <1>5, <1>7 DEF RunInv, OncePerFile, OutcomeFits, LoadedNow, DigestsRead

LEMMA RetainRunInv == TypeInv /\ RunInv /\ Retain => RunInv'
<1> SUFFICES ASSUME TypeInv, RunInv, Retain PROVE RunInv'
  OBVIOUS
<1>1. UNCHANGED <<source, manifest, outcome, period, ignored, seen, loaded, digest, toUpload, toDelete,
                  uploaded, deleted, failed, vanished, raced>>
      /\ pc = "retaining" /\ pc' = "persisting"
  BY DEF Retain, world, diff, todo, result
<1>2. mirror'[period] = mirror[period]
  <2>1. mirror[period] \in [Paths -> Copies] /\ mirror'[period] \in [Paths -> Copies] /\ period \in Periods
    BY DEF Retain, TypeInv, TypeOK, Copies
  <2>2. \A p \in Paths : mirror'[period][p] = mirror[period][p]
    BY <2>1, ExpiredAreOthers DEF Retain
  <2> QED
    BY <2>1, <2>2
<1> QED
  BY <1>1, <1>2
  DEF RunInv, LoadedNow, DigestsRead, UploadedStored, DeletedGone, OncePerFile, LeftAlone,
      OutcomeFits, FreshSeen, Exposed, Files, Unchanged, SameMtime, Stored

LEMMA RunInvStep == TypeInv /\ RunInv /\ [Next]_vars => RunInv'
<1> SUFFICES ASSUME TypeInv, RunInv, [Next]_vars PROVE RunInv'
  OBVIOUS
<1> USE DEF LoadedNow, DigestsRead, UploadedStored, DeletedGone, OncePerFile, LeftAlone,
            OutcomeFits, FreshSeen, Exposed, Files, Unchanged, SameMtime, Stored,
            world, disk, run, diff, todo, result, ghosts
<1>1. CASE Resolve
  BY <1>1 DEF Resolve, RunInv, TypeInv, NothingYet
<1>2. CASE Prepare
  BY <1>2 DEF Prepare, RunInv, TypeInv, NothingYet, TypeOK, FileNow
<1>3. CASE Open
  BY <1>3 DEF Open, RunInv, TypeInv, NothingYet
<1>4. CASE Close
  BY <1>4 DEF Close, RunInv
<1>5. CASE \E p \in Paths : UploadVanished(p) \/ DeleteFails(p)
  BY <1>5 DEF UploadVanished, DeleteFails, RunInv
<1>6. CASE Persist \/ PersistFails
  BY <1>6 DEF Persist, PersistFails, RunInv
<1>7. CASE OpenFails
  BY <1>7 DEF OpenFails, RunInv, TypeInv, NothingYet
<1>8. CASE CloseFails
  BY <1>8 DEF CloseFails, RunInv
<1>9. CASE Return \/ Crash
  BY <1>9, EndOfRunRunInv DEF Return, Crash
<1>10. CASE Environment \/ UNCHANGED vars
  BY <1>10, EnvironmentRunInv
<1>11. CASE \E p \in Paths : Upload(p) \/ Delete(p) \/ UploadFails(p)
  BY <1>11, UploadRunInv, SpoilRunInv
<1>12. CASE Diff \/ Retain
  BY <1>12, DiffRunInv, RetainRunInv
<1> QED
  BY <1>1, <1>2, <1>3, <1>4, <1>5, <1>6, <1>7, <1>8, <1>9, <1>10, <1>11, <1>12
  DEF Next, Progress, Failure

-----------------------------------------------------------------------------
(***************************************************************************)
(* ManifestSound: an action that touches a copy makes it unsynced, and     *)
(* Persist vouches only for what the run knows to be there.                *)
(***************************************************************************)
LEMMA SetCopyManifestSound ==
    ASSUME TypeInv, ManifestSound, NEW p \in Paths, NEW c, SetCopy(p, c),
           UNCHANGED <<manifest, dropped>>
    PROVE  ManifestSound'
BY DEF TypeInv, TypeOK, ManifestSound, SetCopy, Describes

LEMMA TruncateManifestSound ==
    ASSUME TypeInv, ManifestSound, TruncateManifest, UNCHANGED <<mirror, dropped>>
    PROVE  ManifestSound'
BY DEF TypeInv, TypeOK, ManifestSound, TruncateManifest, Describes

LEMMA PersistManifestSound == IInv /\ Persist => ManifestSound'
<1> SUFFICES ASSUME IInv, Persist,
                    NEW k \in Periods \ dropped', NEW p \in Paths \ unsynced'[k]
             PROVE  Describes(manifest'[k][p], mirror'[k][p])
  BY DEF ManifestSound
<1>1. /\ UNCHANGED <<mirror, dropped>> /\ pc = "persisting" /\ period \in Periods
      /\ manifest' = [manifest EXCEPT ![period] = NextManifest]
  BY DEF Persist, IInv, TypeInv, TypeOK
<1>2. CASE k # period
  <2>1. p \in Paths \ unsynced[k] /\ manifest'[k][p] = manifest[k][p]
    BY <1>1, <1>2 DEF Persist, IInv, TypeInv, TypeOK
  <2> QED
    BY <1>1, <2>1 DEF IInv, ManifestSound
<1>3. CASE k = period
  <2>1. /\ p \notin uploaded \intersect raced
        /\ p \notin uploaded \union deleted => p \notin unsynced[period]
    BY <1>3, <1>1 DEF Persist, IInv, TypeInv, TypeOK
  <2>2. manifest'[k][p] = NextManifest[p]
    BY <1>1, <1>3 DEF IInv, TypeInv, TypeOK
  <2>3. CASE p \in deleted
    BY <1>1, <1>3, <2>2, <2>3 DEF NextManifest, Describes, IInv, RunInv, DeletedGone, Stored
  <2>4. CASE p \in uploaded \ deleted
    <3>1. NextManifest[p] = [stat |-> seen[p], digest |-> digest[p]]
      BY <2>4 DEF NextManifest
    <3>2. seen[p] \in Versions /\ p \in Files
      BY <2>4 DEF IInv, TypeInv, TypeOK, Files
    <3>3. mirror[period][p] = ContentOf[seen[p]]
      BY <1>1, <2>1, <2>4 DEF IInv, RunInv, UploadedStored, Stored
    <3>4. digest[p] \in {NoDigest, ContentOf[seen[p]]}
      BY <1>1, <2>1, <2>4, <3>2 DEF IInv, RunInv, DigestsRead, Stored
    <3>5. NextManifest[p] # NoEntry
      BY <3>1, <3>2, NoEntryAssumption DEF Entries, IInv, TypeInv, TypeOK
    <3> QED
      BY <1>1, <1>3, <2>2, <3>1, <3>3, <3>4, <3>5 DEF Describes
  <2>5. CASE p \notin uploaded \union deleted
    <3>1. NextManifest[p] = manifest[period][p]
      BY <1>1, <2>5 DEF NextManifest, IInv, RunInv, LoadedNow, Stored
    <3> QED
      BY <1>1, <1>3, <2>1, <2>2, <2>5, <3>1 DEF IInv, ManifestSound
  <2> QED
    BY <2>3, <2>4, <2>5
<1> QED
  BY <1>2, <1>3

LEMMA RetainManifestSound == IInv /\ Retain => ManifestSound'
<1> SUFFICES ASSUME IInv, Retain,
                    NEW k \in Periods \ dropped', NEW p \in Paths \ unsynced'[k]
             PROVE  Describes(manifest'[k][p], mirror'[k][p])
  BY DEF ManifestSound
<1>1. UNCHANGED <<manifest, unsynced>> /\ dropped \subseteq dropped'
  BY DEF Retain
<1>2. mirror'[k][p] = mirror[k][p]
  BY DEF Retain
<1> QED
  BY <1>1, <1>2 DEF IInv, ManifestSound

LEMMA CrashManifestSound == IInv /\ Crash => ManifestSound'
<1> SUFFICES ASSUME IInv, Crash PROVE ManifestSound'
  OBVIOUS
<1>1. CASE TruncateManifest /\ UNCHANGED mirror
  BY <1>1, TruncateManifestSound DEF Crash, IInv
<1>2. CASE ~(TruncateManifest /\ UNCHANGED mirror)
  <2>1. PICK torn \in SUBSET toUpload :
          /\ mirror' = [mirror EXCEPT ![period] =
                          [p \in Paths |-> IF p \in torn THEN Torn ELSE @[p]]]
          /\ unsynced' = [unsynced EXCEPT ![period] = @ \union torn]
          /\ UNCHANGED manifest
    BY <1>2 DEF Crash
  <2> QED
    BY <2>1 DEF Crash, IInv, TypeInv, TypeOK, ManifestSound
<1> QED
  BY <1>1, <1>2

LEMMA ManifestSoundStep == IInv /\ [Next]_vars => ManifestSound'
<1> SUFFICES ASSUME IInv, [Next]_vars PROVE ManifestSound'
  OBVIOUS
<1> USE DEF world, disk, run, diff, todo, result, ghosts
<1>1. CASE \E p \in Paths : Upload(p) \/ Delete(p)
  BY <1>1, SetCopyManifestSound DEF Upload, Delete, IInv
<1>2. CASE \E p \in Paths : UploadFails(p)
  <2>1. PICK p \in Paths : UploadFails(p)
    BY <1>2
  <2>2. CASE UNCHANGED <<mirror, unsynced>>
    BY <2>1, <2>2 DEF UploadFails, IInv, ManifestSound
  <2>3. CASE SetCopy(p, Torn)
    BY <2>1, <2>3, SetCopyManifestSound DEF UploadFails, IInv
  <2> QED
    BY <2>1, <2>2, <2>3 DEF UploadFails
<1>3. CASE Persist \/ Retain \/ Crash
  BY <1>3, PersistManifestSound, RetainManifestSound, CrashManifestSound
<1>4. CASE PersistFails
  <2>1. CASE UNCHANGED <<manifest, unsynced>>
    BY <1>4, <2>1 DEF PersistFails, IInv, ManifestSound
  <2> QED
    BY <1>4, <2>1, TruncateManifestSound DEF PersistFails, IInv
<1>5. CASE \/ Resolve \/ Prepare \/ Diff \/ Open \/ Close \/ Return \/ OpenFails \/ CloseFails
           \/ Environment \/ UNCHANGED vars
           \/ \E p \in Paths : UploadVanished(p) \/ DeleteFails(p)
  <2>1. UNCHANGED <<mirror, manifest, unsynced, dropped>>
    BY <1>5 DEF Resolve, Prepare, Diff, Open, Close, Return, EndOfRun, OpenFails, CloseFails,
                Environment, WriteSource, PeriodEnds, EditExclude, UploadVanished, DeleteFails, vars
  <2> QED
    BY <2>1 DEF IInv, ManifestSound
<1> QED
  BY <1>1, <1>2, <1>3, <1>4, <1>5 DEF Next, Progress, Failure

-----------------------------------------------------------------------------
(***************************************************************************)
(* ReportedMeansStored.                                                    *)
(***************************************************************************)
\* A file found unchanged is stored, if its entry can be trusted.
LEMMA UnchangedMeansStored ==
    ASSUME TypeInv, NEW p \in Files, NEW d \in {NoDigest, ContentOf[seen[p]]},
           Unchanged(p, loaded[p], d), Describes(loaded[p], mirror[period][p])
    PROVE  mirror[period][p] = ContentOf[seen[p]]
<1>1. /\ loaded[p] \in Entries /\ seen[p] \in Versions
      /\ mirror[period][p] = ContentOf[loaded[p].stat]
      /\ loaded[p].digest \in {NoDigest, mirror[period][p]}
  BY DEF TypeInv, TypeOK, Files, Unchanged, Describes
<1>2. loaded[p].stat \in Versions /\ SizeOf[loaded[p].stat] = SizeOf[seen[p]]
  BY <1>1 DEF Entries, Unchanged
<1>3. CASE SameMtime(p, loaded[p].stat, seen[p])
  BY <1>1, <1>2, <1>3, FingerprintAssumption DEF SameMtime
<1>4. CASE loaded[p].digest # NoDigest /\ d = loaded[p].digest
  BY <1>1, <1>4
<1> QED
  BY <1>3, <1>4 DEF Unchanged

LEMMA TrustedEntry ==
    ASSUME IInv, pc # "idle", NEW p \in Paths \ unsynced[period]
    PROVE  Describes(manifest[period][p], mirror[period][p])
BY DEF IInv, ManifestSound, PeriodsInOrder, TypeInv, TypeOK, Periods

LEMMA DiffReported == IInv /\ Diff => ReportedMeansStored'
<1> SUFFICES ASSUME IInv, Diff, pc' = "done",
                    NEW p \in Paths \ (unsynced[period] \union raced \union vanished)
             PROVE  /\ seen[p] # Absent => mirror[period][p] = ContentOf[seen[p]]
                    /\ seen[p] = Absent /\ p \notin ignored =>
                         mirror[period][p] = Absent \/ manifest[period][p] # NoEntry
  BY DEF Diff, ReportedMeansStored, UpToDateAt, world, disk, result, ghosts
<1>1. toUpload' = {} /\ toDelete' = {} /\ pc = "diffing"
  BY DEF Diff
<1>2. loaded = manifest[period] /\ Describes(manifest[period][p], mirror[period][p])
  BY <1>1, TrustedEntry DEF IInv, RunInv, LoadedNow
<1>3. ASSUME p \in Files PROVE mirror[period][p] = ContentOf[seen[p]]
  <2>1. Unchanged(p, loaded[p], digest'[p])
    BY <1>1, <1>3 DEF Diff
  <2>2. FileNow(p) = seen[p]
    BY <1>1, <1>3, FreshFile DEF IInv, RunInv
  <2>3. digest'[p] \in {NoDigest, ContentOf[seen[p]]}
    BY <2>2 DEF Diff, DigestOf
  <2> QED
    BY <1>2, <1>3, <2>1, <2>3, UnchangedMeansStored DEF IInv
<1>4. p \notin Files /\ p \notin ignored => manifest[period][p] = NoEntry
  BY <1>1, <1>2 DEF Diff, StaleEntries
<1>5. manifest[period][p] = NoEntry => mirror[period][p] = Absent
  BY <1>2 DEF Describes
<1> QED
  BY <1>3, <1>4, <1>5 DEF Files

LEMMA PersistReported == IInv /\ Persist => ReportedMeansStored'
<1> SUFFICES ASSUME IInv, Persist, outcome \in {"skipped", "success"},
                    NEW p \in Paths, p \notin unsynced'[period], p \notin raced, p \notin vanished
             PROVE  /\ seen[p] # Absent => mirror[period][p] = ContentOf[seen[p]]
                    /\ seen[p] = Absent =>
                         mirror[period][p] = Absent \/ manifest'[period][p] # NoEntry
  BY DEF Persist, ReportedMeansStored, UpToDateAt, world, diff, todo, result
<1>1. /\ pc = "persisting" /\ period \in Periods
      /\ manifest'[period] = NextManifest
      /\ outcome = "success" /\ failed = {} /\ toUpload = {}
      /\ loaded = manifest[period]
  BY DEF Persist, IInv, TypeInv, TypeOK, RunInv, OutcomeFits, LoadedNow, Stored
<1>2. p \notin uploaded \union deleted => p \in Paths \ unsynced[period]
  BY <1>1 DEF Persist, IInv, TypeInv, TypeOK
<1>3. CASE p \in uploaded
  BY <1>1, <1>3 DEF IInv, RunInv, UploadedStored, Stored, TypeInv, TypeOK, Files
<1>4. CASE p \in deleted
  BY <1>1, <1>4 DEF IInv, RunInv, DeletedGone, Stored, TypeInv, TypeOK, Files
<1>5. CASE p \notin uploaded \union deleted
  <2>1. Describes(loaded[p], mirror[period][p])
    BY <1>1, <1>2, <1>5, TrustedEntry
  <2>2. ASSUME p \in Files PROVE mirror[period][p] = ContentOf[seen[p]]
    <3>1. Unchanged(p, loaded[p], digest[p])
      BY <1>1, <1>5, <2>2 DEF IInv, RunInv, LeftAlone, Stored
    <3>2. digest[p] \in {NoDigest, ContentOf[seen[p]]}
      BY <1>1, <2>2 DEF IInv, RunInv, DigestsRead, Stored
    <3> QED
      BY <2>1, <2>2, <3>1, <3>2, UnchangedMeansStored DEF IInv
  <2>3. NextManifest[p] = loaded[p]
    BY <1>5 DEF NextManifest
  <2> QED
    BY <1>1, <2>1, <2>2, <2>3 DEF Describes, Files
<1> QED
  BY <1>3, <1>4, <1>5

LEMMA ReportedStep == IInv /\ [Next]_vars => ReportedMeansStored'
<1> SUFFICES ASSUME IInv, [Next]_vars PROVE ReportedMeansStored'
  OBVIOUS
<1> USE DEF ReportedMeansStored, world, disk, run, diff, todo, result, ghosts
<1>1. CASE Diff \/ Persist
  BY <1>1, DiffReported, PersistReported
<1>2. CASE \/ Resolve \/ Prepare \/ Open \/ Close \/ Retain \/ Return
           \/ OpenFails \/ CloseFails \/ PersistFails \/ Crash
           \/ \E p \in Paths : Upload(p) \/ UploadVanished(p) \/ Delete(p) \/ DeleteFails(p)
                                \/ UploadFails(p)
  <2>1. ~(pc' = "done" /\ outcome' \in {"skipped", "success"})
    BY <1>2 DEF Resolve, Prepare, Open, Close, Retain, Return, EndOfRun, OpenFails, CloseFails,
                PersistFails, Crash, Upload, UploadVanished, Delete, DeleteFails, UploadFails
  <2> QED
    BY <2>1
<1>3. CASE Environment \/ UNCHANGED vars
  <2>1. UNCHANGED <<mirror, manifest, pc, outcome, period, ignored, seen, vanished, unsynced>>
        /\ raced \subseteq raced'
    BY <1>3 DEF Environment, WriteSource, PeriodEnds, EditExclude, vars
  <2> QED
    BY <2>1 DEF IInv, UpToDateAt
<1> QED
  BY <1>1, <1>2, <1>3 DEF Next, Progress, Failure

LEMMA IInvStep == IInv /\ [Next]_vars => IInv'
BY TypeInvStep, OrderStep, RunInvStep, ManifestSoundStep, ReportedStep DEF IInv

LEMMA IInvAlways == Spec => []IInv
BY InitIInv, IInvStep, PTL DEF Spec

\* Whatever fails, and whenever: an entry of a manifest that was written after
\* the last touch of its copy describes that copy, and a path without an entry
\* has none.
THEOREM ManifestTellsTheTruth == Spec => []ManifestSound
<1>1. IInv => ManifestSound
  BY DEF IInv
<1> QED
  BY <1>1, IInvAlways, PTL

\* A run that reports success, or that a destination is up to date, has stored
\* every file as it saw it.
THEOREM ReportsAreTrue == Spec => []ReportedMeansStored
<1>1. IInv => ReportedMeansStored
  BY DEF IInv
<1> QED
  BY <1>1, IInvAlways, PTL

\* No copy goes but one of a file that is no longer listed and not excluded, or
\* one in a folder that retention removes.
THEOREM NoCopyGoesUnasked == Spec => OnlyUnlistedCopiesGo
<1> DEFINE A == \A k \in Periods \ dropped', p \in Paths :
                  mirror[k][p] # Absent /\ mirror'[k][p] = Absent =>
                    k = period /\ p \notin Files /\ p \notin ignored
<1>1. IInv /\ [Next]_vars => [A]_vars
  <2> SUFFICES ASSUME IInv, Next, NEW k \in Periods \ dropped', NEW p \in Paths,
                      mirror[k][p] # Absent, mirror'[k][p] = Absent
               PROVE  k = period /\ p \notin Files /\ p \notin ignored
    OBVIOUS
  <2> USE DEF world, disk, run, diff, todo, result, ghosts
  <2>1. ASSUME NEW q \in Paths, Delete(q)
        PROVE  k = period /\ p \notin Files /\ p \notin ignored
    <3>1. q \in toDelete /\ q \notin Files /\ q \notin ignored
      BY <2>1 DEF Delete, IInv, TypeInv, TypeOK, RunInv, OncePerFile
    <3>2. k = period /\ p = q
      BY <2>1 DEF Delete, SetCopy, IInv, TypeInv, TypeOK
    <3> QED
      BY <3>1, <3>2
  <2>2. ASSUME NEW q \in Paths, Upload(q)
        PROVE  FALSE
    <3>1. ContentOf[FileNow(q)] # Absent
      BY <2>2, ContentIsCopy, IncrementalAssumption DEF Upload, IInv, TypeInv
    <3> QED
      BY <2>2, <3>1 DEF Upload, SetCopy, IInv, TypeInv, TypeOK
  <2>3. ASSUME NEW q \in Paths, UploadFails(q)
        PROVE  FALSE
    BY <2>3, IncrementalAssumption DEF UploadFails, SetCopy, IInv, TypeInv, TypeOK
  <2>4. CASE Retain
    BY <2>4 DEF Retain
  <2>5. CASE Crash
    BY <2>5, IncrementalAssumption DEF Crash, IInv, TypeInv, TypeOK
  <2>6. CASE \/ Environment \/ Resolve \/ Prepare \/ Diff \/ Open \/ Close \/ Persist \/ Return
             \/ OpenFails \/ CloseFails \/ PersistFails
             \/ \E q \in Paths : UploadVanished(q) \/ DeleteFails(q)
    BY <2>6 DEF Environment, WriteSource, PeriodEnds, EditExclude, Resolve, Prepare, Diff, Open,
                Close, Persist, Return, OpenFails, CloseFails, PersistFails,
                UploadVanished, DeleteFails
  <2> QED
    BY <2>1, <2>2, <2>3, <2>4, <2>5, <2>6 DEF Next, Progress, Failure
<1>2. Spec => []IInv
  BY IInvAlways
<1> QED
  BY <1>1, <1>2, PTL DEF Spec, OnlyUnlistedCopiesGo
=============================================================================
