---------------------------- MODULE WebClientProofs ----------------------------
(***************************************************************************)
(* What the restore page asks for, what the forms send and may change, and *)
(* what the restore jobs promise, for all destinations, snapshots, files,  *)
(* fields, hosts and databases, and whatever other clients do; what the    *)
(* stream of events shows of the runs.                                     *)
(***************************************************************************)
EXTENDS WebClient, TLAPS

\* The restore jobs alone, and what is proved of them.
JobsP == INSTANCE RestoreJobsProofs
-----------------------------------------------------------------------------
\* The restore page.  A selection is one of files of the snapshot that is shown,
\* but when a fetch of the destinations has brought the preselected one back; a
\* dialog that asks for a restore covers one.
SelectionIsListed ==
    /\ selected # {} =>
         /\ None \notin {destId, periodKey}
         /\ selected \subseteq Holds[destId][periodKey] \/ destId = Preselected
    /\ dialog = "confirm" => selected # {}

PageInv == SelectionIsListed /\ AsksForWhatIsListed

LEMMA InitPageInv == Init => PageInv
BY DEF Init, Page!Init, PageInv, SelectionIsListed, AsksForWhatIsListed, Page!AsksForWhatIsListed

LEMMA NextPageInv == PageInv /\ [Next]_vars => PageInv'
<1> SUFFICES ASSUME PageInv, [Next]_vars PROVE PageInv'
  OBVIOUS
<1> USE DEF PageInv, SelectionIsListed, AsksForWhatIsListed
<1>1. ASSUME NEW d \in Dests \union {None}, Page!ChooseDestination(d) PROVE PageInv'
  BY <1>1 DEF Page!ChooseDestination, Page!AsksForWhatIsListed
<1>2. ASSUME NEW p \in Periods \union {None}, Page!ChoosePeriod(p) PROVE PageInv'
  BY <1>2 DEF Page!ChoosePeriod, Page!AsksForWhatIsListed
<1>3. CASE Page!DestinationsFetched
  BY <1>3 DEF Page!DestinationsFetched, Page!AsksForWhatIsListed
<1>4. ASSUME NEW paths \in SUBSET Files, NEW select \in BOOLEAN, Page!TogglePaths(paths, select)
      PROVE  PageInv'
  <2>1. selected' # {} => None \notin {destId, periodKey}
    BY <1>4 DEF Page!TogglePaths, Page!Listed
  <2>2. selected' \subseteq Holds[destId][periodKey] \/ destId = Preselected \/ selected' = {}
    BY <1>4, <2>1 DEF Page!TogglePaths, Page!Listed
  <2> QED
    BY <1>4, <2>1, <2>2 DEF Page!TogglePaths, Page!AsksForWhatIsListed
<1>5. CASE Page!OpenConfirm
  BY <1>5 DEF Page!OpenConfirm, Page!CanRestore, Page!choice, Page!AsksForWhatIsListed
<1>6. CASE Page!ConfirmRestore
  <2>1. CASE None \in {destId, periodKey}
    BY <1>6, <2>1 DEF Page!ConfirmRestore, Page!choice, Page!AsksForWhatIsListed
  <2>2. CASE None \notin {destId, periodKey}
    <3>1. /\ pageSending'.whole = FALSE /\ pageSending'.files = selected
          /\ pageSending'.dest = destId /\ pageSending'.period = periodKey
      BY <1>6, <2>2 DEF Page!ConfirmRestore
    <3>2. Page!AsksForWhatIsListed'
      BY <1>6, <3>1 DEF Page!ConfirmRestore, Page!AsksForWhatIsListed
    <3> QED
      BY <1>6, <3>2 DEF Page!ConfirmRestore, Page!choice
  <2> QED
    BY <2>1, <2>2
<1>7. CASE \/ Page!OpenCancel \/ Page!ConfirmCancel \/ Page!CloseDialog \/ Page!RefuseStart
           \/ Page!AnswerCancel \/ Page!FetchActive
           \/ \E j \in PageJobs, forgotten \in SUBSET PageJobs : Page!AnswerStart(j, forgotten)
  BY <1>7 DEF Page!OpenCancel, Page!ConfirmCancel, Page!CloseDialog, Page!RefuseStart, Page!AnswerCancel,
              Page!FetchActive, Page!AnswerStart, Page!choice, Page!AsksForWhatIsListed
<1>8. CASE UNCHANGED Page!client
  BY <1>8 DEF Page!client, Page!choice, Page!AsksForWhatIsListed
<1>9. Page!Next \/ UNCHANGED pageVars
  BY DEF Next, vars, OfJobs, OfPage, OfFeed, OfForm, OfSource
<1>10. CASE UNCHANGED pageVars
  BY <1>8, <1>10 DEF pageVars, Page!client, Page!choice
<1> QED
  BY <1>1, <1>2, <1>3, <1>4, <1>5, <1>6, <1>7, <1>8, <1>9, <1>10 DEF Page!Next, Page!UserStep

\* The page never asks for a snapshot as a whole, and asks for files of the
\* snapshot they were chosen from, but when a fetch of the destinations has
\* brought the preselected one back (canRestore, confirmRestore).
THEOREM PageAsksForWhatIsListed == Spec => []AsksForWhatIsListed
<1>1. PageInv => AsksForWhatIsListed
  BY DEF PageInv
<1> QED
  BY <1>1, InitPageInv, NextPageInv, PTL DEF Spec
-----------------------------------------------------------------------------
\* The edit form: what is shown of the field f when the data are d.  Data without
\* `discord` show what was there before them.
Shows(values, d, f) ==
    IF d = None THEN kind # "page" /\ values[f] = Default[f]
    ELSE d.values = None \/ values[f] = d.values[f]

FormInv ==
    /\ Form!TypeOK
    /\ saved = None => kind = "notifications"
    /\ form # None => \A f \in Fields : f \in edited \/ Shows(form, cached, f)
    /\ saving # None => \A f \in Fields : f \in meant \/ Shows(saving, fetched, f)

LEMMA InitFormInv == Init => FormInv
<1>1. Form!FormAssumption
  BY WebClientAssumption
<1> QED
  BY <1>1 DEF Form!FormAssumption, Init, Form!Init, Form!TypeOK, FormInv, Shows

LEMMA NextFormInv == FormInv /\ [Next]_vars => FormInv'
<1> SUFFICES ASSUME FormInv, [Next]_vars PROVE FormInv'
  OBVIOUS
<1>0. Form!FormAssumption
  BY WebClientAssumption
<1> USE DEF FormInv, Form!TypeOK, Form!server, Form!client
<1>1. ASSUME NEW f \in Fields, NEW v \in Values, Form!EditElsewhere(f, v) PROVE FormInv'
  <2>1. saved' \in [Fields -> Values]
    BY <1>0, <1>1 DEF Form!EditElsewhere, Form!Kept, Form!FormAssumption
  <2> QED
    BY <1>0, <1>1, <2>1 DEF Form!FormAssumption, Form!EditElsewhere, Shows
<1>2. ASSUME NEW f \in Fields, NEW v \in Values, Form!EditField(f, v) PROVE FormInv'
  <2>1. form \in [Fields -> Values] /\ form' = [form EXCEPT ![f] = v]
        /\ edited' = edited \union {f}
        /\ UNCHANGED <<kind, Form!server, answer, cached, saving, meant, fetched>>
    BY <1>2 DEF Form!EditField
  <2>2. form' \in [Fields -> Values] /\ \A g \in Fields \ {f} : form'[g] = form[g]
    BY <2>1
  <2>3. \A g \in Fields : g \in edited' \/ Shows(form', cached', g)
    BY <1>2, <2>1, <2>2 DEF Shows, Form!EditField
  <2>4. Form!TypeOK'
    BY <2>1, <2>2
  <2> QED
    BY <2>1, <2>3, <2>4 DEF Shows
<1>3. CASE Form!NewsComes
  BY <1>0, <1>3 DEF Form!NewsComes, Shows, Form!FormAssumption
<1>4. CASE Form!Fetch
  BY <1>4 DEF Form!Fetch, Shows, Form!Answers
<1>5. CASE Form!AnswerArrives
  BY <1>5 DEF Form!AnswerArrives, Shows, Form!Answers
<1>6. CASE Form!FetchFails
  BY <1>6 DEF Form!FetchFails, Shows
<1>7. CASE Form!Save
  BY <1>7 DEF Form!Save, Shows
<1>8. CASE Form!SaveArrives
  <2>1. Form!Kept \in [Fields -> Values]
    BY <1>0 DEF Form!Kept, Form!FormAssumption
  <2>2. saved' \in [Fields -> Values]
    BY <1>8, <2>1 DEF Form!SaveArrives
  <2> QED
    BY <1>0, <1>8, <2>2 DEF Form!FormAssumption, Form!SaveArrives, Shows, Form!Answers
<1>9. CASE Form!SaveFails
  BY <1>9 DEF Form!SaveFails, Shows
<1>10. Form!Next \/ UNCHANGED formVars
  BY DEF Next, vars, OfJobs, OfPage, OfFeed, OfForm, OfSource
<1>11. CASE UNCHANGED formVars
  BY <1>11 DEF formVars, Shows
<1>12. CASE Form!DropNotifications
  BY <1>12 DEF Form!DropNotifications, Shows
<1> QED
  BY <1>1, <1>2, <1>3, <1>4, <1>5, <1>6, <1>7, <1>8, <1>9, <1>10, <1>11, <1>12 DEF Form!Next

SaveIsOfWhatWasSeen ==
    saving # None /\ saved' # saved /\ saving' = None =>
      \A f \in Fields \ Fixed : saved = None \/ saved'[f] # saved[f] =>
        \/ f \in meant
        \/ /\ fetched = None
           /\ kind # "page" /\ saved'[f] = Default[f]
        \/ /\ fetched # None
           /\ fetched.values = None \/ saved'[f] = fetched.values[f]

\* A save takes back nothing that this client has seen: a field it changes was
\* edited here, or the change it takes back was never fetched, or the form was a
\* card that no answer had filled (handleSave, the effects on the data).  After
\* an answer without `discord`, which leaves its card as it was, nothing is said.
THEOREM SavesOnlyWhatWasSeen == Spec => SavesWhatItShows
<1>1. SavesWhatItShows <=> [][SaveIsOfWhatWasSeen]_(Form!vars)
  BY DEF SavesWhatItShows, Form!SavesWhatItShows, SaveIsOfWhatWasSeen
<1>2. FormInv /\ [Next]_vars => [SaveIsOfWhatWasSeen]_(Form!vars)
  <2>1. SUFFICES ASSUME FormInv, [Next]_vars, saving # None, saved' # saved, saving' = None,
                        NEW f \in Fields \ Fixed, saved = None \/ saved'[f] # saved[f]
                 PROVE  \/ f \in meant
                        \/ /\ fetched = None
                           /\ kind # "page" /\ saved'[f] = Default[f]
                        \/ /\ fetched # None
                           /\ fetched.values = None \/ saved'[f] = fetched.values[f]
    BY DEF SaveIsOfWhatWasSeen
  <2>2. Form!Next
    BY <2>1 DEF Next, vars, formVars, OfJobs, OfPage, OfFeed, OfForm, OfSource
  <2>3. Form!SaveArrives
    BY <2>1, <2>2 DEF Form!Next, Form!EditElsewhere, Form!EditField, Form!DropNotifications,
                Form!NewsComes, Form!Fetch, Form!AnswerArrives, Form!FetchFails, Form!Save, Form!SaveFails, Form!server, Form!client
  <2>4. saved'[f] = saving[f]
    <3>1. saved'[f] = IF Form!LeftOut(f) THEN Form!Kept[f] ELSE saving[f]
      BY <2>1, <2>3 DEF Form!SaveArrives
    <3>2. Form!LeftOut(f) => saved # None
      BY <2>1 DEF FormInv, Form!LeftOut
    <3> QED
      BY <2>1, <3>1, <3>2 DEF Form!Kept
  <2>5. f \in meant \/ Shows(saving, fetched, f)
    BY <2>1 DEF FormInv
  <2> QED
    BY <2>4, <2>5 DEF Shows
<1> QED
  BY <1>1, <1>2, InitFormInv, NextFormInv, PTL DEF Spec
-----------------------------------------------------------------------------
\* The form of a new source.  A field of OfType is empty, or was chosen for the
\* type that is shown.
Carried == Source!FormFields \intersect Source!OfType
ChosenForType ==
    /\ type \in Types
    /\ DOMAIN value = Source!FormFields /\ DOMAIN under = Carried
    /\ \A f \in Carried : value[f] # None => under[f] = type

LEMMA InitChosen == Init => ChosenForType
<1>1. Source!SourceFormAssumption
  BY WebClientAssumption
<1> QED
  BY <1>1 DEF Source!SourceFormAssumption, Init, Source!Init, ChosenForType, Carried, Source!OfType

LEMMA SetTypeChosen ==
    ASSUME ChosenForType, NEW t \in Types, Source!SetType(t)
    PROVE  ChosenForType'
<1>1. Source!OfType \subseteq Source!Reset
  BY DEF Source!OfType, Source!Reset
<1>2. /\ type' = t
      /\ value' = [f \in Source!FormFields |-> IF f \in Source!Reset THEN None ELSE value[f]]
      /\ under' = [f \in DOMAIN under |-> IF f \in Source!Reset THEN None ELSE under[f]]
  BY DEF Source!SetType
<1> QED
  BY <1>1, <1>2 DEF ChosenForType, Carried

LEMMA SetFieldChosen ==
    ASSUME ChosenForType, NEW f, NEW v, Source!SetField(f, v)
    PROVE  ChosenForType'
<1>1. /\ type' = type
      /\ value' = [value EXCEPT ![f] = v]
      /\ under' = [g \in DOMAIN under |-> IF g = f THEN type ELSE under[g]]
  BY DEF Source!SetField
<1> QED
  BY <1>1 DEF ChosenForType, Carried

LEMMA NextChosen == ChosenForType /\ [Next]_vars => ChosenForType'
<1> SUFFICES ASSUME ChosenForType, [Next]_vars PROVE ChosenForType'
  OBVIOUS
<1>1. ASSUME NEW t \in Types, Source!SetType(t) PROVE ChosenForType'
  BY <1>1, SetTypeChosen
<1>2. ASSUME NEW f \in Source!FormFields, NEW v \in Source!Offered(f), Source!SetField(f, v)
      PROVE  ChosenForType'
  BY <1>2, SetFieldChosen
<1>3. CASE UNCHANGED <<type, value, under>>
  BY <1>3 DEF ChosenForType
<1>4. CASE Source!FetchDbList
  BY <1>3, <1>4 DEF Source!FetchDbList
<1>5. ASSUME NEW s \in dbAsked, Source!DbListArrives(s) PROVE ChosenForType'
  BY <1>3, <1>5 DEF Source!DbListArrives
<1>6. CASE Source!FetchVolumes
  BY <1>3, <1>6 DEF Source!FetchVolumes
<1>7. ASSUME NEW c \in volAsked, Source!VolumesArrive(c) PROVE ChosenForType'
  BY <1>3, <1>7 DEF Source!VolumesArrive
<1>8. CASE Source!ContainersArrive
  BY <1>3, <1>8 DEF Source!ContainersArrive
<1>9. CASE Source!HandleCreate
  BY <1>3, <1>9 DEF Source!HandleCreate
<1>10. CASE Source!CreateFails
  BY <1>3, <1>10 DEF Source!CreateFails
<1>11. Source!Next \/ UNCHANGED sourceVars
  BY DEF Next, vars, OfJobs, OfPage, OfFeed, OfForm, OfSource
<1>12. CASE UNCHANGED sourceVars
  BY <1>3, <1>12 DEF sourceVars
<1> QED
  BY <1>1, <1>2, <1>4, <1>5, <1>6, <1>7, <1>8, <1>9, <1>10, <1>11, <1>12 DEF Source!Next

\* No container, database or volume that was chosen for another type of source
\* is sent with a new one, whatever answers come late (the effect on `type` in
\* use-new-source.tsx, buildBody).
THEOREM NothingOfAnotherType == Spec => []SentAsChosen
<1>1. ChosenForType => SentAsChosen
  <2>1. ASSUME type \in Types PROVE Source!FieldsOf(type) \subseteq Source!FormFields
    BY <2>1 DEF Source!FormFields
  <2> QED
    BY <2>1 DEF ChosenForType, Carried, SentAsChosen, Source!SentAsChosen
<1> QED
  BY <1>1, InitChosen, NextChosen, PTL DEF Spec
-----------------------------------------------------------------------------
\* The restore jobs.  The two instances of RestoreJobs are defined alike.
LEMMA SameCardinality ==
    /\ \A S : Jobs!IsFiniteSet(S) = JobsP!IsFiniteSet(S)
    /\ \A S : Jobs!Cardinality(S) = JobsP!Cardinality(S)
BY DEF Jobs!IsFiniteSet, JobsP!IsFiniteSet, Jobs!Cardinality, JobsP!Cardinality

LEMMA SameCount == \A j, o : Jobs!Count(j, o) = JobsP!Count(j, o)
BY SameCardinality DEF Jobs!Count, JobsP!Count

LEMMA SameStart ==
    ASSUME NEW j, NEW req
    PROVE  Jobs!StartRestoreJob(j, req) <=> JobsP!StartRestoreJob(j, req)
<1>1. \A S : Jobs!OldestOf(S) = JobsP!OldestOf(S)
  BY DEF Jobs!OldestOf, JobsP!OldestOf
<1>2. \A S : Jobs!PruneJobs(S) = JobsP!PruneJobs(S)
  BY <1>1, SameCardinality DEF Jobs!PruneJobs, JobsP!PruneJobs, Jobs!Running, JobsP!Running
<1> QED
  BY <1>2 DEF Jobs!StartRestoreJob, JobsP!StartRestoreJob, Jobs!MayStart, JobsP!MayStart,
     Jobs!Running, JobsP!Running, Jobs!Working, JobsP!Working, Jobs!AtWork, JobsP!AtWork

LEMMA SameSettle ==
    ASSUME NEW j, NEW status
    PROVE  Jobs!Settle(j, status) <=> JobsP!Settle(j, status)
BY DEF Jobs!Settle, JobsP!Settle

LEMMA SameEscapes == ASSUME NEW j PROVE Jobs!Escapes(j) <=> JobsP!Escapes(j)
BY SameCount DEF Jobs!Escapes, JobsP!Escapes

LEMMA SameWorkerStep == ASSUME NEW j PROVE Jobs!WorkerStep(j) <=> JobsP!WorkerStep(j)
<1>1. Jobs!List(j) <=> JobsP!List(j)
  BY DEF Jobs!List, JobsP!List, Jobs!Selection, JobsP!Selection, Jobs!Fails, JobsP!Fails,
     Jobs!Progress, JobsP!Progress
<1>2. Jobs!Fail(j) <=> JobsP!Fail(j)
  BY SameSettle, SameEscapes DEF Jobs!Fail, JobsP!Fail, Jobs!Fails, JobsP!Fails
<1>3. Jobs!Connect(j) <=> JobsP!Connect(j)
  BY DEF Jobs!Connect, JobsP!Connect
<1>4. Jobs!CopyFile(j) <=> JobsP!CopyFile(j)
  BY DEF Jobs!CopyFile, JobsP!CopyFile, Jobs!Fails, JobsP!Fails, Jobs!Progress, JobsP!Progress
<1>5. Jobs!Finish(j) <=> JobsP!Finish(j)
  BY SameSettle, SameCount, SameEscapes DEF Jobs!Finish, JobsP!Finish, Jobs!FinalStatus, JobsP!FinalStatus
<1>6. ASSUME NEW f PROVE Jobs!PassFile(j, f) <=> JobsP!PassFile(j, f)
  BY DEF Jobs!PassFile, JobsP!PassFile, Jobs!MayTake, JobsP!MayTake, Jobs!IsSkipped, JobsP!IsSkipped,
     Jobs!Fails, JobsP!Fails, Jobs!Progress, JobsP!Progress
<1>7. ASSUME NEW f PROVE Jobs!OpenFile(j, f) <=> JobsP!OpenFile(j, f)
  BY DEF Jobs!OpenFile, JobsP!OpenFile, Jobs!MayTake, JobsP!MayTake, Jobs!IsSkipped, JobsP!IsSkipped,
     Jobs!Writers, JobsP!Writers
<1> QED
  BY <1>1, <1>2, <1>3, <1>4, <1>5, <1>6, <1>7 DEF Jobs!WorkerStep, JobsP!WorkerStep

LEMMA SameNext == Jobs!Next <=> JobsP!Next
<1>1. ASSUME NEW j PROVE Jobs!CancelRestoreJob(j) <=> JobsP!CancelRestoreJob(j)
  BY DEF Jobs!CancelRestoreJob, JobsP!CancelRestoreJob, Jobs!Running, JobsP!Running, Jobs!work, JobsP!work
<1>2. Jobs!Crash <=> JobsP!Crash
  BY DEF Jobs!Crash, JobsP!Crash, Jobs!Fails, JobsP!Fails, Jobs!Working, JobsP!Working, Jobs!AtWork, JobsP!AtWork
<1> QED
  BY <1>1, <1>2, SameStart, SameWorkerStep DEF Jobs!Next, JobsP!Next

\* A behaviour of the client and the jobs is one of the jobs.
LEMMA JobsAlone == Spec => JobsP!Spec
<1>1. Init => JobsP!Init
  BY DEF Init, Jobs!Init, JobsP!Init
<1>2. Jobs!Next => JobsP!Next
  BY SameNext
<1>3. UNCHANGED jobVars => UNCHANGED JobsP!vars
  BY DEF jobVars, JobsP!vars, JobsP!work
<1>4. [Next]_vars => [JobsP!Next]_(JobsP!vars)
  BY <1>2, <1>3 DEF Next, vars, OfJobs, OfPage, OfFeed, OfForm, OfSource
<1> QED
  BY <1>1, <1>4, PTL DEF Spec, JobsP!Spec

LEMMA JobsAssumption == JobsP!RestoreAssumption
<1>1. Jobs!RestoreAssumption
  BY WebClientAssumption
<1>2. Jobs!Requests = JobsP!Requests /\ Jobs!FaultKinds = JobsP!FaultKinds
  BY DEF Jobs!Requests, JobsP!Requests, Jobs!FaultKinds, JobsP!FaultKinds
<1> QED
  BY <1>1, <1>2, SameCardinality DEF Jobs!RestoreAssumption, JobsP!RestoreAssumption

\* A job that is shown as running is the active one, and its worker is at work
\* (startRestoreJob, pruneJobs, runJob).
THEOREM ActiveJobRuns == Spec => []RunningIsActive
<1>1. JobsP!Spec => []JobsP!RunningIsActive
  BY JobsAssumption, JobsP!OnlyTheActiveJobRuns
<1>2. JobsP!RunningIsActive => RunningIsActive
  BY DEF RunningIsActive, Jobs!RunningIsActive, JobsP!RunningIsActive, Jobs!Running, JobsP!Running,
     Jobs!Working, JobsP!Working, Jobs!AtWork, JobsP!AtWork
<1> QED
  BY <1>1, <1>2, JobsAlone, PTL

\* The status of a job whose worker is over tells what became of its files
\* (finalStatus, applyResult, listSnapshotFilesWithTimeout).
THEOREM StatusTells == Spec => []StatusTellsOutcome
<1>1. JobsP!Spec => []JobsP!StatusTellsOutcome
  BY JobsAssumption, JobsP!StatusIsTrue
<1>2. \A j : Jobs!Wanted(j) = JobsP!Wanted(j)
  BY DEF Jobs!Wanted, JobsP!Wanted
<1>4. JobsP!StatusTellsOutcome => StatusTellsOutcome
  BY <1>2, SameCount DEF StatusTellsOutcome, Jobs!StatusTellsOutcome, JobsP!StatusTellsOutcome, Jobs!Fails, JobsP!Fails
<1> QED
  BY <1>1, <1>4, JobsAlone, PTL

\* A restored file holds what the snapshot holds, unless a later job has opened it
\* or one that was at work at the same time had to do with it (copyLocalFile,
\* fetchSftpFile, processFiles).
THEOREM RestoredFilesAreOfTheSnapshot == Spec => []RestoredFilesAreWhole
<1>1. JobsP!Spec => []JobsP!RestoredFilesAreWhole
  BY JobsAssumption, JobsP!RestoredFilesHold
<1>2. JobsP!RestoredFilesAreWhole => RestoredFilesAreWhole
  BY DEF RestoredFilesAreWhole, Jobs!RestoredFilesAreWhole, JobsP!RestoredFilesAreWhole
<1> QED
  BY <1>1, <1>2, JobsAlone, PTL

\* The jobs keep the promise of their API: every behaviour of them, seen through
\* their status, is one of RestoreLifecycle (startRestoreJob, cancelRestoreJob,
\* runJob, pruneJobs).
THEOREM JobsKeepWhatIsPromised == Spec => KeepsItsPromise
<1> DEFINE view == [j \in JobIds |-> IF worker[j] = "none" THEN "unknown"
                                     ELSE IF j \in jobs THEN job[j].status ELSE "forgotten"]
<1>1. JobsP!Spec => JobsP!KeepsItsPromise
  BY JobsAssumption, JobsP!JobsKeepTheirPromise
<1>2. JobsP!KeepsItsPromise <=> JobsP!Life!Init /\ [][JobsP!Life!Next]_view
  BY DEF JobsP!KeepsItsPromise, JobsP!Life!Spec
<1>3. KeepsItsPromise <=> Jobs!Life!Init /\ [][Jobs!Life!Next]_view
  BY DEF KeepsItsPromise, Jobs!KeepsItsPromise, Jobs!Life!Spec
<1> HIDE DEF view
<1>4. JobsP!Life!Init => Jobs!Life!Init
  BY DEF JobsP!Life!Init, Jobs!Life!Init
<1>5. JobsP!Life!Next => Jobs!Life!Next
  BY DEF JobsP!Life!Next, Jobs!Life!Next, JobsP!Life!Start, Jobs!Life!Start, JobsP!Life!Settle, Jobs!Life!Settle,
     JobsP!Life!Restart, Jobs!Life!Restart, JobsP!Life!Final, Jobs!Life!Final
<1>6. [JobsP!Life!Next]_view => [Jobs!Life!Next]_view
  BY <1>5
<1> QED
  BY <1>1, <1>2, <1>3, <1>4, <1>6, JobsAlone, PTL
-----------------------------------------------------------------------------
\* The run feed.  Frames tell of runs of the registry.
Ended     == {"success", "partial", "failed", "skipped"}
RunStates == {"unknown", "running", "forgotten"} \union Ended
RunFrames == [id : RunIds, phase : {"active", "settled"}]

\* The end of the run r is on the wire, after the n-th frame.
EndOnWire(w, r, n) == \E j \in 1..Len(w) : j > n /\ w[j].id = r /\ w[j].phase = "settled"

\* A run shown in progress is, or was missed, or its end is on its way.
Followed(a, m, w, frame, n) ==
    frame.phase = "active" => frame.id \in a \/ frame.id \in m \/ EndOnWire(w, frame.id, n)

\* The frames on the wire: those of runs that are over are true.
WireIs(l, a, m, w) ==
    /\ w \in Seq(RunFrames)
    /\ \A i \in 1..Len(w) : Followed(a, m, w, w[i], i)
    /\ \A i \in 1..Len(w) : w[i].phase = "settled" => l[w[i].id] \notin {"running", "unknown"}

FeedIs(l, a, c, w, s, n, k, m) ==
    /\ l \in [RunIds -> RunStates] /\ k \in [RunIds -> RunStates] /\ a \subseteq RunIds
    /\ s \in RunFrames \union {None}
    /\ WireIs(l, a, m, w)
    /\ ~c => w = <<>>
    /\ c /\ a # {} => s # None \/ w # <<>>
    /\ s # None => Followed(a, m, w, s, 0)
    /\ s # None /\ s.phase # "active" => k[s.id] # "running"
    /\ n \in RunIds => k[n] # "running"

FeedInv ==
    /\ FeedIs(runLife, Feed!Active, connected, wire, streamRun, settledRunId, listed, missed)
    /\ revived \subseteq RunIds

LEMMA Finals == Feed!Runs!Final = Ended /\ Feed!Runs!Known = {"running"} \union Ended /\ Ends \subseteq Ended
                /\ None \notin RunFrames /\ None \notin RunIds
BY WebClientAssumption DEF Feed!Runs!Final, Feed!Runs!Known, Ended, Feed!FeedAssumption, Feed!Frames, RunFrames

LEMMA InitFeedInv == Init => FeedInv
<1> SUFFICES ASSUME Init PROVE FeedInv
  OBVIOUS
<1>1. /\ runLife = [r \in RunIds |-> "unknown"] /\ listed = runLife /\ streamRun = None
      /\ settledRunId = None /\ ~connected /\ wire = <<>> /\ revived = {}
  BY DEF Init, Feed!Init, Feed!Runs!Init
<1>2. runLife \in [RunIds -> RunStates] /\ Feed!Active = {}
  BY <1>1 DEF RunStates, Feed!Active
<1>3. WireIs(runLife, Feed!Active, missed, <<>>)
  BY DEF WireIs
<1> QED
  BY <1>1, <1>2, <1>3, Finals DEF FeedInv, FeedIs

\* The runs l become k, those in progress change from a to b, and the end of r
\* alone is told.
Moves(l, k, a, b, p, r) ==
    /\ \A q \in a : q \in b \/ q \in p \/ q = r
    /\ \A q \in RunIds : l[q] \notin {"running", "unknown"} => k[q] \notin {"running", "unknown"}

\* The frame that is shown is true of the runs.
Shown(a, m, w, s) == s # None => Followed(a, m, w, s, 0)

PhaseIn(r, b) == IF r \in b THEN "active" ELSE "settled"

\* A frame is sent to who listens.
LEMMA SendKeeps ==
    ASSUME NEW l, NEW k, NEW a, NEW b, NEW m, NEW p, NEW w, NEW s, s \in RunFrames \union {None},
           WireIs(l, a, m, w), Shown(a, m, w, s),
           NEW r \in RunIds, r \notin b => k[r] \notin {"running", "unknown"},
           m \subseteq p, Moves(l, k, a, b, p, r),
           NEW v, v = Append(w, [id |-> r, phase |-> PhaseIn(r, b)])
    PROVE  WireIs(k, b, p, v) /\ Shown(b, p, v, s) /\ v # <<>>
<1> DEFINE frame == [id |-> r, phase |-> PhaseIn(r, b)]
<1>1. frame \in RunFrames /\ frame.id = r /\ frame.phase = PhaseIn(r, b)
  BY DEF RunFrames, PhaseIn
<1>2. w \in Seq(RunFrames) /\ v = Append(w, frame)
  BY DEF WireIs
<1> HIDE DEF frame
<1>3. /\ v \in Seq(RunFrames) /\ Len(w) \in Nat /\ Len(v) = Len(w) + 1 /\ v[Len(w) + 1] = frame
      /\ \A i \in 1..Len(w) : v[i] = w[i] /\ i \in 1..Len(v) /\ w[i] \in RunFrames
      /\ \A i \in 1..Len(v) : i = Len(w) + 1 \/ i \in 1..Len(w)
  BY <1>1, <1>2
<1>4. ASSUME NEW q, NEW n, EndOnWire(w, q, n) PROVE EndOnWire(v, q, n)
  BY <1>3, <1>4 DEF EndOnWire
<1>5. ASSUME NEW n \in Nat, n <= Len(w), r \notin b PROVE EndOnWire(v, r, n)
  <2>1. Len(w) + 1 \in 1..Len(v) /\ Len(w) + 1 > n
    BY <1>3, <1>5
  <2>2. frame.phase = "settled"
    BY <1>1, <1>5 DEF PhaseIn
  <2> QED
    BY <1>1, <1>3, <2>1, <2>2 DEF EndOnWire
<1>6. ASSUME NEW f \in RunFrames, NEW n \in Nat, n <= Len(w), Followed(a, m, w, f, n)
      PROVE  Followed(b, p, v, f, n)
  <2>1. f.id \in a => f.id \in b \/ f.id \in p \/ EndOnWire(v, f.id, n)
    BY <1>5, <1>6 DEF Moves
  <2> QED
    BY <1>4, <1>6, <2>1 DEF Followed
<1>7. ASSUME NEW i \in 1..Len(v) PROVE Followed(b, p, v, v[i], i)
  <2>1. CASE i = Len(w) + 1
    BY <1>1, <1>3, <2>1 DEF Followed, PhaseIn
  <2>2. CASE i \in 1..Len(w)
    <3>1. w[i] \in RunFrames /\ i \in Nat /\ i <= Len(w) /\ Followed(a, m, w, w[i], i)
      BY <1>3, <2>2 DEF WireIs
    <3> QED
      BY <1>3, <1>6, <2>2, <3>1
  <2> QED
    BY <1>3, <1>7, <2>1, <2>2
<1>8. ASSUME NEW i \in 1..Len(v), v[i].phase = "settled" PROVE k[v[i].id] \notin {"running", "unknown"}
  <2>1. CASE i = Len(w) + 1
    BY <1>1, <1>3, <1>8, <2>1 DEF PhaseIn
  <2>2. CASE i \in 1..Len(w)
    <3>1. w[i].id \in RunIds /\ v[i] = w[i]
      BY <1>3, <2>2 DEF RunFrames
    <3>2. l[w[i].id] \notin {"running", "unknown"}
      BY <1>8, <2>2, <3>1 DEF WireIs
    <3> QED
      BY <3>1, <3>2 DEF Moves
  <2> QED
    BY <1>3, <1>8, <2>1, <2>2
<1>9. Shown(b, p, v, s)
  BY <1>3, <1>6 DEF Shown
<1>10. v # <<>>
  BY <1>3
<1> QED
  BY <1>3, <1>7, <1>8, <1>9, <1>10 DEF WireIs

\* The runs change, and no frame is sent; nobody listens.
LEMMA MissKeeps ==
    ASSUME NEW k, NEW a, NEW b, NEW m, NEW p, NEW s, s # None => Followed(a, m, <<>>, s, 0),
           m \subseteq p, \A q \in a : q \in b \/ q \in p
    PROVE  WireIs(k, b, p, <<>>) /\ (s # None => Followed(b, p, <<>>, s, 0))
<1>1. WireIs(k, b, p, <<>>)
  BY DEF WireIs
<1>2. ASSUME s # None, Followed(a, m, <<>>, s, 0) PROVE Followed(b, p, <<>>, s, 0)
  <2>1. ~EndOnWire(<<>>, s.id, 0)
    BY DEF EndOnWire
  <2> QED
    BY <1>2, <2>1 DEF Followed
<1> QED
  BY <1>1, <1>2

LEMMA PublishKeeps ==
    ASSUME FeedInv, NEW r \in RunIds, Feed!Publish(r), runLife' \in [RunIds -> RunStates],
           revived' \subseteq RunIds, runLife'[r] \in {"running"} \union Ended,
           \A q \in Feed!Active : q \in Feed!Active' \/ runLife'[q] = "forgotten" \/ q = r,
           \A q \in RunIds : runLife[q] \notin {"running", "unknown"} => runLife'[q] \notin {"running", "unknown"}
    PROVE  FeedInv'
<1> DEFINE phase == PhaseIn(r, Feed!Active')
<1>1. /\ wire' = IF connected THEN Append(wire, [id |-> r, phase |-> phase]) ELSE wire
      /\ missed' = missed \union {q \in Feed!Active : runLife'[q] = "forgotten"}
                          \union {q \in {r} : ~connected /\ q \in Feed!Active \ Feed!Active'}
      /\ UNCHANGED <<connected, streamRun, settledRunId, listed>>
  BY DEF Feed!Publish, Feed!Frame, PhaseIn
<1>2. \A q \in Feed!Active : q \in Feed!Active' \/ q \in missed' \/ (connected /\ q = r)
  BY <1>1
<1>3. missed \subseteq missed'
  BY <1>1
<1>4. FeedIs(runLife, Feed!Active, connected, wire, streamRun, settledRunId, listed, missed)
  BY DEF FeedInv
<1>5. Feed!Active' \subseteq RunIds /\ (r \notin Feed!Active' => runLife'[r] \notin {"running", "unknown"})
  BY DEF Feed!Active, Ended
<1>6. PICK k, b, p, v : k = runLife' /\ b = Feed!Active' /\ p = missed' /\ v = wire'
  OBVIOUS
<1>7. /\ WireIs(k, b, p, v) /\ (streamRun # None => Followed(b, p, v, streamRun, 0))
      /\ IF connected THEN v # <<>> ELSE v = <<>>
  <2>1. CASE connected
    <3>1. v = Append(wire, [id |-> r, phase |-> PhaseIn(r, b)])
      BY <1>1, <1>6, <2>1
    <3>2. /\ streamRun \in RunFrames \union {None} /\ WireIs(runLife, Feed!Active, missed, wire)
          /\ Shown(Feed!Active, missed, wire, streamRun)
      BY <1>4 DEF FeedIs, Shown
    <3>3. missed \subseteq p /\ (r \notin b => k[r] \notin {"running", "unknown"})
      BY <1>3, <1>5, <1>6
    <3>4. Moves(runLife, k, Feed!Active, b, p, r)
      BY <1>2, <1>6 DEF Moves
    <3>5. WireIs(k, b, p, v) /\ Shown(b, p, v, streamRun) /\ v # <<>>
      BY <3>1, <3>2, <3>3, <3>4, SendKeeps
    <3> QED
      BY <2>1, <3>5 DEF Shown
  <2>2. CASE ~connected
    <3>1. wire = <<>> /\ (streamRun # None => Followed(Feed!Active, missed, <<>>, streamRun, 0))
      BY <1>4, <2>2 DEF FeedIs
    <3>2. v = <<>>
      BY <1>1, <1>6, <2>2, <3>1
    <3>3. missed \subseteq p /\ \A q \in Feed!Active : q \in b \/ q \in p
      BY <1>2, <1>3, <1>6, <2>2
    <3>4. WireIs(k, b, p, <<>>) /\ (streamRun # None => Followed(b, p, <<>>, streamRun, 0))
      BY <3>1, <3>3, MissKeeps
    <3> QED
      BY <2>2, <3>2, <3>4
  <2> QED
    BY <2>1, <2>2
<1>8. k \in [RunIds -> RunStates] /\ b \subseteq RunIds
  BY <1>5, <1>6
<1>9. FeedIs(k, b, connected, v, streamRun, settledRunId, listed, p)
  BY <1>4, <1>7, <1>8 DEF FeedIs
<1> QED
  BY <1>1, <1>6, <1>9 DEF FeedInv

LEMMA ArrivalKeeps == ASSUME FeedInv, Feed!FrameArrives PROVE FeedInv'
<1> DEFINE frame == Head(wire)
           isNew == frame.phase = "settled" /\ settledRunId # frame.id
<1>1. /\ wire # <<>> /\ wire' = Tail(wire) /\ streamRun' = frame
      /\ settledRunId' = IF isNew THEN frame.id ELSE settledRunId
      /\ listed' = IF isNew THEN runLife ELSE listed
      /\ UNCHANGED <<connected, missed, runLife, revived>>
  BY DEF Feed!FrameArrives, Feed!runs
<1>2. /\ runLife \in [RunIds -> RunStates] /\ listed \in [RunIds -> RunStates]
      /\ Feed!Active \subseteq RunIds
      /\ WireIs(runLife, Feed!Active, missed, wire)
      /\ ~connected => wire = <<>>
      /\ settledRunId \in RunIds => listed[settledRunId] # "running"
  BY DEF FeedInv, FeedIs
<1>3. PICK w : w = Tail(wire)
  OBVIOUS
<1>4. /\ wire \in Seq(RunFrames) /\ w \in Seq(RunFrames) /\ Len(w) = Len(wire) - 1
      /\ Len(wire) \in Nat /\ Len(wire) >= 1 /\ frame = wire[1] /\ frame \in RunFrames
      /\ \A i \in 1..Len(w) : w[i] = wire[i + 1] /\ i + 1 \in 1..Len(wire)
  BY <1>1, <1>2, <1>3 DEF WireIs
<1> HIDE DEF frame
<1>5. \A i \in 1..Len(wire) : i > 1 => i - 1 \in 1..Len(w) /\ w[i - 1] = wire[i]
  BY <1>4
<1>6. ASSUME NEW q, NEW n \in Nat, EndOnWire(wire, q, n + 1) PROVE EndOnWire(w, q, n)
  <2>1. PICK j \in 1..Len(wire) : j > n + 1 /\ wire[j].id = q /\ wire[j].phase = "settled"
    BY <1>6 DEF EndOnWire
  <2>2. j - 1 \in 1..Len(w) /\ j - 1 > n /\ w[j - 1] = wire[j]
    BY <1>4, <1>5, <2>1
  <2> QED
    BY <2>1, <2>2 DEF EndOnWire
<1>7. WireIs(runLife, Feed!Active, missed, w)
  <2>1. ASSUME NEW i \in 1..Len(w) PROVE Followed(Feed!Active, missed, w, w[i], i)
    <3>1. Followed(Feed!Active, missed, wire, wire[i + 1], i + 1) /\ w[i] = wire[i + 1] /\ i \in Nat
      BY <1>2, <1>4 DEF WireIs
    <3> QED
      BY <1>6, <3>1 DEF Followed
  <2>2. ASSUME NEW i \in 1..Len(w), w[i].phase = "settled"
        PROVE  runLife[w[i].id] \notin {"running", "unknown"}
    BY <1>2, <1>4, <2>2 DEF WireIs
  <2> QED
    BY <1>4, <2>1, <2>2 DEF WireIs
<1>8. Followed(Feed!Active, missed, w, frame, 0)
  <2>1. Followed(Feed!Active, missed, wire, frame, 0 + 1)
    BY <1>2, <1>4 DEF WireIs
  <2> QED
    BY <1>6, <2>1 DEF Followed
<1>9. frame.phase = "settled" => runLife[frame.id] # "running"
  BY <1>2, <1>4 DEF WireIs
<1>10. frame # None /\ frame.id \in RunIds /\ frame.phase \in {"active", "settled"}
  BY <1>4, Finals DEF RunFrames
<1>11. /\ listed' \in [RunIds -> RunStates]
       /\ frame.phase # "active" => listed'[frame.id] # "running"
       /\ settledRunId' \in RunIds => listed'[settledRunId'] # "running"
  <2>1. CASE isNew
    BY <1>1, <1>2, <1>9, <1>10, <2>1
  <2>2. CASE ~isNew
    BY <1>1, <1>2, <1>10, <2>2
  <2> QED
    BY <2>1, <2>2
<1>12. ~connected => w = <<>>
  BY <1>1, <1>2
<1>13. FeedIs(runLife, Feed!Active, connected, w, frame, settledRunId', listed', missed)
  BY <1>2, <1>4, <1>7, <1>8, <1>10, <1>11, <1>12 DEF FeedIs
<1> QED
  BY <1>1, <1>3, <1>13 DEF FeedInv, Feed!Active

\* The stream is closed: what is on the wire is missed.
LEMMA CloseKeeps ==
    ASSUME FeedInv, connected' = FALSE, wire' = <<>>, UNCHANGED <<streamRun, settledRunId, listed>>,
           runLife' \in [RunIds -> RunStates], revived' \subseteq RunIds,
           missed \union Feed!Lost \subseteq missed',
           \A q \in Feed!Active : q \in Feed!Active' \/ q \in missed'
    PROVE  FeedInv'
<1>1. FeedIs(runLife, Feed!Active, connected, wire, streamRun, settledRunId, listed, missed)
  BY DEF FeedInv
<1>2. ASSUME streamRun # None PROVE Followed(Feed!Active', missed', <<>>, streamRun, 0)
  <2>1. Followed(Feed!Active, missed, wire, streamRun, 0)
    BY <1>1, <1>2 DEF FeedIs
  <2>2. ASSUME NEW q, EndOnWire(wire, q, 0) PROVE q \in missed'
    <3>1. PICK j \in 1..Len(wire) : wire[j].id = q /\ wire[j].phase = "settled"
      BY <2>2 DEF EndOnWire
    <3>2. DOMAIN wire = 1..Len(wire)
      BY <1>1 DEF FeedIs, WireIs
    <3> QED
      BY <3>1, <3>2 DEF Feed!Lost
  <2> QED
    BY <2>1, <2>2 DEF Followed
<1>3. WireIs(runLife', Feed!Active', missed', <<>>)
  BY DEF WireIs
<1>4. Feed!Active' \subseteq RunIds
  BY DEF Feed!Active
<1>5. FeedIs(runLife', Feed!Active', FALSE, <<>>, streamRun, settledRunId, listed, missed')
  BY <1>1, <1>2, <1>3, <1>4 DEF FeedIs
<1> QED
  BY <1>5 DEF FeedInv

LEMMA ConnectKeeps == ASSUME FeedInv, Feed!ConnectStream PROVE FeedInv'
<1>1. FeedIs(runLife, Feed!Active, connected, wire, streamRun, settledRunId, listed, missed)
  BY DEF FeedInv
<1>2. /\ ~connected /\ connected' = TRUE
      /\ UNCHANGED <<streamRun, settledRunId, listed, missed, runLife, revived>>
      /\ \/ Feed!Active = {} /\ wire' = <<>>
         \/ \E r \in Feed!Active : wire' = <<[id |-> r, phase |-> "active"]>>
  BY DEF Feed!ConnectStream, Feed!runs
<1>3. wire = <<>> /\ (streamRun # None => Followed(Feed!Active, missed, <<>>, streamRun, 0))
  BY <1>1, <1>2 DEF FeedIs
<1>4. Feed!Active' = Feed!Active
  BY <1>2 DEF Feed!Active
<1>5. CASE Feed!Active = {} /\ wire' = <<>>
  <2>1. FeedIs(runLife, Feed!Active, TRUE, <<>>, streamRun, settledRunId, listed, missed)
    BY <1>1, <1>3, <1>5 DEF FeedIs
  <2> QED
    BY <1>2, <1>4, <1>5, <2>1 DEF FeedInv
<1>6. ASSUME NEW r \in Feed!Active, wire' = <<[id |-> r, phase |-> "active"]>> PROVE FeedInv'
  <2> DEFINE frame == [id |-> r, phase |-> "active"]
             w == <<frame>>
  <2>1. r \in RunIds
    BY <1>1 DEF FeedIs
  <2>2. frame \in RunFrames /\ frame.id = r /\ frame.phase = "active"
    BY <2>1 DEF RunFrames
  <2> HIDE DEF frame
  <2>3. w \in Seq(RunFrames) /\ Len(w) = 1 /\ w[1] = frame /\ w # <<>>
    BY <2>2
  <2> HIDE DEF w
  <2>4. WireIs(runLife, Feed!Active, missed, w)
    <3>1. \A i \in 1..Len(w) : w[i] = frame
      BY <2>3
    <3> QED
      BY <2>2, <2>3, <3>1 DEF WireIs, Followed
  <2>5. streamRun # None => Followed(Feed!Active, missed, w, streamRun, 0)
    BY <1>3 DEF Followed, EndOnWire
  <2>6. FeedIs(runLife, Feed!Active, TRUE, w, streamRun, settledRunId, listed, missed)
    BY <1>1, <2>3, <2>4, <2>5 DEF FeedIs
  <2> QED
    BY <1>2, <1>4, <1>6, <2>6 DEF FeedInv, w, frame
<1> QED
  BY <1>2, <1>5, <1>6

LEMMA NextFeedInv == FeedInv /\ [Next]_vars => FeedInv'
<1> SUFFICES ASSUME FeedInv, [Next]_vars PROVE FeedInv'
  OBVIOUS
<1>0. runLife \in [RunIds -> RunStates] /\ Feed!Active \subseteq RunIds /\ revived \subseteq RunIds
  BY DEF FeedInv, FeedIs
<1>1. ASSUME NEW r \in RunIds, NEW forgotten \in SUBSET RunIds, Feed!Start(r, forgotten)
      PROVE  FeedInv'
  <2>1. /\ runLife[r] = "unknown"
        /\ \A q \in forgotten : runLife[q] \in {"running"} \union Ended
        /\ runLife' = [q \in RunIds |-> IF q = r THEN "running"
                                        ELSE IF q \in forgotten THEN "forgotten" ELSE runLife[q]]
        /\ revived' = revived \ forgotten /\ Feed!Publish(r)
    BY <1>1, Finals DEF Feed!Start, Feed!Runs!Start
  <2>2. runLife' \in [RunIds -> RunStates]
    BY <1>0, <2>1 DEF RunStates
  <2>3. \A q \in RunIds : runLife'[q] = IF q = r THEN "running"
                                        ELSE IF q \in forgotten THEN "forgotten" ELSE runLife[q]
    BY <2>1
  <2>4. \A q \in Feed!Active : q \in Feed!Active' \/ runLife'[q] = "forgotten" \/ q = r
    BY <1>0, <2>1, <2>3 DEF Feed!Active
  <2> QED
    BY <1>0, <2>1, <2>2, <2>3, <2>4, PublishKeeps
<1>2. ASSUME NEW r \in RunIds, NEW status \in Ends, Feed!SettleRun(r, status)
      PROVE  FeedInv'
  <2>1. status \in Ended
    BY Finals
  <2>2. runLife[r] = "running" /\ runLife' = [runLife EXCEPT ![r] = status]
        /\ revived' = revived /\ Feed!Publish(r)
    BY <1>2 DEF Feed!SettleRun, Feed!Runs!Settle
  <2>3. runLife' \in [RunIds -> RunStates] /\ runLife'[r] = status
    BY <1>0, <2>1, <2>2 DEF RunStates
  <2>4. \A q \in RunIds \ {r} : runLife'[q] = runLife[q]
    BY <1>0, <2>2
  <2>5. \A q \in Feed!Active : q \in Feed!Active' \/ q = r
    BY <1>0, <2>2, <2>4 DEF Feed!Active
  <2> QED
    BY <1>0, <2>1, <2>2, <2>3, <2>4, <2>5, PublishKeeps
<1>3. ASSUME NEW r \in RunIds, Feed!LateDestination(r) PROVE FeedInv'
  <2>1. /\ runLife[r] = "failed" /\ runLife' = runLife /\ Feed!Publish(r)
        /\ revived' = revived \/ revived' = revived \union {r}
    BY <1>3 DEF Feed!LateDestination
  <2>2. \A q \in Feed!Active : q \in Feed!Active'
    BY <2>1 DEF Feed!Active
  <2>3. runLife'[r] \in {"running"} \union Ended
    BY <2>1 DEF Ended
  <2> QED
    BY <1>0, <2>1, <2>2, <2>3, PublishKeeps
<1>4. CASE Feed!RestartServer
  <2>1. /\ runLife' = [r \in RunIds |-> IF runLife[r] \in {"running"} \union Ended THEN "forgotten" ELSE runLife[r]]
        /\ connected' = FALSE /\ wire' = <<>> /\ missed' = missed \union Feed!Lost \union Feed!Active
        /\ revived' = {}
        /\ UNCHANGED <<streamRun, settledRunId, listed>>
    BY <1>4, Finals DEF Feed!RestartServer, Feed!Runs!Restart
  <2>2. runLife' \in [RunIds -> RunStates]
    BY <1>0, <2>1 DEF RunStates
  <2> QED
    BY <2>1, <2>2, CloseKeeps
<1>5. CASE Feed!StreamBreaks
  <2>1. /\ connected' = FALSE /\ wire' = <<>> /\ missed' = missed \union Feed!Lost
        /\ UNCHANGED <<streamRun, settledRunId, listed, runLife, revived>>
    BY <1>5 DEF Feed!StreamBreaks, Feed!runs
  <2>2. Feed!Active' = Feed!Active
    BY <2>1 DEF Feed!Active
  <2> QED
    BY <1>0, <2>1, <2>2, CloseKeeps
<1>6. CASE Feed!ConnectStream
  BY <1>6, ConnectKeeps
<1>7. CASE Feed!FrameArrives
  BY <1>7, ArrivalKeeps
<1>8. CASE UNCHANGED <<runLife, revived, connected, wire, streamRun, settledRunId, listed, missed>>
  BY <1>8 DEF FeedInv, Feed!Active
<1>9. CASE Feed!TriggerBackup \/ Feed!RefuseTrigger \/ Feed!FetchProgress
  BY <1>8, <1>9 DEF Feed!TriggerBackup, Feed!RefuseTrigger, Feed!FetchProgress, Feed!stream, Feed!runs
<1>10. Feed!Next \/ UNCHANGED feedVars
  BY DEF Next, vars, OfJobs, OfPage, OfFeed, OfForm, OfSource
<1>11. CASE UNCHANGED feedVars
  BY <1>8, <1>11 DEF feedVars
<1> QED
  BY <1>1, <1>2, <1>3, <1>4, <1>5, <1>6, <1>7, <1>9, <1>10, <1>11
  DEF Feed!Next, Feed!StartRun, Feed!AnswerTrigger

\* When all that was sent has arrived, some run is shown if one is in progress, one
\* shown in progress is so at the server (its phase is active) unless its end was
\* missed, and an end that is shown is in the list of runs (createStream,
\* connectStream, handleRunEvent, applyDestinationEvent).
THEOREM StreamShowsTheRuns == Spec => []StreamIsTrue
<1>1. FeedInv => StreamIsTrue
  <2> SUFFICES ASSUME FeedInv, connected, wire = <<>>
               PROVE  /\ Feed!Active # {} => streamRun # None
                      /\ streamRun # None =>
                           IF streamRun.phase = "active" THEN streamRun.id \in Feed!Active \union missed
                                                         ELSE listed[streamRun.id] # "running"
    BY DEF StreamIsTrue, Feed!StreamIsTrue
  <2>1. \A q : ~EndOnWire(<<>>, q, 0)
    BY DEF EndOnWire
  <2> QED
    BY <2>1 DEF FeedInv, FeedIs, Followed
<1> QED
  BY <1>1, InitFeedInv, NextFeedInv, PTL DEF Spec
=============================================================================
