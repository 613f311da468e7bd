------------------------------ MODULE WebClient -------------------------------
(***************************************************************************)
(* The restore jobs of the server (RestoreJobs) and the web client: its    *)
(* restore page (RestorePage), its view of the runs (RunFeed), its forms   *)
(* (EditForm, SourceForm).  The page is before the promise of the jobs'    *)
(* API (RestoreLifecycle), which the jobs are shown to keep; so no two of  *)
(* them share state, and a behaviour is one of one of them, named by       *)
(* `part`.                                                                 *)
(***************************************************************************)
EXTENDS Naturals, FiniteSets, Sequences

CONSTANTS
    JobIds, StartedAt, Dests, SftpDests, Periods, Files, Holds, Existing, Blocked, MaxJobs, Asked,
    Faults, PageJobs, Preselected, PreselectedPeriod,
    RunIds, Ends, MaxWire,
    Fields, Values, Fixed, Optional, Empty, Default, FirstSaved, MaxNews,
    Types, Hosts, LocalHost, Containers, Databases, VolumesOf, Texts,
    None

VARIABLES
    part,
    jobs, active, job, aborted, request, worker, at, outcome, target, met,
    life, destId, periodKey, selected, dialog, pageSending, cancelling, shown, stale,
    runLife, revived, progress, lastSeen, progressStale, triggering, connected, wire, streamRun,
    settledRunId, listed, missed,
    kind, saved, news, answer, cached, form, saving, edited, meant, fetched,
    type, value, dbTimer, dbAsked, loading, databases, dbError, volTimer, volAsked, volumes, volError,
    listing, containers, containersError, creating, under

Jobs == INSTANCE RestoreJobs
Page == INSTANCE RestorePage WITH JobIds <- PageJobs, sending <- pageSending
Feed == INSTANCE RunFeed WITH life <- runLife, sending <- triggering
Form == INSTANCE EditForm WITH sending <- saving
Source == INSTANCE SourceForm WITH Empty <- None

ASSUME WebClientAssumption ==
    /\ Jobs!RestoreAssumption /\ Page!PageAssumption /\ Feed!FeedAssumption
    /\ Form!FormAssumption /\ Source!SourceFormAssumption

jobVars  == <<jobs, active, job, aborted, request, worker, at, outcome, target, met>>
pageVars == <<life, destId, periodKey, selected, dialog, pageSending, cancelling, shown, stale>>
feedVars == <<runLife, revived, progress, lastSeen, progressStale, triggering, connected, wire,
              streamRun, settledRunId, listed, missed>>
formVars == <<kind, saved, news, answer, cached, form, saving, edited, meant, fetched>>
sourceVars == <<type, value, dbTimer, dbAsked, loading, databases, dbError, volTimer, volAsked,
                volumes, volError, listing, containers, containersError, creating, under>>
vars     == <<part, jobVars, pageVars, feedVars, formVars, sourceVars>>

Init ==
    /\ part \in {"jobs", "page", "feed", "form", "source"}
    /\ Jobs!Init /\ Page!Init /\ Feed!Init /\ Form!Init /\ Source!Init
    /\ part # "form" => kind = "card"

OfJobs(A) == part = "jobs" /\ A /\ UNCHANGED <<part, pageVars, feedVars, formVars, sourceVars>>
OfPage(A) == part = "page" /\ A /\ UNCHANGED <<part, jobVars, feedVars, formVars, sourceVars>>
OfFeed(A) == part = "feed" /\ A /\ UNCHANGED <<part, jobVars, pageVars, formVars, sourceVars>>
OfForm(A) == part = "form" /\ A /\ UNCHANGED <<part, jobVars, pageVars, feedVars, sourceVars>>
OfSource(A) == part = "source" /\ A /\ UNCHANGED <<part, jobVars, pageVars, feedVars, formVars>>

Next ==
    \/ OfJobs(Jobs!Next) \/ OfPage(Page!Next) \/ OfFeed(Feed!Next)
    \/ OfForm(Form!Next) \/ OfSource(Source!Next)

Spec == Init /\ [][Next]_vars

\* Every await of a worker ends, every job is settled, and the polling goes on.
\* What users, other clients and the network do is not fair.
FairSpec ==
    /\ Spec
    /\ \A j \in JobIds : WF_vars(OfJobs(Jobs!WorkerStep(j)))
    /\ \A j \in PageJobs : WF_vars(OfPage(Page!SettleJob(j)))
    /\ WF_vars(OfPage(Page!FetchActive))

\* The same of the runs: they end, and the progress is polled.
FairFeedSpec ==
    /\ Spec
    /\ \A r \in RunIds : WF_vars(OfFeed(\E status \in Ends : Feed!SettleRun(r, status)))
    /\ WF_vars(OfFeed(Feed!FetchProgress)) /\ WF_vars(OfFeed(Feed!FrameArrives))
-----------------------------------------------------------------------------
\* The properties of the five, where they are stated and explained.
TypeOK == Jobs!TypeOK /\ Page!TypeOK /\ Feed!TypeOK /\ Form!TypeOK /\ Source!TypeOK

\* A job shown as running is the active one and its worker is at work (restore.ts).
RunningIsActive       == Jobs!RunningIsActive
\* The status of a job tells what became of its files (finalStatus).
StatusTellsOutcome    == Jobs!StatusTellsOutcome
\* A restored file holds what the snapshot holds (copyLocalFile, fetchSftpFile).
RestoredFilesAreWhole == Jobs!RestoredFilesAreWhole
\* The jobs keep the promise of their API (RestoreLifecycle).
KeepsItsPromise       == Jobs!KeepsItsPromise
\* Every worker comes to its end, a cancelled one too (processFiles).
WorkersEnd            == Jobs!WorkersEnd
\* The restore page asks for the files that it listed (confirmRestore).
AsksForWhatIsListed   == Page!AsksForWhatIsListed
\* No job is shown as running for ever (useActiveRestore).
PageFollows           == Page!PageFollows
\* The stream shows the runs as they are, but for ends it missed (useEventStream).
StreamIsTrue          == Feed!StreamIsTrue
\* A run shown in progress is shown as ended: violated (useBackupProgress).
ProgressEnds          == Feed!ProgressEnds
\* A save takes back nothing that the client has seen (handleSave).
SavesWhatItShows      == Form!SavesWhatItShows
\* A source is made of what was chosen for its type (NewSourceFormProvider).
SentAsChosen          == Source!SentAsChosen
=============================================================================
