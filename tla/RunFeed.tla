------------------------------- MODULE RunFeed --------------------------------
(***************************************************************************)
(* How the web client learns of runs.  useBackupProgress (hooks/queries/   *)
(* backups.ts) polls GET /api/backups/progress; useEventStream listens to  *)
(* GET /api/events/stream, and the activity page fetches its list of runs  *)
(* again when the stream shows the end of one.  The API keeps the promise  *)
(* of RunLifecycle; the client judges by the phase, which is active while  *)
(* a run is running, and again when a destination of a run that failed     *)
(* starts late.                                                            *)
(***************************************************************************)
EXTENDS Naturals, Sequences

CONSTANTS
    RunIds, None,
    Ends,     \* the ways a run may end
    MaxWire   \* bound: the frames on their way to the client

VARIABLES
    life,           \* the runs, as the API shows them
    revived,        \* those that failed and have the phase "uploading" again
    progress,       \* the data of the query "backup-progress"
    lastSeen,       \* the last data that was not null
    progressStale,  \* the query was invalidated, or never answered
    sending,        \* POST /api/backups/run is under way
    connected,      \* the stream is open
    wire,           \* the frames sent and not received
    streamRun,      \* run: the last frame received
    settledRunId,   \* the run whose end made the page fetch its list
    listed,         \* the list of runs, as it was last fetched
    missed          \* history: runs whose last frame was not delivered

poll   == <<progress, lastSeen, progressStale, sending>>
stream == <<connected, wire, streamRun, settledRunId, listed, missed>>
runs   == <<life, revived>>
vars   == <<runs, poll, stream>>

Runs == INSTANCE RunLifecycle

\* The run that is shown while a run is asked for has the id "pending".
Pending == "pending"
Frames == [id : RunIds \union {Pending}, phase : {"active", "settled"}]

FeedAssumption ==
    /\ Ends \subseteq Runs!Final /\ MaxWire \in Nat
    /\ None \notin RunIds \union Frames

\* isActivePhase.
Active   == {r \in RunIds : life[r] = "running"} \union revived
Frame(r) == [id |-> r, phase |-> IF r \in Active' THEN "active" ELSE "settled"]

Init ==
    /\ Runs!Init /\ revived = {}
    /\ progress = None /\ lastSeen = None /\ progressStale = TRUE /\ sending = FALSE
    /\ connected = FALSE /\ wire = <<>> /\ streamRun = None /\ settledRunId = None
    /\ listed = life /\ missed = {}
-----------------------------------------------------------------------------
\* A run that changes is published to who has subscribed (event-bus.ts).  The
\* end of one that the registry has dropped meanwhile never is.
Publish(r) ==
    /\ Len(wire) < MaxWire
    /\ wire' = IF connected THEN Append(wire, Frame(r)) ELSE wire
    /\ missed' = missed \union {q \in Active : life'[q] = "forgotten"}
                        \union {q \in {r} : ~connected /\ q \in Active \ Active'}
    /\ UNCHANGED <<connected, streamRun, settledRunId, listed>>

Start(r, forgotten) == Runs!Start(r, forgotten) /\ revived' = revived \ forgotten /\ Publish(r)

StartRun(r, forgotten) == Start(r, forgotten) /\ UNCHANGED poll
SettleRun(r, status)   == Runs!Settle(r, status) /\ UNCHANGED revived /\ Publish(r) /\ UNCHANGED poll

\* A run fails while others of its destinations are still at work: one of them
\* that starts sets the phase, one that ends leaves it, and both are published.
LateDestination(r) ==
    /\ life[r] = "failed" /\ UNCHANGED life
    /\ revived' \in {revived, revived \union {r}}
    /\ Publish(r)
    /\ UNCHANGED poll

\* What the stream loses when it breaks: the ends on the wire.
Lost == {wire[i].id : i \in {i \in DOMAIN wire : wire[i].phase = "settled"}}

RestartServer ==
    /\ Runs!Restart /\ revived' = {}
    /\ connected' = FALSE /\ wire' = <<>> /\ missed' = missed \union Lost \union Active
    /\ UNCHANGED <<streamRun, settledRunId, listed, poll>>
-----------------------------------------------------------------------------
\* runBackupNow, with onMutate of useTriggerBackup: the run is shown as queued
\* before it is asked for.
TriggerBackup ==
    /\ ~sending
    /\ sending' = TRUE
    /\ progress' = [id |-> Pending, phase |-> "active"]
    /\ UNCHANGED <<lastSeen, progressStale, stream, runs>>

\* onSuccess invalidates the query; an error or a lost answer leaves it.
AnswerTrigger(r, forgotten) ==
    /\ sending /\ sending' = FALSE
    /\ Start(r, forgotten)
    /\ progressStale' \in {progressStale, TRUE}
    /\ UNCHANGED <<progress, lastSeen>>
RefuseTrigger ==
    /\ sending /\ sending' = FALSE
    /\ UNCHANGED <<progress, lastSeen, progressStale, stream, runs>>

\* GET /api/backups/progress answers a run whose phase is active, or null; null
\* shows what was seen last.  The query polls while it shows nothing or such a
\* run; a run that has ended stops it.
FetchProgress ==
    /\ progress # None /\ progress.phase # "active" => progressStale
    /\ lastSeen' \in IF Active = {} THEN {lastSeen} ELSE [id : Active, phase : {"active"}]
    /\ progress' = lastSeen'
    /\ progressStale' = FALSE
    /\ UNCHANGED <<sending, stream, runs>>
-----------------------------------------------------------------------------
\* Mutation: the server looks for the active run before it subscribes the client.
ConnectStreamLate ==
    /\ ~connected
    /\ connected' = TRUE
    /\ wire' = <<>>
    /\ UNCHANGED <<streamRun, settledRunId, listed, missed, poll, runs>>

\* connectStream, on mount and 3 s after each error: the server subscribes the
\* client and sends the active run.
ConnectStream ==
    /\ ~connected
    /\ connected' = TRUE
    /\ wire' \in IF Active = {} THEN {<<>>} ELSE {<<[id |-> r, phase |-> "active"]>> : r \in Active}
    /\ UNCHANGED <<streamRun, settledRunId, listed, missed, poll, runs>>

\* onerror closes the stream and sets the timer that connects it again.
StreamBreaks ==
    /\ connected
    /\ connected' = FALSE /\ wire' = <<>> /\ missed' = missed \union Lost
    /\ UNCHANGED <<streamRun, settledRunId, listed, poll, runs>>

\* handleRunEvent, and the effect of the activity page: the end of a run that is
\* not the one noted last makes it fetch its list again (invalidateRunQueries).
FrameArrives ==
    LET frame == Head(wire)
        news  == frame.phase = "settled" /\ settledRunId # frame.id
    IN  /\ wire # <<>>
        /\ wire' = Tail(wire)
        /\ streamRun' = frame
        /\ settledRunId' = IF news THEN frame.id ELSE settledRunId
        /\ listed' = IF news THEN life ELSE listed
        /\ UNCHANGED <<connected, missed, poll, runs>>
-----------------------------------------------------------------------------
Next ==
    \/ \E r \in RunIds, forgotten \in SUBSET RunIds :
         StartRun(r, forgotten) \/ AnswerTrigger(r, forgotten)
    \/ \E r \in RunIds, status \in Ends : SettleRun(r, status)
    \/ \E r \in RunIds : LateDestination(r)
    \/ RestartServer \/ TriggerBackup \/ RefuseTrigger \/ FetchProgress
    \/ ConnectStream \/ StreamBreaks \/ FrameArrives
-----------------------------------------------------------------------------
TypeOK ==
    /\ life \in [RunIds -> Runs!Known \union {"unknown", "forgotten"}]
    /\ revived \subseteq RunIds
    /\ progress \in Frames \union {None} /\ lastSeen \in Frames \union {None}
    /\ progressStale \in BOOLEAN /\ sending \in BOOLEAN /\ connected \in BOOLEAN
    /\ wire \in Seq(Frames) /\ Len(wire) <= MaxWire
    /\ streamRun \in Frames \union {None} /\ settledRunId \in RunIds \union {None}
    /\ missed \subseteq RunIds

\* When everything sent has arrived, some run is shown if one is in progress, and
\* one shown in progress is so at the server, unless it ended while the client
\* was not connected or was dropped from the registry; an end that was shown is
\* in the list of runs.  In progress is what the phase says: a run that failed
\* and whose late destination has set it back is shown so to every client
\* (createStream, connectStream, applyDestinationEvent, the effect of the page).
StreamIsTrue ==
    connected /\ wire = <<>> =>
      /\ Active # {} => streamRun # None
      /\ streamRun # None =>
           IF streamRun.phase = "active" THEN streamRun.id \in Active \union missed
                                         ELSE listed[streamRun.id] # "running"

\* A run that the dashboard shows in progress is shown there as ended, or no
\* longer, when it has ended (useBackupProgress): violated.
ProgressEnds ==
    \A r \in RunIds : (progress = [id |-> r, phase |-> "active"]) ~> (progress # [id |-> r, phase |-> "active"])
=============================================================================
