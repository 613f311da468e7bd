----------------------------- MODULE RestorePage ------------------------------
(***************************************************************************)
(* The restore page of the web client (web/src/app/(dashboard)/restore)    *)
(* with its queries and mutations (hooks/queries/restores.ts), before an   *)
(* API that keeps the promise of RestoreLifecycle, and that other clients  *)
(* use as well.                                                            *)
(*                                                                         *)
(* A request that starts or cancels a job is under way between its sending *)
(* and its answer.  A poll of GET /api/restores/active is one step: the    *)
(* client has at most one under way.                                       *)
(***************************************************************************)
EXTENDS FiniteSets

CONSTANTS
    JobIds, Dests, Periods, Files,
    Holds,             \* Holds[d][p]: the files in the snapshot p at destination d
    Preselected,       \* the destination in the page's URL, or None
    PreselectedPeriod,
    None

PageAssumption ==
    /\ Preselected \in Dests \union {None}
    /\ PreselectedPeriod \in Periods \union {None}
    /\ Holds \in [Dests -> [Periods -> SUBSET Files]]

VARIABLES
    life,                         \* the jobs, as the API shows them
    destId, periodKey, selected,  \* what the user has chosen
    dialog,     \* the dialog that covers the page: confirmOpen, cancelOpen
    sending,    \* the request of startRestore under way, or None
    cancelling, \* the job of cancelRestore under way, or None
    shown,      \* activeJob, as it was last fetched
    stale       \* the query "restore-active" was invalidated

choice == <<destId, periodKey, selected>>
client == <<choice, dialog, sending, cancelling, shown, stale>>
vars   == <<life, client>>

Jobs == INSTANCE RestoreLifecycle

Nothing == [id |-> None, status |-> "none"]

Init ==
    /\ Jobs!Init
    /\ destId = Preselected /\ periodKey = PreselectedPeriod /\ selected = {}
    /\ dialog = "none"
    /\ sending = None /\ cancelling = None
    /\ shown = Nothing /\ stale = TRUE

\* useRestoreSnapshotFiles: the files in the tree.
Listed == IF None \in {destId, periodKey} THEN {} ELSE Holds[destId][periodKey]
-----------------------------------------------------------------------------
\* Mutation: another destination keeps the period, and with it the selection.
ChooseDestinationOnly(d) ==
    /\ dialog = "none"
    /\ destId' = d
    /\ UNCHANGED <<periodKey, selected, dialog, sending, cancelling, shown, stale, life>>

\* The select for the destination; the effect on periodKey then clears the
\* selection.
ChooseDestination(d) ==
    /\ dialog = "none"
    /\ destId' = d /\ periodKey' = None
    /\ selected' = IF periodKey = None THEN selected ELSE {}
    /\ UNCHANGED <<dialog, sending, cancelling, shown, stale, life>>

ChoosePeriod(p) ==
    /\ dialog = "none" /\ destId # None
    /\ periodKey' = p
    /\ selected' = IF p = periodKey THEN selected ELSE {}
    /\ UNCHANGED <<destId, dialog, sending, cancelling, shown, stale, life>>

\* Each fetch of the destinations answers new records (createdAt is the time of
\* the answer), and the effect on them chooses the preselected one again; the
\* period and the selection stay, and so does a dialog.
DestinationsFetched ==
    /\ Preselected # None
    /\ destId' = Preselected
    /\ UNCHANGED <<periodKey, selected, dialog, sending, cancelling, shown, stale, life>>

\* toggleOne for a file, toggleMany for the files of a directory.
TogglePaths(paths, select) ==
    /\ dialog = "none" /\ paths \subseteq Listed
    /\ selected' = IF select THEN selected \union paths ELSE selected \ paths
    /\ UNCHANGED <<destId, periodKey, dialog, sending, cancelling, shown, stale, life>>

CanRestore ==
    /\ None \notin {destId, periodKey} /\ selected # {}
    /\ sending = None /\ shown.status # "running"

OpenConfirm ==
    /\ dialog = "none" /\ CanRestore
    /\ dialog' = "confirm"
    /\ UNCHANGED <<choice, sending, cancelling, shown, stale, life>>

\* confirmRestore: what is chosen now.  A request with no files is one for the
\* whole snapshot.
ConfirmRestore ==
    /\ dialog = "confirm"
    /\ sending' = IF None \in {destId, periodKey} THEN sending
                  ELSE [dest |-> destId, period |-> periodKey, whole |-> selected = {}, files |-> selected]
    /\ dialog' = "none"
    /\ UNCHANGED <<choice, cancelling, shown, stale, life>>

OpenCancel ==
    /\ dialog = "none" /\ shown.status = "running" /\ cancelling = None
    /\ dialog' = "cancel"
    /\ UNCHANGED <<choice, sending, cancelling, shown, stale, life>>

\* confirmCancel: the job that is shown when the user confirms.
ConfirmCancel ==
    /\ dialog = "cancel"
    /\ cancelling' = shown.id
    /\ dialog' = "none"
    /\ UNCHANGED <<choice, sending, shown, stale, life>>

CloseDialog ==
    /\ dialog # "none"
    /\ dialog' = "none"
    /\ UNCHANGED <<choice, sending, cancelling, shown, stale, life>>
-----------------------------------------------------------------------------
\* POST /api/restores: 202, and the mutation invalidates "restore-active",
\* unless the answer is lost.
AnswerStart(j, forgotten) ==
    /\ sending # None
    /\ Jobs!Start(j, forgotten)
    /\ stale' \in {stale, TRUE}
    /\ sending' = None
    /\ UNCHANGED <<choice, dialog, cancelling, shown>>

\* 409 while a job runs, 400 or 404 for what was asked, or no answer.
RefuseStart ==
    /\ sending # None
    /\ sending' = None
    /\ UNCHANGED <<choice, dialog, cancelling, shown, stale, life>>

\* POST /api/restores/:id/cancel: a job that is over is answered as it is.
AnswerCancel ==
    /\ cancelling # None
    /\ cancelling' = None
    /\ \/ life[cancelling] = "running" /\ Jobs!Settle(cancelling, "cancelled")
       \/ life[cancelling] # "running" /\ UNCHANGED life
    /\ stale' \in {stale, TRUE}
    /\ UNCHANGED <<choice, dialog, sending, shown>>

\* GET /api/restores/active: the job that runs, or one that is known.
Known == {j \in JobIds : life[j] \in Jobs!Final}
ActiveJobs ==
    LET running == {j \in JobIds : life[j] = "running"}
    IN  IF running # {} THEN running ELSE IF Known = {} THEN {None} ELSE Known
AsShown(j) == IF j = None THEN Nothing ELSE [id |-> j, status |-> life[j]]

\* Mutation: the job is fetched until there is one.
FetchActiveOnce ==
    /\ stale /\ shown = Nothing
    /\ \E j \in ActiveJobs : shown' = AsShown(j)
    /\ stale' = FALSE
    /\ UNCHANGED <<choice, dialog, sending, cancelling, life>>

\* useActiveRestore: on mount, when invalidated, and every second while the job
\* that is shown runs.
FetchActive ==
    /\ stale \/ shown.status = "running"
    /\ \E j \in ActiveJobs : shown' = AsShown(j)
    /\ stale' = FALSE
    /\ UNCHANGED <<choice, dialog, sending, cancelling, life>>
-----------------------------------------------------------------------------
UserStep ==
    \/ \E d \in Dests \union {None} : ChooseDestination(d)
    \/ \E p \in Periods \union {None} : ChoosePeriod(p)
    \/ \E paths \in SUBSET Files, select \in BOOLEAN : TogglePaths(paths, select)
    \/ OpenConfirm \/ ConfirmRestore \/ OpenCancel \/ ConfirmCancel \/ CloseDialog

SettleJob(j) == UNCHANGED client /\ \E status \in Jobs!Final : Jobs!Settle(j, status)

Next ==
    \/ UserStep \/ DestinationsFetched
    \/ \E j \in JobIds, forgotten \in SUBSET JobIds : AnswerStart(j, forgotten)
    \/ RefuseStart \/ AnswerCancel \/ FetchActive
    \/ Jobs!Next /\ UNCHANGED client

Spec == Init /\ [][Next]_vars
-----------------------------------------------------------------------------
TypeOK ==
    /\ life \in [JobIds -> Jobs!Final \union {"unknown", "running", "forgotten"}]
    /\ destId \in Dests \union {None} /\ periodKey \in Periods \union {None}
    /\ selected \subseteq Files
    /\ dialog \in {"none", "confirm", "cancel"} /\ stale \in BOOLEAN
    /\ sending \in [dest : Dests, period : Periods, whole : BOOLEAN, files : SUBSET Files] \union {None}
    /\ cancelling \in JobIds \union {None}
    /\ shown \in [id : JobIds \union {None}, status : Jobs!Final \union {"none", "running"}]

\* The page never asks for a snapshot as a whole (a request without files), and
\* it asks for files of the snapshot they were chosen from, but when a fetch of
\* the destinations has brought the preselected one back (canRestore,
\* confirmRestore, the effects on periodKey and on destinations).
AsksForWhatIsListed ==
    sending # None =>
      /\ ~sending.whole
      /\ sending.files \subseteq Holds[sending.dest][sending.period] \/ sending.dest = Preselected

\* No job is shown as running for ever (useActiveRestore).
PageFollows ==
    \A j \in JobIds : (shown = [id |-> j, status |-> "running"]) ~> (shown # [id |-> j, status |-> "running"])
=============================================================================
