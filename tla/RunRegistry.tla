----------------------------- MODULE RunRegistry -----------------------------
(***************************************************************************)
(* The registry of runs that the API keeps in memory: packages/api/src/lib *)
(* progress.ts and run-events.ts.  A registry is a value; its operations   *)
(* are operators from registries to registries.                            *)
(*                                                                         *)
(* A destination's id is unique (loader.ts gives one to those without).    *)
(* Its name and its path need not be, and an event or a result is matched  *)
(* by any of the three.                                                    *)
(***************************************************************************)
EXTENDS Naturals, Sequences, FiniteSets

CONSTANTS
    RunIds, Dests,
    Place,          \* the place of each destination in the config's list
    Parallel,       \* the destinations with `parallel`
    Name, Path,     \* the name and the path of each destination
    NoName,         \* the name of a destination without one
    MaxRecentRuns,  \* MAX_RECENT_RUNS
    NoSnapshot

ActivePhases == {"queued", "resolving", "archiving", "uploading"}
Phases       == ActivePhases \union {"completed", "failed"}
Statuses     == {"running", "success", "partial", "failed", "skipped"}
\* "absent" stands for a destination that is not in the snapshot's list.
DestStatuses == {"absent", "pending", "uploading", "done", "error", "skipped"}

Snapshots  == [phase : Phases, status : Statuses, dests : [Dests -> DestStatuses]]

ASSUME RegistryAssumption ==
    /\ Place \in [Dests -> Nat] /\ \A d, e \in Dests : Place[d] = Place[e] => d = e
    /\ Parallel \subseteq Dests
    /\ \A d \in Dests : Path[d] # NoName
    /\ MaxRecentRuns \in Nat \ {0} /\ NoSnapshot \notin Snapshots \union RunIds

First(S) == CHOOSE d \in S : \A e \in S : Place[d] <= Place[e]

\* The name in the snapshot, which is also the destLabel of a result.
Label(d) == IF Name[d] = NoName THEN Path[d] ELSE Name[d]

EmptyRegistry == [runs |-> [r \in RunIds |-> NoSnapshot], recent |-> <<>>]

Registered(reg, r) == reg.runs[r] # NoSnapshot

\* startRun, with the destinations of the config in force.
StartRun(reg, r, dests) ==
    LET snapshot == [phase |-> "queued", status |-> "running",
                     dests |-> [d \in Dests |-> IF d \in dests THEN "pending" ELSE "absent"]]
        recent   == <<r>> \o reg.recent
        kept     == SubSeq(recent, 1, IF Len(recent) > MaxRecentRuns THEN MaxRecentRuns ELSE Len(recent))
    IN  [runs   |-> [q \in RunIds |->
                       IF q = r THEN snapshot
                       ELSE IF \E i \in 1..Len(kept) : kept[i] = q THEN reg.runs[q] ELSE NoSnapshot],
         recent |-> kept]

\* What an event says of the run's phase, or of its destination.
PhaseFor(event) ==
    CASE event = "run-start" -> "resolving"
      [] event = "archiving" -> "archiving"
      [] event = "destination-start" -> "uploading"
DestStatusFor(event) ==
    CASE event = "destination-start" -> "uploading"
      [] event = "destination-skipped" -> "skipped"
      [] event = "destination-done" -> "done"
      [] event = "destination-error" -> "error"

\* findDestination, as a set of at most one: the destination of the snapshot's
\* list that an event of d is taken for, by its id, its name or its path.
FindDestination(snap, d) ==
    LET listed == {e \in Dests : snap.dests[e] # "absent"}
        byName == {e \in listed : Label(e) = Name[d]}
        byPath == {e \in listed : Path[e] = Path[d]}
    IN  IF d \in listed THEN {d}
        ELSE IF byName # {} THEN {First(byName)}
        ELSE IF byPath # {} THEN {First(byPath)}
        ELSE {}

\* Mutation: a destination that starts sets the run's status back to running.
EventOnSnapshotReopening(snap, event, d) ==
    IF event \in {"run-start", "archiving"} THEN [snap EXCEPT !.phase = PhaseFor(event)]
    ELSE LET found == FindDestination(snap, d)
             start == event = "destination-start" /\ found # {}
         IN  [phase  |-> IF start THEN "uploading" ELSE snap.phase,
              status |-> IF start THEN "running" ELSE snap.status,
              dests  |-> [e \in Dests |-> IF e \in found THEN DestStatusFor(event) ELSE snap.dests[e]]]

\* applyRunStart, applyArchiving and applyDestinationEvent.  An event that is
\* taken for no destination of the list is dropped.
EventOnSnapshot(snap, event, d) ==
    IF event \in {"run-start", "archiving"} THEN [snap EXCEPT !.phase = PhaseFor(event)]
    ELSE LET found == FindDestination(snap, d)
             start == event = "destination-start" /\ found # {}
         IN  [phase  |-> IF start THEN PhaseFor(event) ELSE snap.phase,
              status |-> snap.status,
              dests  |-> [e \in Dests |-> IF e \in found THEN DestStatusFor(event) ELSE snap.dests[e]]]

ApplyProgressEvent(reg, r, event, d) ==
    IF Registered(reg, r) THEN [reg EXCEPT !.runs[r] = EventOnSnapshot(@, event, d)] ELSE reg

\* Mutation: errors of the run itself are overlooked.
DeriveRunStatusOfResults(success, outcomes) ==
    LET results == {outcomes[d] : d \in DOMAIN outcomes}
    IN  IF results = {"skipped"} THEN "skipped"
        ELSE IF "error" \notin results THEN "success"
        ELSE IF results \intersect {"skipped", "done"} # {} THEN "partial"
        ELSE "failed"

\* Mutation: one destination that did well is enough for a success.
DeriveRunStatusOfAny(success, outcomes) ==
    LET results == {outcomes[d] : d \in DOMAIN outcomes}
    IN  IF results = {"skipped"} THEN "skipped"
        ELSE IF success \/ results \intersect {"skipped", "done"} # {} THEN "success"
        ELSE "failed"

\* deriveRunStatus: outcomes is a function from the destinations of the result
\* to "skipped", "done" or "error".
DeriveRunStatus(success, outcomes) ==
    LET results == {outcomes[d] : d \in DOMAIN outcomes}
    IN  IF results = {"skipped"} THEN "skipped"
        ELSE IF success THEN "success"
        ELSE IF results \intersect {"skipped", "done"} # {} THEN "partial"
        ELSE "failed"

\* Mutation: the phase is left as the last event set it.
CompleteRunKeepingPhase(reg, r, success, outcomes) ==
    IF ~Registered(reg, r) THEN reg
    ELSE [reg EXCEPT !.runs[r].status = DeriveRunStatus(success, outcomes)]

\* The result of e is taken for one of d.
Matches(e, d) == e = d \/ Name[e] = Label(d) \/ Label(e) = Path[d]

\* Of some results the first: those of the parallel destinations come last.
FirstResult(S) == First(IF S \subseteq Parallel THEN S ELSE S \ Parallel)

\* settleDestinations: each destination of the list gets the first result that
\* is taken for one of it, which need not be its own.
SettleDestinations(dests, outcomes) ==
    [d \in Dests |->
       LET told == {e \in DOMAIN outcomes : Matches(e, d)}
       IN  IF dests[d] = "absent" \/ told = {} THEN dests[d] ELSE outcomes[FirstResult(told)]]

CompleteRun(reg, r, success, outcomes) ==
    IF ~Registered(reg, r) THEN reg
    ELSE [reg EXCEPT !.runs[r] =
            [phase  |-> IF success THEN "completed" ELSE "failed",
             status |-> DeriveRunStatus(success, outcomes),
             dests  |-> SettleDestinations(@.dests, outcomes)]]

FailRun(reg, r) ==
    IF Registered(reg, r) THEN [reg EXCEPT !.runs[r].phase = "failed", !.runs[r].status = "failed"]
                          ELSE reg

\* getActiveRun, GET /api/backups/active: the newest run in an active phase.
ActiveRuns(reg) == {r \in RunIds : Registered(reg, r) /\ reg.runs[r].phase \in ActivePhases}
GetActiveRun(reg) ==
    LET active == {i \in 1..Len(reg.recent) : reg.recent[i] \in ActiveRuns(reg)}
    IN  IF active = {} THEN NoSnapshot
        ELSE reg.recent[CHOOSE i \in active : \A k \in active : i <= k]
=============================================================================
