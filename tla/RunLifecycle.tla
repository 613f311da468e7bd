---------------------------- MODULE RunLifecycle ----------------------------
(***************************************************************************)
(* What the API promises of a run (GET /api/backups/:id, the run frames of *)
(* /api/events/stream): it is running until it is settled, it is settled   *)
(* once, and a run that the registry has forgotten does not come back.     *)
(***************************************************************************)
CONSTANT RunIds

VARIABLE life

Final == {"success", "partial", "failed", "skipped"}
Known == {"running"} \union Final

Init == life = [r \in RunIds |-> "unknown"]

\* The runs in `forgotten` make room for r.
Start(r, forgotten) ==
    /\ life[r] = "unknown"
    /\ \A q \in forgotten : life[q] \in Known
    /\ life' = [q \in RunIds |-> IF q = r THEN "running"
                                 ELSE IF q \in forgotten THEN "forgotten" ELSE life[q]]

Settle(r, status) ==
    /\ life[r] = "running"
    /\ life' = [life EXCEPT ![r] = status]

Restart ==
    life' = [r \in RunIds |-> IF life[r] \in Known THEN "forgotten" ELSE life[r]]

Next ==
    \/ \E r \in RunIds, forgotten \in SUBSET RunIds : Start(r, forgotten)
    \/ \E r \in RunIds, status \in Final : Settle(r, status)
    \/ Restart

Spec == Init /\ [][Next]_life
=============================================================================
